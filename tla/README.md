# A formal model of minyoung-mah

`minyoung_mah` is a Python library for running LLM agents: an orchestrator drives
*roles* (a model, its tools, its timeout) alone or in a static pipeline; the
library brings the tool engine, the timeouts, the human-in-the-loop plumbing,
memory and context compaction the orchestrator needs. This directory holds TLA+
models of those parts, the TLC configurations that check them on small
instances, and TLAPS proofs of what matters most for every size of them.

Paths below are relative to `src/minyoung_mah/` unless they start with `src/`.

* [Inventory](#inventory) - the parts of the system and what is hard about them
* [Modules](#modules) - which module models what, and how
* [Runs](#runs) - what TLC checks, on which bounds, and what it shows
* [Fairness](#fairness)
* [Proofs](#proofs)
* [Disagreements between code and documentation](#disagreements-between-code-and-documentation)
* [What is not modelled](#what-is-not-modelled)
* [Plan](#plan)

To check a run: `tlc -config X.cfg M` with the module and configuration of the
table below. To check a proof: `tlapm M.tla`.

## Inventory

Everything runs on one asyncio event loop unless noted. The unit of atomicity is
therefore the stretch of code between two `await`s; what is hard is what other
coroutines, timers, cancellations and worker threads do at the `await`s.

### Tool invocation engine (`core/tool_invocation.py`)

`call_one` runs one tool call: it validates the arguments against the tool's
schema, then makes up to `max_attempts` attempts, each under
`asyncio.wait_for(adapter.call, per_call_timeout_s)`; a transient failure
(TIMEOUT, RATE_LIMIT, NETWORK) is retried after an exponential backoff.
`call_parallel` gathers several. *State*: per call the attempt number, the
backoff and the await it is parked at. *Interactions*: called by the role loop and
by `ExecuteToolsStep`; emits `role.tool.call.*` and `role.resilience.retry`; signals a
success to the watchdog. *Hard*: the answer that races the timeout, an adapter
that swallows the cancellation and answers late, the accumulation of timeouts and
backoffs. *Correct when*: only transient failures are retried, in order and not
too early; a transient error is returned only after the last attempt; the total
time is bounded; the gather ends though no adapter does.

### Role invocation (`core/orchestrator.py`, `invoke_role`) and progress watchdog (`resilience/progress_watchdog.py`)

`invoke_role` starts a task for the role and polls a `ProgressWatchdog` beside it.
The role's timeout is a *deadline* that each novel successful tool call moves by
`watchdog_extend_s`, up to a hard cap. The task runs one structured model call or
a loop of model call and tool calls, up to `max_iterations`. *State*: the scheduler's
await, the task, the deadline, the set of seen successes, the iteration and the
tool calls of the current AI message. *Interactions*: owns the tool engine's calls;
is cancelled by its own watchdog and by its caller. *Hard*: the deadline moves
while the scheduler sleeps; the task ends in the turn in which the deadline passes;
cancellation hits a tool call or a backoff sleep; two cancellations meet. *Correct
when*: the hard cap holds; time is earned only by progress; progress is never
overlooked; finished work is reported as such; nothing survives `invoke_role`; every
invocation returns.

### Static pipeline (`core/orchestrator.py`, `run_pipeline`; `core/types.py`)

Steps in order, each skipped by its condition, or a role invocation, a fan-out of
them under `asyncio.gather`, or an `ExecuteToolsStep` that dispatches a plan of tool
calls in priority groups. `on_step_failure` is `abort`, `continue` or
`escalate_hitl`. *State*: position, recorded step results, current plan and results.
*Interactions*: calls `invoke_role`, `call_parallel`, `hitl.notify`, the memory extractor;
reports boundaries to the observer. *Hard*: a gather without `return_exceptions`,
mixed outcomes, which group still runs after a failure, exceptions anywhere, callbacks without a timeout.
*Correct when*: groups run in order and results line up with the plan; a strict
dispatch stops at its first failure; the verdict agrees with what the steps did; a run
that returns leaves nothing open; every run ends unless a callback never returns.

### Replay-safe task tool (`langgraph/subagent_task_tool.py`, `hitl/interrupt.py`)

A LangGraph tool that invokes a role, puts the question its result may carry to the user
through `interrupt()` and invokes the role again with the answer. LangGraph *reruns the
whole function* on each resume; a bucket of cached results per tool call makes the
replay deterministic. *State*: `_TOOL_CALL_CACHE` (module level), LangGraph's stored
answers, the loop's index and previous answer; a shared pool of four worker threads, on which each
invocation runs under `invoke_timeout_s` while the caller's thread blocks. *Interactions*: invokes roles, whose
tools may be task tools again. *Hard*: replays that drift by one round, restarts that lose the cache but not the
checkpoint, buckets that leak; invocations that go on after their caller gave up, nested ones that
wait for a pool that waits for them. *Correct when*: seen from outside each call is a plain conversation, whatever
shares the pool with it; every call returns; the pool is given back.

### Memory store (`memory/store.py`)

`SqliteMemoryStore`: a table of (tier, scope, key) rows behind one SQLite connection. Writes
take an asyncio lock and run in a worker thread; reads and full-text searches run in worker threads without
the lock, on the same connection; triggers keep the full-text index. *Hard*: cancelling a write releases the lock while its
thread goes on; one connection means one transaction; timestamps are taken before
the lock; a crash between statement and commit. *Correct when*: acknowledged writes are
durable, reads and searches are current, newer rows win, writes end.

### Context compaction (`context/manager.py`, `compactor.py`, `boundary.py`, `policy.py`)

`ContextManager` shortens a message list by having a model summarize its middle. It keeps a
head and a tail, moves the cut so that a tool call is not separated from its result,
and stops automatic compactions after `max_consecutive_failures`; a list close to the threshold of its model is
warned of once a day. *State*: the message lists, `consecutive_failures`, `last_warning_emitted_at`. *Hard*: repeated compactions, cuts at any boundary, a breaker
and a date that are tested before an await and written after it by several conversations at once.
*Correct when*: the list stands for every message it ever had, in order; pairs are
intact; head and tail are untouched; breaker and warning are overrun only by what was under way or cancelled there.

### Progress guard (`resilience/progress_guard.py`)

A detector of repeated tool calls: `record_action` fills a sliding window of calls and one of the keys a
`key_extractor` makes of them, `check` says OK, WARN or STOP, `reset` forgets. *State*: the two windows and a
flag for each that remembers a warning. *Interactions*: one guard per policy, recorded to and
checked by every invocation under it; the role loop drops the verdict (`core/orchestrator.py:661`).
*Hard*: one detector's early return leaves the other's flag as it was; the calls of all invocations mix.
*Correct when*: a STOP has been announced by a WARN, and warnings do not go on for ever.

### HITL channels (`hitl/channels.py`)

Null and Terminal channels keep no state; `QueueHITLChannel` pairs `ask` with
`submit_answer` through futures: `ask` queues the question with a future and awaits it, the application takes
questions from the queue and submits answers to their futures, when it likes. *Interactions*: an adapter that asks runs
under the engine's per-call timeout and is run again by its retries. *Hard*: an answer that races the
timeout or comes after it, a question answered twice, a retry that asks again while the old question
is still on the user's screen. *Correct when*: an answer counts for the question it was given to and for
no other; one in time is never lost; no question stays open that nobody waits for.

### A2A demo (`src/archive/apt_legal_agent_demo/apt_legal_agent/`, `a2a/` and `pipeline.py`)

An archived server on top of the library. `tasks/send` runs a four-step pipeline and answers with its result;
`tasks/sendSubscribe` starts the run as a background task and streams its events. *State*: `TASKS`, a TaskState per id, the ids
chosen by the clients; an event queue per stream. *Hard*: runs that share an id, failures at any step, clients that leave.
*Correct when*: each client hears how its own run ended; a stream is well formed and ends; a
task that runs no more does not seem to.

### Stateless or start-up parts

Registries and model router (dictionaries filled at start-up), resilience policy
(look-ups), observer sinks (formatting and logging), skill store (loads files once),
prompts and protocols (text, interfaces), the examples, and the rest of the archived demo.

## Modules

One module per component; an `MC...` module beside each gives TLC its instances.
A definition marked "Mutant" in a comment is a plausible bug in the definition below
it: substituted for it, it makes a checked property fail. Mutants are part of no
specification.

### ToolInvocation (`ToolInvocation.tla`; its run is AskTool)

`pc[c]` is the await call `c` is parked at. Each action is the code from one await
to the next:

| `pc` | await in `call_one` | left by |
|---|---|---|
| `starting` | emit of `role.tool.call.start` | `Start` |
| `running` | `wait_for(adapter.call(...))` | `Answer`, `Expire` |
| `expiring` | the same `wait_for`, its cancellation swallowed by the adapter | `LateAnswer` |
| `ending` | emit of `role.tool.call.end` | `Return`, `Retry` |
| `retrying` | emit of `role.resilience.retry` | `Sleep` |
| `sleeping` | the backoff sleep | `Wake` |

`Begin` and `Refuse` enter `call_one` with accepted and refused arguments. Time is an
integer clock: a state that is owed a wake-up carries a `timer`, and the clock does not
pass `timer + Lag`. `Lag` is how late the event loop may be; with `Lag = 0` nothing
blocks it. An adapter in `Stubborn` swallows cancellations. `classify_exception` is
translated rule by rule: an exception is the set of traits the rules look for.

### AskTool (`AskTool.tla`, `MCAskTool.tla`)

Extends ToolInvocation: calls in `Asking` have an adapter that awaits `QueueHITLChannel.ask`. A question is one attempt of a call,
because a retry asks anew, and is known by its call and attempt as the code knows it by its future. `AskStarts` is
`Start` with the question queued, `AskReturns` the future's answer reaching the engine, `AskExpires` the
engine's timeout, which cancels the future; `Take` and `SubmitAnswer` are the application, which is free to answer each question
it was shown early, late, again or never. Every other action is the engine's with the channel unchanged, so that
AskTool implements ToolInvocation (proved) and inherits its properties, which its run checks with the channel in place.

### RoleInvocation (`RoleInvocation.tla`, `MCRoleInvocation.tla`)

Extends ToolInvocation, so the tool calls of a role are the real engine and not an
abstraction of it. `inv` is where `invoke_role` is parked (`announcing` and `closing` are the
observer emits, `waiting` the scheduler's `asyncio.wait`, `cancelling` and `unwinding` the
await of a task it has cancelled for its own timeout or for its caller), `task` where the role's
task is parked. `CheckDeadline` is one pass of the scheduler loop, `Poll` its timeout,
`Collect` its finding the task done, `CallerCancel` a cancellation from outside at any of these
awaits, `CancelDelivered` the arrival of a cancellation in the task: it unwinds the model
call, the tool call or the backoff sleep, or is swallowed by a stubborn adapter. `NextCall`,
`EndIteration` and `NextIteration` are `_invoke_loop`; requests that are not run (unknown tool, refused
arguments) are the `Rejected` entries of a batch. `Running` says that the task is between two
awaits: nothing else runs then. A tool call's identity is its (tool, arguments) pair, which is what
the watchdog's `seen` set distinguishes.

### Pipeline (`Pipeline.tla`, `MCPipeline.tla`)

`stage` is the await `run_pipeline` is parked at. A role invocation is seen as RoleInvocation shows
it from outside: it starts, and ends with a status, an exception or the caller's cancellation
(`BranchStarts`, `BranchEnds`, `BranchCancelled`), in any interleaving with its siblings. `Dispatch` and
`GroupReturns` are `_run_execute_tools_step`: `OpenGroup` fails unregistered tools at once
and sends the rest to `call_parallel`; `File` is the dictionary `results_by_call_id`; results are
represented by the index of the planned call they belong to. `open` records which boundaries
have reported a start event and no end event. `Callbacks` are the two awaits on the application's own code, `hitl.notify` and
`memory_extractor.extract`.

### RoleContract (`RoleContract.tla`)

The abstract specification of one `invoke_role`, which is where RoleInvocation and Pipeline meet: `Start`, then `Return` with a status, `Raise` what the
role raised, or, once the caller has cancelled (`Cancel`), `EndCancelled` or the `EndAborted` of a watchdog that was giving the role up already. RoleInvocation
implements it with everything but its caller's view hidden (`KeepsContract`); each of Pipeline's slots is a sequence of such invocations
(`SlotsKeepContract`). Both are proved, for every role and every pipeline; no run repeats them.

### RunContract (`RunContract.tla`)

The abstract specification of one `run_pipeline`, which is where Pipeline and A2AHandler meet: the run comes to its steps one after the other (`Start`,
`Advance`) and ends once, by `Complete` at the last, by `Abort` at any, by `Raise` or by `Cancel`. Pipeline implements it with the kinds of step and everything inside them
hidden (`KeepsContract`); the run of each request of A2AHandler keeps to it (`RunsKeepContract`), where a run that failed stands for one that raised. Both are proved.

### Dialogue, ReplayTask (`Dialogue.tla`, `ReplayTask.tla`, `MCReplayTask.tla`)

`Dialogue` is the abstract specification of the task tool: ask, reply, tell, in that order.
`ReplayTask` is the code: `Play` reruns the tool, `Hit` and `Miss` look into the bucket, `Returned` is an
invocation that ends, `Interrupt` is `interrupt()` raising because there is no stored answer,
`Feed` is `interrupt()` returning one, `Resume` is LangGraph storing the user's answer. `Raises` is an exception inside `replay_safe_tool_call`,
which drops the bucket, `Unresolved` that of `resolve_role` in front of it, which does not. A role may
answer anything each time it is invoked: the model is nondeterministic and so are the results here.
`ReplayTask` implements `Dialogue` under the refinement mapping that keeps `asked`, `answers` and
`told` and hides the loop, the bucket and the replays. `RestartSpec` adds the restart of the process.

### TaskPool (`TaskPool.tla`, `MCTaskPool.tla`)

Several calls of the task tool, each with the variables of ReplayTask as functions of the call. `Miss` hands the invocation
to the pool (`queue`, `job`) or runs it inline, `Begin` is a free worker, `RoleEnds` the end of an invocation,
`Collect` its result reaching the call that waits for it, `Timeout` the call giving up while the job stays where it is.
`Unresolved` is as in ReplayTask. `Parent` says whose role makes a call: that role is `Blocked`, worker and all, until the call is over.
Interrupts of a call inside a role cannot be resumed by any graph and fail it. `ImplementsReplay` says that each call, with
everything else hidden, takes only steps of ReplayTask: what ReplayTaskProofs proves of a call alone holds of its steps here.

### MemoryStore (`MemoryStore.tla`, `MCMemoryStore.tla`)

`task[w]` is writer `w`'s await, `thread[w]` its worker thread, `line` the asyncio lock with its
FIFO queue of waiters. The one connection is a pair: `view`, what it shows (its open
transaction included), and `committed`, each a record of the tables `memories` and `memories_fts`; `Indexed` is what the triggers
do, and `Select` answers a read from the first or a search from both. A row is represented by the moment of the write that made it.
`Cancel` takes the writer out of the line (`RemoveFirst`, as `Lock.acquire` removes its waiter) or off the lock at once, while a thread that has begun
goes on (`Orphans`): its statement may land in a later writer's transaction. `Crash` drops
everything that is not committed.

`RowStore.tla` is the abstract specification, a table on which each write takes effect at one moment (`Effect`), in the order of the calls, or never
(`Fail`, `Cancel`, `Crash`), and whose reads answer with a row in effect or the row of a write under way: they share the writers' connection. `WritesAreAtomic` is
that MemoryStore implements it, with the lock, the threads, the transaction, the index and the time stamps hidden, until a write overtakes a cancelled one.

### ContextManager (`ContextManager.tla`, `MCContextManager.tla`)

Several sessions share one manager. A message carries the numbers of the messages it stands for (`of`), so
that a summary of a summary still says what it covers. `Cut` is `_split_head_and_tail` with
`_adjust_tail_for_pair_safety`, `Compacted` is `build_post_compact_messages`; both are operators on
message sequences; `Grow` adds one of `Turns`, a human's message or a tool exchange. `CompactIfNeeded`, `Split`, `Succeeds` and `Returns`, or `Fails`, are a compaction from one
await to the next, and `Cancelled` ends it at any of them. The emit of `compact.end` is an await of its own (`shortened`) only where something follows it, the
return of the shortened list. Tokens are counted in messages; `Threshold` is the policy's share of a window less the room for the
answer, and each call picks its model's window, so that one history is over the threshold of one model and under that of
another. `Warn` is the test of the date, `GoesOut` the event's
reaching a sink during the emit, `Dated` the writing of the date once the emit has returned; a cancellation between the last two leaves the date unwritten, and
`lost` counts those of a day. `Midnight` is a new date.

### ProgressGuard (`ProgressGuard.tla`, `MCProgressGuard.tla`)

The guard's four fields (`actions`, `keys`, `warned`, `keyWarned`) under the role loops of several invocations, of
which only the iteration they have reached is kept. `Check` is the head of an iteration, and its disjuncts are the
returns of `check`: `CapVerdict` for the iteration cap, `KeyVerdict`, `StallVerdict` and
`ClearVerdict` in the order of the code's tests. `RecordAction` is a call on its way to the engine. The loop drops the verdict, so the
model keeps it, and the number of warnings in a row, as history variables. The verdict at the iteration cap is
that of one invocation and moves no flag; the history leaves it out.

### A2AHandler (`A2AHandler.tla`, `MCA2AHandler.tla`)

`TASKS` maps ids to TaskStates, which are named after the request that made them; `own[r]` is the one run `r` works on.
`StartStreaming`, `TasksSend` and `Runner` are the entry points, `RunTask` is `run_task` up to its first step, where the factory may
raise; `StepPasses`, `RunCompletes` and `RunFails` are the pipeline as Pipeline shows it from outside; `EndRun` writes the
TaskState, sends the last events and answers. `Read` and `Disconnect` are the clients of streams. Errors and artifacts are named
after the run they come from, so that a stale one shows. `Stream(r)` is all that was sent to the client of `r`, what it has read
and what is still in its queue.

### Proof modules

`InvocationProofs` (the engine alone, with AskTool's channel under it, and inside a role), `PipelineProofs`, `ReplayTaskProofs`,
`TaskPoolProofs`, `MemoryStoreProofs`, `ContextManagerProofs`, `ProgressGuardProofs`, `A2AHandlerProofs`: see [Proofs](#proofs).

## Runs

Runs that pass:

| Run | Module | Properties | What it shows |
|---|---|---|---|
| AskTool | MCAskTool | NoStrayQuestion, AnswersOwnQuestion, TimelyAnswerCounts, CallLatencyBounded, GivesUpNoSooner, RetryDiscipline, CallsEnd | two parallel calls of three attempts, one that asks a human and one with a stubborn adapter: answers go where they belong, and retries, backoff, the least and the total time are what the policy promises |
| RoleInvocation | MCRoleInvocation | HardCapHolds, DeadlineIsEarned, NothingLeftRunning, FinishedWorkIsReported, ProgressKeepsAlive, InvocationReturns | one role with two distinct calls, several to a message and one of them stubborn, cancelled by its caller at any await |
| Pipeline | MCPipeline | GroupsInOrder, StrictStopsAtFailure, ResultsFollowPlan, VerdictAgrees, QuietOnReturn, PipelineEnds | every two-step pipeline over the four kinds of step and three failure modes; a run ends unless one of the application's callbacks holds it up |
| ReplayTask | MCReplayTask | NoDrift, BucketLifetime, ImplementsDialogue, DialogueEnds | up to three rounds of questions: the replays do not show, and the bucket lives as long as the call unless `resolve_role` raises on a rerun |
| TaskPool | MCTaskPool | ImplementsReplay, CallsReturn, PoolDrains | two calls, one with a call nested in its role, on a pool of one worker: nothing of it shows in a call, and neither calls nor workers get stuck |
| ContextManager | MCContextManager | NothingLost, PairsIntact, BreakerHolds, WarnsRarely | two conversations and models of three window sizes, repeated compactions, warnings, failures, cancellations, that of a warning that is out included |
| MemoryStore | MCMemoryStore | AcknowledgedIsDurable, ReadsAreCurrent, WritesAreAtomic, WritesEnd | three writers, one reader and searcher, cancellations, failures, one restart: the store is RowStore until a write overtakes a cancelled one |
| ProgressGuard | MCProgressGuard | WarningsAreFew, StopsAreWarned | one guard shared by two invocations, reset at any time |
| A2AHandler | MCA2AHandler | OwnVerdict, StreamShape, RegistrySettles, RunsAreAnswered | two requests of either kind on one id or two: failures, crashes of the factory, clients that leave |

Runs that show a disagreement (one property each, violated):
RoleInvocationCancelLost, ReplayTaskRestart, ContextResummary; see
[below](#disagreements-between-code-and-documentation).

No run repeats a type invariant that is proved (the engine, AskTool, RoleInvocation, Pipeline, MemoryStore, ContextManager,
ProgressGuard, A2AHandler, and ReplayTask's as part of its own). TaskPool says in the comments of its variables what these
range over.

### Bounds, and why they are enough

* **AskTool**: three attempts are the fewest in which a backoff grows and its cap bites
  (1, then 2 instead of 3), and leave two older questions to answer late; the clock stops at 10, later than the last moment a call of this
  policy can be alive (`LatencyBound` = 9), so that stopping it hides nothing. Of the two calls one is stubborn: whatever it does,
  the other is not held up.
* **RoleInvocation**: base timeout 1, extension 2, cap 4: the first extension is granted whole, the second is cut by the
  cap, and the clock (5) goes past the cap. A message asks for up to two calls, and there are two iterations, so
  that calls follow each other within and across messages and a success is repeated. Attempts end with an answer or by their timeout and are
  made twice; of the two calls one is stubborn. `PollInterval = 2` makes the scheduler miss the deadline's
  exact moment unless it computes its wait from it. The run RoleInvocationCancelLost has one call, three iterations and longer times.
* **Pipeline**: two steps are enough for a step to follow every kind of failed or skipped step; two invocations
  for one to fail while another goes on; plans with three calls in up to three groups, out of
  priority order, with an unregistered tool in the first group, alone and beside another call.
* **ReplayTask**: three questions make replays of length one, two and three; the proofs have no such bound.
* **ContextManager**: a session of six messages is compacted again and again, summaries of summaries included, with one of four beside it; two tool
  calls per AI message put the cut before, between and after results. With a room of two messages for the answer, windows of 2, 8 and 20 give
  thresholds of 0 (always over it), 5 with a warning from 4, and 15 (never reached). The tail is one message, which may be a result in the middle of an exchange; with a limit of one failure the breaker opens at
  the first failure, while the other session may be under way. `MaxFailures` = 2 stops the application from asking by hand for ever, and `MaxLost` = 1 lets one warning a day be
  cancelled undated, which is one more than a day without cancellations sees.
* **TaskPool**: one worker, on which an outer call's role, the call nested in it and a third call compete: the nested one queues behind the
  worker its own parent holds. Two rounds of questions make every call replay.
* **MemoryStore**: two writers of one key make an overwrite, the third, of another key, shares their transaction.
* **ProgressGuard**: both windows hold three entries, the fewest in which one can slide out while others repeat; a stall takes
  two equal calls and a key cycle three equal keys, so each comes with and without the other. Two calls share a
  key, one has another and one none. The guard's cap is the roles' own, so `CapVerdict` is met on the last iteration.
* **A2AHandler**: two requests are the fewest that can share an id, and two ids let them not; the pipeline has its four steps.

`MaxTime`, `MaxAsks`, `MaxLength`, `MaxCalls`, `MaxBatch`, `MaxFailures` and `MaxLost` are the bounds of the models; every other
constant is a parameter of the program. Deadlock is checked in every run but TaskPool: where a component has
ended, an explicit stuttering action (`Finished`, `Over`, `Done`, `Rest`) says so. TaskPool stops when every call is over, or fails to be
made or answered; that nothing stops before is CallsReturn and PoolDrains.

### The properties worth a second look

* *ProgressKeepsAlive* and *HardCapHolds* pull in opposite directions: a scheduler that overlooks an extension
  made while it slept violates the first, one that trusts the deadline it computed before
  its sleep too long violates the second.
* *FinishedWorkIsReported* depends on the order of two tests in the scheduler loop
  (`core/orchestrator.py:324-331`).
* *NothingLeftRunning* relates the outer coroutine to the innermost await: `wait_for`, the observer emits and
  the backoff sleeps of the engine all have to let a cancellation through.
* *TimelyAnswerCounts* measures the human's time from the question's entry into the queue, which is when the engine's clock
  starts; the loop may notice an answer `Lag` late, which is time the human does not have. An answer given in the very turn of the loop in which the timeout fires is not in time: the
  timeout wins and the answer is lost, although `submit_answer` accepts it.
* *AnswersOwnQuestion* with *NoStrayQuestion* is why answers are submitted to a future and not to a call: the
  mutant that looks the question up by its call gives a late answer to the retry.
* *PoolDrains* and *CallsReturn* hold under nesting deeper than the pool only because of `invoke_timeout_s`: without
  `Timeout` the nested call waits for the worker its parent holds.
* *ReadsAreCurrent* relates a search, through an index that triggers keep in somebody's open transaction, to what
  writers have been told.
* *OwnVerdict* holds although TaskStates are shared because `run_task` has no await between its last write to the TaskState and the
  reading of it for the client.
* *AcknowledgedIsDurable* is claimed only for writes that did not begin while a cancelled
  write's thread was still at work (`overtaken`): for those it fails, because the orphan's `rollback` undoes the
  shared transaction.
* *BreakerHolds* and *WarnsRarely* bound how far the breaker and the daily warning can be overrun, by counting the
  conversations that passed the test before the counter or the date was written. *WarnsRarely* allows a warning more for each
  conversation cancelled after its warning was out and before the date was written: that one may warn again.
* *GivesUpNoSooner* and *CallLatencyBounded* are the two sides of a call's time: an engine that skips a backoff or an attempt violates the first, one that
  lets backoffs grow past their cap the second.
* *BucketLifetime* names the one exit the context manager does not see: after `resolve_role` has raised on a rerun the
  bucket still holds the results of the rounds the user was asked in.

## Fairness

* The event loop runs what is ready and the clock ticks (`WF` on the scheduler's, the engine's and the
  task's own steps and on the tick): asyncio's ready queue is FIFO and its timers are kept
  in a heap.
* Nothing is assumed of models, adapters, humans and callers in ToolInvocation, AskTool and RoleInvocation: *CallsEnd* and
  *InvocationReturns* hold although none of them ever answers. Both make an exception of adapters that swallow the
  cancellation: `wait_for` waits for the adapter to unwind, so a call in `Stubborn` may never
  end, and neither may an invocation one of whose cancellations was swallowed. *CallsEnd* shows that such a call does not hold up the calls
  beside it.
* Observer emits are assumed to return. The code awaits them without a timeout; a sink
  that hangs hangs the invocation.
* *PipelineEnds* assumes that invocations and calls end, which is what RoleInvocation and
  ToolInvocation show, and that the observer and the steps' own (synchronous) conditions and mappings return. It does not assume that `hitl.notify`
  (`core/orchestrator.py:173`) and `memory_extractor.extract` (196) do, which the code awaits without a timeout: a run ends or stays in one of them for ever. *DialogueEnds* assumes that the user answers, the role stops asking (`MaxAsks`) and
  each invocation ends (`invoke_timeout_s`).
* *CallsReturn* and *PoolDrains* assume that threads run (for one that waits on the pool that means that its timeout comes), that workers take
  what is queued, and that a role which no nested call blocks ends, by its watchdog if need be. No call need be made, no question answered.
* *RunsAreAnswered* assumes that steps end (PipelineEnds; the demo's pipeline aborts at a failure and has no extractor, so neither callback is awaited) and
  that the event loop runs the background task and the reader.
* *WritesEnd* assumes that worker threads make progress: the pool of `asyncio.to_thread` has room and
  SQLite returns.
* ContextManager has no liveness property: the call of the summary model has no timeout in the code.

## Proofs

TLC checks the instances above; these theorems hold for every value of the constants that satisfies the named
assumptions (`ToolAssumption`, `AskAssumption`, `RoleAssumption`, `PipelineAssumption`, `ReplayAssumption`, `PoolAssumption`, `StoreAssumption`,
`ContextAssumption`, `GuardAssumption`, which say that times and counts are natural numbers, that a timeout is not zero, that stubborn calls are
calls, that plans are sequences, that writers, sessions and the slots of a fan-out are finite sets, that the head a compaction keeps is one message or two, and so on).
Two theorems have a hypothesis besides: ResultsTheorem is about plans whose calls have distinct ids, and SlotsAdmitContract, a fact about single steps, is about well-typed states.

| Theorem | Module | Establishes |
|---|---|---|
| ToolTypeCorrect | InvocationProofs | `ToolSpec => []ToolTypeOK`; attempts never exceed `max_attempts` |
| PatienceTheorem | InvocationProofs | `ToolSpec => []GivesUpNoSooner` |
| RetryTheorem | InvocationProofs | `ToolSpec => RetryDiscipline` |
| LatencyTheorem | InvocationProofs | `ToolSpec => []CallLatencyBounded` |
| StrayTheorem | InvocationProofs | `AskSpec => []NoStrayQuestion` |
| OwnQuestionTheorem | InvocationProofs | `AskSpec => []AnswersOwnQuestion` |
| TimelyTheorem | InvocationProofs | `AskSpec => []TimelyAnswerCounts` |
| AskImplementsTool | InvocationProofs | every step of AskTool is a step of ToolInvocation or leaves it alone |
| TypeCorrect | InvocationProofs | `Spec => []TypeOK` |
| HardCapTheorem | InvocationProofs | `Spec => []HardCapHolds` |
| ProgressTheorem | InvocationProofs | `Spec => ProgressKeepsAlive` |
| DeadlineIsEarnedTheorem | InvocationProofs | `Spec => []DeadlineIsEarned` |
| FinishedWorkTheorem | InvocationProofs | `Spec => []FinishedWorkIsReported` |
| QuiescenceTheorem | InvocationProofs | `Spec => []NothingLeftRunning` |
| KeepsContractTheorem | InvocationProofs | `Spec => KeepsContract`: `invoke_role` implements RoleContract |
| TypeCorrect | PipelineProofs | `Spec => []TypeOK` |
| GroupsInOrderTheorem | PipelineProofs | `Spec => []GroupsInOrder` |
| StrictTheorem | PipelineProofs | `Spec => []StrictStopsAtFailure` |
| ResultsTheorem | PipelineProofs | `CallIdsUnique /\ Spec => []ResultsFollowPlan` |
| VerdictTheorem | PipelineProofs | `Spec => []VerdictAgrees` |
| QuietTheorem | PipelineProofs | `Spec => []QuietOnReturn` |
| SlotsAdmitContract | PipelineProofs | `Branch(b)` is a step of RoleContract and nothing else, in both directions |
| SlotsKeepContractTheorem | PipelineProofs | `Spec => SlotsKeepContract` |
| KeepsContractTheorem | PipelineProofs | `Spec => KeepsContract`: `run_pipeline` implements RunContract |
| NoDriftTheorem | ReplayTaskProofs | `Spec => []NoDrift` |
| BucketTheorem | ReplayTaskProofs | `Spec => []BucketLifetime` |
| Refinement | ReplayTaskProofs | `Spec => ImplementsDialogue` |
| PoolImplementsReplay | TaskPoolProofs | `Spec => ImplementsReplay` |
| TypeCorrect | MemoryStoreProofs | `Spec => []TypeOK` |
| DurableTheorem | MemoryStoreProofs | `Spec => []AcknowledgedIsDurable` |
| CurrentTheorem | MemoryStoreProofs | `Spec => []ReadsAreCurrent` |
| NewerRowsTheorem | MemoryStoreProofs | `Spec => NewerRowsWin`: no commit replaces a row by an older one (no run repeats it) |
| RowsTheorem | MemoryStoreProofs | `Spec => WritesAreAtomic`: until a write overtakes a cancelled one the store implements RowStore |
| TypeCorrect | ContextManagerProofs | `Spec => []TypeOK` |
| NothingLostTheorem | ContextManagerProofs | `Spec => []NothingLost` |
| PairsTheorem | ContextManagerProofs | `Spec => []PairsIntact` |
| BreakerTheorem | ContextManagerProofs | `Spec => []BreakerHolds` |
| WarningTheorem | ContextManagerProofs | `Spec => []WarnsRarely` |
| WarningsTheorem | ProgressGuardProofs | `Spec => []WarningsAreFew` |
| StopsTheorem | ProgressGuardProofs | `Spec => StopsAreWarned` |
| TypeCorrect | A2AHandlerProofs | `Spec => []TypeOK` |
| OwnVerdictTheorem | A2AHandlerProofs | `Spec => []OwnVerdict` |
| StreamShapeTheorem | A2AHandlerProofs | `Spec => []StreamShape` |
| RegistryTheorem | A2AHandlerProofs | `Spec => []RegistrySettles` |
| RunsKeepContractTheorem | A2AHandlerProofs | `Spec => RunsKeepContract` |

*Tool engine.* `ToolInv` strengthens the two properties with `RetryLeft`: a call that has announced a retry has an
attempt left. Without it `Wake` could take the attempt counter past its bound. `Paced` adds what a call under way has to do with the
policy: its backoff is `BackoffAfter` of its attempt, which gives RetryTheorem, and `InTime` that its timer is at most so far behind
`Due` of its attempt, the latest moment at which that attempt can start; LatencyTheorem is that `Due` of the last attempt and one timeout more
stay below `LatencyBound`. `Patient` is the bound from the other side, for PatienceTheorem: before an attempt starts all the backoffs before it have
passed since the call began; `LastAttempt`, that a call that gave up has used its last one, ties it to the call's end. Powers (`Growth`) and sums (`Backoffs`, which `Delays` adds the lags to) are recursive functions; that functions with their equations exist is proved
(`Recursion`) from the principle of induction, stated for sets instead of predicates (`Induction`), which comes from the library's well-foundedness of `<`.

*Asking.* `AskInv` adds to the two properties that an answered question has been shown (`ShownFirst`) and that a success is past
its last attempt (`OkSettles`): otherwise a later attempt of the same call could take its answered question away. AskImplementsTool
maps each action to the engine's: it is why the engine's theorems hold with a human behind the adapter.
`TimelyInv` follows one question through its attempt: it is of an attempt that was started (`Past`), a question that was cancelled ran into its own timeout and an answer
given in time was given before that (`Heard`), a call waits for its latest question only, until that one's timeout, and no more than `Lag` once the answer is
there (`Waits`). Hence an answer in time belongs to the attempt under way or to the success (`Counts`). "In time" leaves the loop its lag: a loop that notices
an answer only after the timeout has passed finds both due.

*Role invocation.* `IInv` has one part per idea. `SchedulerInTime`: the scheduler sleeps no longer than the
deadline it saw, and deadlines only grow, so it wakes at most `Lag` after one it knew. `DeadlineBounds`:
the deadline is between what has been granted and the cap. Together they give the hard cap
and that progress keeps the role alive. `CallsOwned`, `TaskOwned`, `CancelOwned`: calls are under way only in the tool loop,
the task lives only while `invoke_role` attends to it, and a cancellation is pending only for a task that
can still take it; together they give quiescence. The tool engine's steps enter through its own
invariant `ToolInv` (`EngineStep`): the composition reuses the lemmas of the engine and repeats none.
`TimeEarned` charges every extension to a distinct success: `SignalProgress` moves the deadline only when it adds to `seen`, by no more than
`Extend + Lag`. `EndingKept` says that a task that was cancelled ends with nothing but its cancellation, unless an adapter swallows it, so that `ABORTED` never hides
a status of the task's own.

*Invocations in a pipeline.* Pipeline does not contain RoleInvocation; it assumes how an invocation behaves. That assumption is discharged: KeepsContractTheorem
is the refinement of RoleContract by RoleInvocation (`CancelSeen` ties the caller's cancellation to where `invoke_role` is parked and says that what is still
to be returned after it can only be ABORTED), and SlotsAdmitContract that a slot of Pipeline may take a step exactly when RoleContract allows it, so
that Pipeline leaves out nothing an invocation does. SlotsKeepContract adds that no step of the run
itself touches an invocation under way: `Opens` says that none is when a step begins, so that a slot is never used twice at a time.

*Pipeline.* `Recorded` says which steps are recorded at each await, `Opens` which boundaries are open, and that a gather that ended well leaves no
invocation live; `Decided` that a verdict is given once. `Groups` says that what was tried is closed downwards in
priority and that only the latest group runs; `StrictSoFar` that a strict step reached its latest group with every earlier call a
success, and that `step_ok` knows. `Filed` follows `results_by_call_id`: it holds each tried call's own result and lacks only what is under way; with
it `InPlanOrder` lists what was tried. That such a list exists (`Ascending` chooses one) is `AscendingExists`, by induction on the plan's length.
`Arrived` ties the verdict to the position: what completes has gone past the last step and what aborts is at one. With it each of the pipeline's steps is one of RunContract or hidden (`RunMoves`).

*Replay.* `Rounds` says how far each record of the conversation has got in each state of the loop, `Remembered` that
the bucket holds every question asked, `Carried` that the loop brings the answer of the round before. With these
`Miss` is always a `Tell` of Dialogue, `Interrupt` an `Ask`, `Resume` a `Reply`, `Finish`,
`Raises` and `Unresolved` an `End`, and everything else a stutter. The theorems are about `Spec`, a process that does not restart;
with restarts NoDrift fails (run ReplayTaskRestart).

*Pool.* `Collectable` says that what an invocation under way will come to is a result, within the bound on questions, at the
moment its call collects it; so `Collect` is always a `Returned` or `Raises` of ReplayTask. `ThreadMaps` shows that a step of a call's
thread is a step of its own ReplayTask and leaves every other call alone, `StepMaps` that workers and ending roles leave all of
them alone. The theorem is about steps; that the calls return is left to TLC.

*Memory store.* The line is in the order of the calls (`Ordered`) behind whoever has left it (`Behind`), which is what makes time stamps taken before the
lock harmless. A write that overtook no cancelled one is alone on the connection while it holds the lock (`Alone`), finds its row there (`Opened`),
and once it is written no later rollback can touch it (`Safe`, which also says that whatever executes from then on is newer, so that what an orphan commits later does not bring back an old row). `Witnessed` ties a
read's floor to a writer whose acknowledgement still stands; with `Tabled`, that the index is the table's, reads and searches are current.
`Forward` says that until a write overtakes a cancelled one a single thread executes and whatever is to be written is newer than all rows.
TLC checked the conjunction on the instance of the run before it was proved.
`OneTransaction` adds, for the same stretch, that what the connection shows beyond what is committed is the row of the one thread at work: its commit is the moment at which it
takes effect (`OneMoves`), everything before it is invisible but to reads, and a rollback or a restart takes back that write and no other.

*Context.* `History` says of a list that it has its head, stands for every message of its session once and in order (`Covers`), and has each result
behind its call (`Paired`). `CutIsClean` shows that the adjusted cut falls between pairs whatever head and tail are kept, `CompactedShape` and `CompactHistory`
that what is put in the middle's place stands for the middle; `GrowHistory` is the conversation going on. `BreakerHolds` and `WarnedOnce` count
conversations: each that passed the test may still fail or warn once. As long as no date is written `WarnedOnce` charges every warning that is out to a
conversation that still awaits its emit or to one cancelled there, and from then on to the conversations that are under way no more. BreakerHolds is inductive only because `manual` never names a conversation that compacts no more,
which is part of `TypeOK`.

*Progress guard.* `WarningsFlagged` says which flags are up after one, two and three warnings in a row: a fourth
would need one that is down. `CalmIsUnflagged` says that after OK none is up, so that no STOP follows one;
it needs `FlagsGrounded`, that a flag is up only when its window holds something, because `check` leaves the flag of
an empty window alone.

*A2A.* `Staged` says what each stage of a request has done, `Streamed` how far its stream is: the events of its run so far while it runs, and the report and the sentinel
once it is over, spread over what the client has read and what waits for it; a client that left is told nothing more. `Fresh` says that a TaskState
is named by nothing before the request it is called after, so that registering one never touches another's; `Attended` that a TaskState an id names is settled, or
that some run will still settle it or has crashed: it is what makes RegistrySettles inductive, and needs the run that replaced a TaskState to be the one that
is registered. `SendExtends` and `ReadMoves` are the lemmas about queues the proofs share.
What A2AHandler assumes of its runs is what Pipeline is proved to keep: RunsKeepContractTheorem and Pipeline's KeepsContractTheorem meet in RunContract.

Only model-checked: liveness (CallsEnd, InvocationReturns, PipelineEnds, DialogueEnds, CallsReturn, PoolDrains, WritesEnd,
RunsAreAnswered), because the prover has no rules for fairness or ENABLED. Every other property of the passing runs is a theorem.

## Disagreements between code and documentation

* **RoleInvocationCancelLost.** After its own timeout the scheduler awaits the cancelled task under
  `except (asyncio.CancelledError, BaseException): pass` (`core/orchestrator.py:338`). A cancellation by the caller that
  arrives during this await is swallowed: `invoke_role` returns ABORTED and the caller's task is not cancelled. The
  comment at line 345 says that cancellation from outside is propagated.
* **ReplayTaskRestart.** The bucket is a module-level dict and LangGraph's checkpoint outlives it: after a
  restart the role is asked afresh and told the answer to another question.
* **ContextResummary.** A second compaction summarizes the first one's boundary and summary again;
  `context/boundary.py:105` and `context/manager.py:200` say it does not.

Seen while reading, not run:

* A `TimeoutError` raised by the role itself is reported as ABORTED like the watchdog's (`core/orchestrator.py:333`),
  although the docstring at 311-312 speaks of the deadline only. The run RoleInvocation includes the case
  (`TIMEOUT_RAISED`) and shows that its properties survive it.
* An exception of a role ends the run without `role.invoke.end` (`core/orchestrator.py:252`) and `pipeline.step.end`; the module
  docstring (`core/orchestrator.py:11`) and `src/docs/ARCHITECTURE.md:62` promise events at every boundary.
* The circuit breaker is said to skip the compactions of the session that failed (`context/policy.py:17-18`); its counter is the manager's, and
  one conversation's failures stop those of every other.
* An answer submitted in the same turn of the loop in which the engine's timeout fires is accepted and lost (`core/tool_invocation.py:186`).
* `TerminalHITLChannel` leaves its thread in `input()` when its call times out; the next line typed goes to it (`hitl/channels.py:94`).
* Results of an `ExecuteToolsStep` are filed by `call_id`, whose uniqueness nothing checks (`core/orchestrator.py:483`): two
  planned calls with one id would both report the later result, where the docstring (433) promises plan order. The ids of
  the plans in the run are distinct.
* The entries of the task tool's cache are said to live for one tool call and to be cleared on any exit but an interrupt
  (`langgraph/subagent_task_tool.py:95-97`, `132-135`); `resolve_role` (346) runs in front of the `with` (363), so that its exception on a rerun leaves the bucket
  behind. The run ReplayTask includes the case, and *BucketLifetime* says what is left.
* A conversation cancelled while it awaits the emit of a warning that a sink already has (`context/manager.py:171-179`) writes no date and may warn again the same
  day. The run ContextManager includes the case, and *WarnsRarely* counts it.
* The hooks around an interrupt run once per replay, not once per call (`langgraph/subagent_task_tool.py:355`).
* The progress guard's verdict is dropped (`core/orchestrator.py:661`), and a stall flag can survive the end of its stall
  when a repeated secondary key returns first (`resilience/progress_guard.py:181`).
* `head_size=2` assumes a system and a human message; a history that opens with a tool exchange is cut inside it. The
  model starts from the opening the code is written for.
* A2A demo: a factory that raises leaves the TaskState `working` and the stream open (`a2a/task_handler.py:138`), where the docstring (127-128)
  says that the emitter is closed when the task finishes. A TaskState used by two runs keeps the artifacts or the error of the earlier one beside the
  verdict of the later, reads `completed` while the other still works, and stays `submitted` when it is replaced before its
  run begins. The observer forwards `orchestrator.tool.call.*`, but the engine emits `role.tool.call.*`
  (`core/tool_invocation.py:180,209`), so that tool events never reach a stream. `app.py:62` keeps no reference to the background task, and `TASKS` is
  never cleared.

## What is not modelled

* Data that no property tells apart: message texts, token counts, usage accounting, serialization, logging.
* `ContextVar` nesting of watchdogs: a role that a tool invokes signals to its own watchdog; one level is modelled.
* In the task tool: hooks, and calls that share the bucket of the empty id (LangGraph injects an id into every call).
* A role blocked in a nested task tool cannot run its own watchdog: TaskPool and RoleInvocation are not composed. In RoleInvocation it is a `Lag`,
  whose size the theorems leave open.
* In the memory store: `close`, `NullMemoryStore`, and anything SQLite does wrong itself.
* In context compaction: how tokens are estimated, the enabled switch, policy look-ups, prompt texts.
* HITL: `notify`, and the channels that keep no state. The A2A demo's channel would put a question into the stream, but its pipeline
  has no step that asks.
* Registries, router, observer sinks, skills, prompts, protocols, examples, the demo's roles and tools: no behaviour over time.

## Plan

Order of the work, most important behaviour first; all of it is done.

1. ToolInvocation, then RoleInvocation composed with it (the watchdog and its races are the heart of the
   library); proofs of types, hard cap, progress and quiescence.
2. Pipeline over the outcomes RoleInvocation shows; ReplayTask against the abstract Dialogue, with the refinement
   proved.
3. ContextManager and MemoryStore.
4. ProgressGuard, a small machine shared by all invocations, with its proofs.
5. AskTool over ToolInvocation and TaskPool over ReplayTask, each with the refinement proved; A2AHandler; thresholds, warnings and the
   full-text index in the modules of 3.
6. Proofs for the engine with its channel (latency, retries, timely answers), RoleInvocation (earned deadlines, finished work), Pipeline,
   MemoryStore and ContextManager.
7. Proofs for A2AHandler; RoleContract between RoleInvocation and Pipeline, RunContract between Pipeline and A2AHandler; RowStore, which
   MemoryStore implements as long as no write overtakes a cancelled one.

Worth having next: an AskTool inside a role (the human behind a tool of RoleInvocation), and RoleInvocation on a worker of TaskPool.
