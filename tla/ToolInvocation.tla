--------------------------- MODULE ToolInvocation ---------------------------
(***************************************************************************)
(* ToolInvocationEngine of core/tool_invocation.py: call_one, one tool     *)
(* call with its schema check, per-attempt timeout, retry and backoff, and *)
(* call_parallel, several of them under one asyncio.gather.                *)
(*                                                                         *)
(* A call is a coroutine; its control state names the await it is parked   *)
(* at.  Time is a clock counted in whole units.  The event loop runs what  *)
(* is due at most Lag units late; Lag = 0 is a loop that nothing blocks.   *)
(***************************************************************************)
EXTENDS Naturals, FiniteSets

CONSTANTS
  Calls,              \* identities of tool calls: one per (tool, args) pair
  MaxAttempts,        \* ToolRetryPolicy.max_attempts
  CallTimeout,        \* ToolRetryPolicy.per_call_timeout_s
  InitialBackoff,     \* ToolRetryPolicy.initial_backoff_s
  BackoffMultiplier,  \* ToolRetryPolicy.backoff_multiplier
  MaxBackoff,         \* ToolRetryPolicy.max_backoff_s
  Stubborn,           \* calls whose adapter swallows a cancellation
  Answers,            \* what an adapter may return: "ok" or a category
  Markers,            \* traits an exception raised by an adapter may show
  Lag,                \* how late the event loop may run what is due
  MaxTime             \* bound of the model: the clock stops there

Categories == {"TIMEOUT", "RATE_LIMIT", "NETWORK", "AUTH", "TOOL_ERROR",
               "PARSE_ERROR", "UNKNOWN"}

TRANSIENT_ERRORS == {"TIMEOUT", "RATE_LIMIT", "NETWORK"}

Outcomes == {"ok"} \cup Categories

ASSUME ToolAssumption ==
  /\ MaxAttempts \in Nat \ {0}
  /\ CallTimeout \in Nat \ {0}
  /\ InitialBackoff \in Nat
  /\ BackoffMultiplier \in Nat
  /\ MaxBackoff \in Nat
  /\ Stubborn \subseteq Calls
  /\ Answers \subseteq Outcomes
  /\ Lag \in Nat
  /\ MaxTime \in Nat

VARIABLES
  now,      \* the clock of the event loop
  pc,       \* pc[c]: the await call c is parked at
  attempt,  \* attempt[c]: number of the current attempt, from 1
  backoff,  \* backoff[c]: the delay the next retry will sleep
  timer,    \* timer[c]: when the await of c is due to resume
  result,   \* result[c]: outcome of the latest attempt, or "none"
  began,    \* began[c]: when call_one was entered            (history)
  failed    \* failed[c]: when the latest attempt ended       (history)

callVars == <<pc, attempt, backoff, timer, result, began, failed>>
toolVars == <<now, callVars>>

-----------------------------------------------------------------------------
(* The exception rules of classify_exception, in the order they are tried. *)
Rules == << <<"asyncio.TimeoutError", "TIMEOUT">>, <<"429", "RATE_LIMIT">>,
            <<"timeout", "TIMEOUT">>, <<"401", "AUTH">>,
            <<"connection", "NETWORK">>, <<"ValidationError", "PARSE_ERROR">> >>

classify_exception(traits) ==
  LET hits == {i \in 1..6 : Rules[i][1] \in traits}
  IN  IF hits = {} THEN "UNKNOWN"
      ELSE Rules[CHOOSE i \in hits : \A j \in hits : i <= j][2]

(* What one attempt may yield before its timeout: the adapter returns a    *)
(* ToolResult of its own or raises an exception that is then classified.   *)
Yields == Answers \cup {classify_exception(t) : t \in SUBSET Markers}

Lesser(a, b) == IF a <= b THEN a ELSE b

-----------------------------------------------------------------------------
(* Calls that have a timer the loop owes a wake-up to.  "running" is due at *)
(* its timeout; the other states await an observer emit or a sleep.         *)
Timed   == {"starting", "running", "ending", "retrying", "sleeping"}
Active  == Timed \cup {"expiring"}
States  == Active \cup {"idle", "done", "cancelled"}

ToolInit ==
  /\ now = 0
  /\ pc = [c \in Calls |-> "idle"]
  /\ attempt = [c \in Calls |-> 0]
  /\ backoff = [c \in Calls |-> InitialBackoff]
  /\ timer = [c \in Calls |-> 0]
  /\ result = [c \in Calls |-> "none"]
  /\ began = [c \in Calls |-> 0]
  /\ failed = [c \in Calls |-> 0]

(* Park call c at state s, due at time t. *)
Park(c, s, t) ==
  /\ pc' = [pc EXCEPT ![c] = s]
  /\ timer' = [timer EXCEPT ![c] = t]

(* call_one is entered with valid arguments: attempt 1 announces itself.   *)
Begin(c) ==
  /\ pc[c] \in {"idle", "done"}
  /\ Park(c, "starting", now)
  /\ attempt' = [attempt EXCEPT ![c] = 1]
  /\ backoff' = [backoff EXCEPT ![c] = InitialBackoff]
  /\ result' = [result EXCEPT ![c] = "none"]
  /\ began' = [began EXCEPT ![c] = now]
  /\ UNCHANGED <<now, failed>>

(* call_one is entered with arguments the schema refuses: a PARSE_ERROR    *)
(* result at once, no event and no attempt.                                *)
Refuse(c) ==
  /\ pc[c] \in {"idle", "done"}
  /\ Park(c, "done", now)
  /\ attempt' = [attempt EXCEPT ![c] = 0]
  /\ result' = [result EXCEPT ![c] = "PARSE_ERROR"]
  /\ began' = [began EXCEPT ![c] = now]
  /\ UNCHANGED <<now, backoff, failed>>

(* role.tool.call.start is emitted; wait_for starts the adapter.           *)
Start(c) ==
  /\ pc[c] = "starting"
  /\ Park(c, "running", now + CallTimeout)
  /\ UNCHANGED <<now, attempt, backoff, result, began, failed>>

(* The attempt has an outcome r; role.tool.call.end is being emitted.      *)
EndAttempt(c, r) ==
  /\ Park(c, "ending", now)
  /\ result' = [result EXCEPT ![c] = r]
  /\ failed' = [failed EXCEPT ![c] = now]
  /\ UNCHANGED <<now, attempt, backoff, began>>

Answer(c) ==
  /\ pc[c] = "running"
  /\ \E r \in Yields : EndAttempt(c, r)

(* Mutant: the timeout only asks the adapter to stop (asyncio.shield).     *)
ExpireShielded(c) ==
  /\ pc[c] = "running"
  /\ now >= timer[c]
  /\ Park(c, "expiring", now)
  /\ UNCHANGED <<now, attempt, backoff, result, began, failed>>

(* wait_for expires.  A well-behaved adapter unwinds and the attempt ends  *)
(* as TIMEOUT; a stubborn one keeps call_one waiting.                      *)
Expire(c) ==
  /\ pc[c] = "running"
  /\ now >= timer[c]
  /\ \/ /\ c \notin Stubborn
        /\ EndAttempt(c, "TIMEOUT")
     \/ /\ c \in Stubborn
        /\ Park(c, "expiring", now)
        /\ UNCHANGED <<now, attempt, backoff, result, began, failed>>

(* The late answer of a stubborn adapter: wait_for hands it on as it is.   *)
LateAnswer(c) ==
  /\ pc[c] = "expiring"
  /\ \E r \in Yields : EndAttempt(c, r)

(* Mutants of the return conditions: one attempt too few, every failure    *)
(* retried.                                                                *)
SettledEarly(c) == result[c] \notin TRANSIENT_ERRORS \/ attempt[c] >= MaxAttempts - 1
SettledOk(c)    == result[c] = "ok" \/ attempt[c] >= MaxAttempts

(* The end event is out.  A success, a failure that is not transient and   *)
(* the last attempt return; any other failure announces a retry.           *)
Settled(c) == result[c] \notin TRANSIENT_ERRORS \/ attempt[c] >= MaxAttempts

Return(c) ==
  /\ pc[c] = "ending"
  /\ Settled(c)
  /\ Park(c, "done", now)
  /\ UNCHANGED <<now, attempt, backoff, result, began, failed>>

Retry(c) ==
  /\ pc[c] = "ending"
  /\ ~Settled(c)
  /\ Park(c, "retrying", now)
  /\ UNCHANGED <<now, attempt, backoff, result, began, failed>>

(* role.resilience.retry is emitted; the backoff sleep begins.             *)
Sleep(c) ==
  /\ pc[c] = "retrying"
  /\ Park(c, "sleeping", now + backoff[c])
  /\ UNCHANGED <<now, attempt, backoff, result, began, failed>>

(* Mutant: max_backoff_s is forgotten.                                     *)
WakeUncapped(c) ==
  /\ pc[c] = "sleeping"
  /\ now >= timer[c]
  /\ Park(c, "starting", now)
  /\ attempt' = [attempt EXCEPT ![c] = @ + 1]
  /\ backoff' = [backoff EXCEPT ![c] = @ * BackoffMultiplier]
  /\ UNCHANGED <<now, result, began, failed>>

(* The sleep is over: grow the backoff and announce the next attempt.      *)
Wake(c) ==
  /\ pc[c] = "sleeping"
  /\ now >= timer[c]
  /\ Park(c, "starting", now)
  /\ attempt' = [attempt EXCEPT ![c] = @ + 1]
  /\ backoff' = [backoff EXCEPT ![c] = Lesser(@ * BackoffMultiplier, MaxBackoff)]
  /\ UNCHANGED <<now, result, began, failed>>

(* The clock advances unless a call is due and already Lag units late.     *)
Punctual(c) == pc[c] \in Timed => now < timer[c] + Lag

-----------------------------------------------------------------------------
(* call_parallel: gather makes every call a task at once and returns when  *)
(* all of them have results.                                               *)
Step(c) ==
  \/ Start(c) \/ Answer(c) \/ Expire(c) \/ LateAnswer(c)
  \/ Return(c) \/ Retry(c) \/ Sleep(c) \/ Wake(c)

Fresh(c) == pc[c] = "idle"

Tick ==
  /\ now < MaxTime
  /\ \A c \in Calls : Punctual(c) /\ (Fresh(c) => now < Lag)
  /\ now' = now + 1
  /\ UNCHANGED callVars

GatherDone == \A c \in Calls : pc[c] = "done"

(* The gather has returned, or the clock has reached the model's bound.    *)
Finished == (GatherDone \/ now = MaxTime) /\ UNCHANGED toolVars

ToolNext ==
  \/ \E c \in Calls : Fresh(c) /\ (Begin(c) \/ Refuse(c))
  \/ \E c \in Calls : Step(c)
  \/ Tick
  \/ Finished

(* The loop keeps running what is due and the clock keeps ticking; no      *)
(* adapter is obliged to answer.                                           *)
ToolFairness ==
  /\ WF_toolVars(Tick)
  /\ \A c \in Calls :
       /\ WF_toolVars(Fresh(c) /\ (Begin(c) \/ Refuse(c)))
       /\ WF_toolVars(Start(c) \/ Expire(c) \/ Return(c) \/ Retry(c)
                        \/ Sleep(c) \/ Wake(c))

ToolSpec == ToolInit /\ [][ToolNext]_toolVars /\ ToolFairness

-----------------------------------------------------------------------------
(* Types of the engine's variables. *)
ToolTypeOK ==
  /\ now \in Nat
  /\ pc \in [Calls -> States]
  /\ attempt \in [Calls -> 0..MaxAttempts]
  /\ backoff \in [Calls -> Nat]
  /\ timer \in [Calls -> Nat]
  /\ result \in [Calls -> Outcomes \cup {"none"}]
  /\ began \in [Calls -> Nat]
  /\ failed \in [Calls -> Nat]

(* BackoffMultiplier to the power of n. *)
Growth[n \in Nat] == IF n = 0 THEN 1 ELSE BackoffMultiplier * Growth[n - 1]

(* The delay the policy prescribes after failed attempt n: exponential,    *)
(* capped from the second one on.                                          *)
BackoffAfter(n) ==
  IF n = 1 THEN InitialBackoff
  ELSE Lesser(InitialBackoff * Growth[n - 1], MaxBackoff)

(* A new attempt follows only a transient failure of the one before it,    *)
(* has the next number, and starts no earlier than the prescribed backoff  *)
(* after that failure (the retry loop of call_one).                        *)
RetryDiscipline ==
  [][\A c \in Calls :
       pc[c] # "idle" /\ attempt'[c] # attempt[c] =>
         /\ result[c] \in TRANSIENT_ERRORS
         /\ attempt'[c] = attempt[c] + 1
         /\ now >= failed[c] + BackoffAfter(attempt[c])]_toolVars

(* The backoffs prescribed after the first n attempts, and the sleeps that  *)
(* serve them, each of them up to Lag late.                                *)
Backoffs[n \in Nat] == IF n = 0 THEN 0 ELSE Backoffs[n - 1] + BackoffAfter(n)

Delays(n) == Backoffs[n] + n * Lag

(* Time call_one may take: each attempt its timeout, each retry its        *)
(* backoff, and Lag for each of the awaits in between.                     *)
LatencyBound == MaxAttempts * (CallTimeout + 4 * Lag) + Delays(MaxAttempts - 1)

(* A call whose adapter honours cancellation is over within LatencyBound,  *)
(* however its attempts end: timeouts and backoffs do not add up to more   *)
(* (call_one, per_call_timeout_s).                                         *)
CallLatencyBounded ==
  \A c \in Calls \ Stubborn :
    pc[c] \in Active => now <= began[c] + LatencyBound

(* A call that ends in a transient error has tried for as long as the      *)
(* policy prescribes: its last failure comes no sooner after call_one was  *)
(* entered than all the backoffs together, however its attempts failed and *)
(* however late their answers came (the retry loop of call_one).           *)
GivesUpNoSooner ==
  \A c \in Calls :
    pc[c] = "done" /\ result[c] \in TRANSIENT_ERRORS =>
      failed[c] >= began[c] + Backoffs[MaxAttempts - 1]

(* Every call whose adapter honours cancellation ends, though no adapter   *)
(* ever answers and a stubborn one beside it never lets go; so the gather  *)
(* of call_parallel returns unless an adapter is stubborn (the per-attempt *)
(* timeout is what bounds it).                                             *)
CallsEnd == \A c \in Calls \ Stubborn : <>(pc[c] = "done")
=============================================================================
