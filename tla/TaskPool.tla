------------------------------ MODULE TaskPool ------------------------------
(***************************************************************************)
(* Several calls of the task tool at once.  Each runs the replay loop of   *)
(* ReplayTask with a bucket of its own in _TOOL_CALL_CACHE; _run_async     *)
(* hands each invocation of a role to the shared thread pool and blocks    *)
(* until it has the result or invoke_timeout_s is over, or, on a thread    *)
(* without an event loop, runs it right there.  A role may itself call the *)
(* task tool, and is blocked meanwhile, worker and all.  A timeout does    *)
(* not end the invocation: it goes on, or still waits for a worker, with   *)
(* nobody to hear of it.                                                   *)
(***************************************************************************)
EXTENDS Naturals, Sequences, FiniteSets

CONSTANTS
  Calls,      \* tool calls, by their distinct tool_call_ids
  Parent,     \* Parent[c]: the call whose role makes call c, or "app"
  Workers,    \* max_workers of _shared_pool
  Questions,  \* payloads a role's result may carry a marker for
  Replies,    \* answers the user may give
  MaxAsks     \* bound of the model: questions a role asks

ASSUME PoolAssumption ==
  /\ Parent \in [Calls -> Calls \cup {"app"}]
  /\ Workers \in Nat \ {0}
  /\ MaxAsks \in Nat
  /\ {"final", "raised"} \cap Questions = {}

VARIABLES
  node, iter, prev, bucket, answers, asked, told,  \* per call, as in ReplayTask
  queue,    \* jobs the pool has not begun
  job,      \* job[c]: the call's latest invocation of its role
  result    \* result[c]: what that invocation has come to

toolVars == <<node, iter, prev, bucket, answers, asked, told>>
vars == <<toolVars, queue, job, result>>

Results == Questions \cup {"final", "raised"}
Over    == {"finished", "failed", "unresolved"}
UnderWay == {"running", "inline"}

Init ==
  /\ node = [c \in Calls |-> "ready"] /\ iter = [c \in Calls |-> 1]
  /\ prev = [c \in Calls |-> "none"]
  /\ bucket = [c \in Calls |-> <<>>] /\ answers = [c \in Calls |-> <<>>]
  /\ asked = [c \in Calls |-> <<>>] /\ told = [c \in Calls |-> <<>>]
  /\ queue = <<>>
  /\ job = [c \in Calls |-> "none"] /\ result = [c \in Calls |-> "none"]

Goto(c, n) == node' = [node EXCEPT ![c] = n]

(* The call's bucket, if it has one, is popped. *)
Pop(c) == bucket' = [bucket EXCEPT ![c] = <<>>]

-----------------------------------------------------------------------------
(* The loop of _run_task, call by call, as in ReplayTask.                  *)

(* A call by the application is made at any time, one by a role while the  *)
(* role runs.                                                              *)
Called(c) ==
  /\ node[c] = "ready"
  /\ Parent[c] # "app" => job[Parent[c]] \in UnderWay

(* resolve_role raises, on a rerun past the bucket of the earlier round. *)
Unresolved(c) ==
  /\ Called(c)
  /\ Goto(c, "unresolved")
  /\ UNCHANGED <<iter, prev, bucket, answers, asked, told, queue, job, result>>

(* The tool runs; a rerun finds the bucket of the earlier round. *)
Play(c) ==
  /\ Called(c)
  /\ Goto(c, "looking")
  /\ iter' = [iter EXCEPT ![c] = 1]
  /\ prev' = [prev EXCEPT ![c] = "none"]
  /\ UNCHANGED <<bucket, answers, asked, told, queue, job, result>>

Hit(c) ==
  /\ node[c] = "looking"
  /\ iter[c] \in DOMAIN bucket[c]
  /\ Goto(c, "scanning")
  /\ UNCHANGED <<iter, prev, bucket, answers, asked, told, queue, job, result>>

(* _run_async: under a running loop the invocation is a job of the pool,   *)
(* otherwise it runs inline.                                               *)
Miss(c) ==
  /\ node[c] = "looking"
  /\ iter[c] \notin DOMAIN bucket[c]
  /\ Goto(c, "invoking")
  /\ told' = IF iter[c] = 1 THEN told
             ELSE [told EXCEPT ![c] = Append(@, <<bucket[c][iter[c] - 1], prev[c]>>)]
  /\ result' = [result EXCEPT ![c] = "none"]
  /\ \/ queue' = Append(queue, c) /\ job' = [job EXCEPT ![c] = "queued"]
     \/ job' = [job EXCEPT ![c] = "inline"] /\ UNCHANGED queue
  /\ UNCHANGED <<iter, prev, bucket, answers, asked>>

(* The invocation has come to something: a result is cached, an exception  *)
(* ends the tool call.                                                     *)
Collect(c) ==
  /\ node[c] = "invoking"
  /\ job[c] = "done"
  /\ \/ /\ result[c] # "raised"
        /\ bucket' = [bucket EXCEPT ![c] = Append(@, result[c])]
        /\ Goto(c, "scanning")
     \/ /\ result[c] = "raised"
        /\ Pop(c)
        /\ Goto(c, "failed")
  /\ UNCHANGED <<iter, prev, answers, asked, told, queue, job, result>>

(* Mutant: the wait for the pool has no timeout.                           *)
TimeoutNever(c) == FALSE /\ UNCHANGED vars

(* future.result(timeout) gives up; the job stays where it is.             *)
Timeout(c) ==
  /\ node[c] = "invoking"
  /\ job[c] \in {"queued", "running"}
  /\ Pop(c)
  /\ Goto(c, "failed")
  /\ UNCHANGED <<iter, prev, answers, asked, told, queue, job, result>>

(* A question without an answer suspends a call by the application; inside *)
(* a role no graph can resume it, and interrupt() raises.                  *)
Interrupt(c) ==
  /\ node[c] = "scanning"
  /\ bucket[c][iter[c]] # "final"
  /\ iter[c] > Len(answers[c])
  /\ \/ /\ Parent[c] = "app"
        /\ Goto(c, "suspended")
        /\ asked' = [asked EXCEPT ![c] = Append(@, bucket[c][iter[c]])]
        /\ UNCHANGED bucket
     \/ /\ Parent[c] # "app"
        /\ Pop(c)
        /\ Goto(c, "failed")
        /\ UNCHANGED asked
  /\ UNCHANGED <<iter, prev, answers, told, queue, job, result>>

Feed(c) ==
  /\ node[c] = "scanning"
  /\ bucket[c][iter[c]] # "final"
  /\ iter[c] <= Len(answers[c])
  /\ Goto(c, "looking")
  /\ prev' = [prev EXCEPT ![c] = answers[c][iter[c]]]
  /\ iter' = [iter EXCEPT ![c] = @ + 1]
  /\ UNCHANGED <<bucket, answers, asked, told, queue, job, result>>

Finish(c) ==
  /\ node[c] = "scanning"
  /\ bucket[c][iter[c]] = "final"
  /\ Pop(c)
  /\ Goto(c, "finished")
  /\ UNCHANGED <<iter, prev, answers, asked, told, queue, job, result>>

(* The user answers, and LangGraph runs the tool again.                    *)
Resume(c) ==
  /\ node[c] = "suspended"
  /\ \E r \in Replies : answers' = [answers EXCEPT ![c] = Append(@, r)]
  /\ Goto(c, "ready")
  /\ UNCHANGED <<iter, prev, bucket, asked, told, queue, job, result>>

-----------------------------------------------------------------------------
(* The pool: a free worker begins the oldest job, orphaned or not.         *)
Begin ==
  /\ queue # <<>>
  /\ Cardinality({c \in Calls : job[c] = "running"}) < Workers
  /\ job' = [job EXCEPT ![Head(queue)] = "running"]
  /\ queue' = Tail(queue)
  /\ UNCHANGED <<toolVars, result>>

(* A call made by the role of c blocks the role's loop until it is over.   *)
Blocked(c) ==
  \E d \in Calls : Parent[d] = c /\ node[d] \notin {"ready"} \cup Over

(* Mutant: the worker files the result itself, whoever still waits for it. *)
RoleEndsFiling(c) ==
  /\ job[c] \in UnderWay
  /\ ~Blocked(c)
  /\ \E r \in Results \ {"raised"} :
       /\ r \in Questions => Len(bucket[c]) < MaxAsks
       /\ result' = [result EXCEPT ![c] = r]
       /\ bucket' = [bucket EXCEPT ![c] = Append(@, r)]
  /\ job' = [job EXCEPT ![c] = "done"]
  /\ node' = [node EXCEPT ![c] = IF @ = "invoking" THEN "scanning" ELSE @]
  /\ UNCHANGED <<iter, prev, answers, asked, told, queue>>

(* Mutant: a worker keeps its result until somebody takes it.              *)
RoleEndsHeld(c) ==
  /\ job[c] \in UnderWay
  /\ ~Blocked(c)
  /\ node[c] = "invoking"
  /\ \E r \in Results :
       /\ r \in Questions => Len(bucket[c]) < MaxAsks
       /\ result' = [result EXCEPT ![c] = r]
  /\ job' = [job EXCEPT ![c] = "done"]
  /\ UNCHANGED <<toolVars, queue>>

(* The role of c ends, by itself or by its watchdog: with a question, with *)
(* a final result, or with an exception.                                   *)
RoleEnds(c) ==
  /\ job[c] \in UnderWay
  /\ ~Blocked(c)
  /\ \E r \in Results :
       /\ r \in Questions => Len(bucket[c]) < MaxAsks
       /\ result' = [result EXCEPT ![c] = r]
  /\ job' = [job EXCEPT ![c] = "done"]
  /\ UNCHANGED <<toolVars, queue>>

-----------------------------------------------------------------------------
(* What the thread of call c does next. *)
Thread(c) ==
  \/ Hit(c) \/ Miss(c) \/ Collect(c) \/ Timeout(c)
  \/ Interrupt(c) \/ Feed(c) \/ Finish(c)

Next ==
  \/ \E c \in Calls :
       Play(c) \/ Unresolved(c) \/ Thread(c) \/ Resume(c) \/ RoleEnds(c)
  \/ Begin

(* Fair: threads run on, which for a wait on the pool means its timeout;   *)
(* workers begin what is queued; a role that nothing blocks ends, by its   *)
(* watchdog if need be.  No call need be made and no question answered.    *)
Fairness ==
  /\ \A c \in Calls : WF_vars(Thread(c)) /\ WF_vars(RoleEnds(c))
  /\ WF_vars(Begin)

Spec == Init /\ [][Next]_vars /\ Fairness

-----------------------------------------------------------------------------
Replay(c) == INSTANCE ReplayTask WITH
  node <- node[c], iter <- iter[c], prev <- prev[c], bucket <- bucket[c],
  answers <- answers[c], asked <- asked[c], told <- told[c]

(* Sharing the pool does not show in any call: whatever times out, is      *)
(* orphaned or nested, each call is a ReplayTask of its own, its bucket    *)
(* never touched by an invocation that ends after its wait was given up    *)
(* (_run_async, replay_safe_tool_call).                                    *)
ImplementsReplay ==
  /\ \A c \in Calls : Replay(c)!Init
  /\ [][\A c \in Calls : Replay(c)!Next \/ UNCHANGED Replay(c)!vars]_vars

(* A call that is under way comes to its end or to a question, though      *)
(* task tools nest deeper than the pool has workers and every worker's     *)
(* role waits for a job behind it in the queue (invoke_timeout_s).         *)
CallsReturn ==
  \A c \in Calls :
    node[c] \in {"looking", "invoking", "scanning"}
      ~> node[c] \in Over \cup {"suspended"}

(* An invocation handed to the pool gets a worker and gives it back, its   *)
(* caller waiting or gone: orphans do not use the pool up (_shared_pool).  *)
PoolDrains == \A c \in Calls : job[c] \in {"queued", "running"} ~> job[c] = "done"
=============================================================================
