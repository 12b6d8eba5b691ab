----------------------------- MODULE ReplayTask -----------------------------
(***************************************************************************)
(* The task tool build_subagent_task_tool makes: _run_task invokes a role, *)
(* puts the question its result may carry to the user through LangGraph's  *)
(* interrupt(), and goes on with the answer.  On a resume LangGraph runs   *)
(* the whole function again; the cache bucket of the tool call replays the *)
(* results of the invocations made before, and interrupt() the answers     *)
(* given before.                                                           *)
(***************************************************************************)
EXTENDS Naturals, Sequences

CONSTANTS
  Questions,    \* payloads a role's result may carry a marker for
  Replies,      \* answers the user may give
  MaxAsks       \* bound of the model: questions a role asks

ASSUME ReplayAssumption ==
  /\ MaxAsks \in Nat
  /\ "final" \notin Questions

VARIABLES
  node,     \* where the node that runs the tool is
  iter,     \* iter_idx + 1
  prev,     \* parent_outputs["previous_ask"], or "none"
  bucket,   \* cache_bucket: the result of each iteration
  answers,  \* answers LangGraph has stored for the tool's interrupts
  asked,    \* questions put to the user                         (history)
  told      \* question and answer the role was invoked with     (history)

history == <<asked, told>>
vars == <<node, iter, prev, bucket, answers, history>>

Nodes == {"ready", "looking", "invoking", "scanning", "suspended"}
Over  == {"finished", "failed", "unresolved"}

(* A result is final or carries the marker of a question. *)
Results == Questions \cup {"final"}

Init ==
  /\ node = "ready" /\ iter = 1 /\ prev = "none"
  /\ bucket = <<>> /\ answers = <<>>
  /\ asked = <<>> /\ told = <<>>

-----------------------------------------------------------------------------
(* LangGraph runs or reruns the tool: _run_task up to its loop.            *)
Play ==
  /\ node = "ready"
  /\ node' = "looking"
  /\ iter' = 1
  /\ prev' = "none"
  /\ UNCHANGED <<bucket, answers, history>>

(* cache_bucket has the result of this iteration ...                       *)
Hit ==
  /\ node = "looking"
  /\ iter \in DOMAIN bucket
  /\ node' = "scanning"
  /\ UNCHANGED <<iter, prev, bucket, answers, history>>

(* ... or the role is invoked, with the latest answer in its context.      *)
Miss ==
  /\ node = "looking"
  /\ iter \notin DOMAIN bucket
  /\ node' = "invoking"
  /\ told' = IF iter = 1 THEN told ELSE Append(told, <<bucket[iter - 1], prev>>)
  /\ UNCHANGED <<iter, prev, bucket, answers, asked>>

Returned ==
  /\ node = "invoking"
  /\ \E r \in Results :
       /\ r # "final" => Len(bucket) < MaxAsks
       /\ bucket' = Append(bucket, r)
  /\ node' = "scanning"
  /\ UNCHANGED <<iter, prev, answers, history>>

(* resolve_role raises, before the tool call has looked for its bucket: a  *)
(* bucket of earlier rounds stays in the cache.                            *)
Unresolved ==
  /\ node = "ready"
  /\ node' = "unresolved"
  /\ UNCHANGED <<iter, prev, bucket, answers, history>>

(* The invocation (its timeout included), interrupt() where no graph could *)
(* resume it, or a formatter raises: the bucket is dropped and the tool    *)
(* call fails.                                                             *)
Raises ==
  /\ node \in {"invoking", "scanning"}
  /\ node' = "failed"
  /\ bucket' = <<>>
  /\ UNCHANGED <<iter, prev, answers, history>>

(* Mutants: the bucket goes with any exception; interrupt() raises although *)
(* the answer is there.                                                     *)
InterruptDrops ==
  /\ node = "scanning"
  /\ bucket[iter] # "final"
  /\ iter > Len(answers)
  /\ node' = "suspended"
  /\ bucket' = <<>>
  /\ asked' = Append(asked, bucket[iter])
  /\ UNCHANGED <<iter, prev, answers, told>>

InterruptAgain ==
  /\ node = "scanning"
  /\ bucket[iter] # "final"
  /\ iter >= Len(answers)
  /\ node' = "suspended"
  /\ asked' = Append(asked, bucket[iter])
  /\ UNCHANGED <<iter, prev, bucket, answers, told>>

(* A question without a stored answer: GraphInterrupt leaves the tool, the *)
(* bucket stays, and the user is asked.                                    *)
Interrupt ==
  /\ node = "scanning"
  /\ bucket[iter] # "final"
  /\ iter > Len(answers)
  /\ node' = "suspended"
  /\ asked' = Append(asked, bucket[iter])
  /\ UNCHANGED <<iter, prev, bucket, answers, told>>

(* Mutant: iter_idx stays.                                                 *)
FeedStays ==
  /\ node = "scanning"
  /\ bucket[iter] # "final"
  /\ iter <= Len(answers)
  /\ prev' = answers[iter]
  /\ node' = "looking"
  /\ UNCHANGED <<iter, bucket, answers, history>>

(* interrupt() returns the stored answer; the loop goes on with it.        *)
Feed ==
  /\ node = "scanning"
  /\ bucket[iter] # "final"
  /\ iter <= Len(answers)
  /\ prev' = answers[iter]
  /\ iter' = iter + 1
  /\ node' = "looking"
  /\ UNCHANGED <<bucket, answers, history>>

(* Mutant: the bucket outlives the tool call.                              *)
FinishKeeps ==
  /\ node = "scanning"
  /\ bucket[iter] = "final"
  /\ node' = "finished"
  /\ UNCHANGED <<iter, prev, bucket, answers, history>>

(* A terminal result: end hook, formatting, and the bucket is dropped.     *)
Finish ==
  /\ node = "scanning"
  /\ bucket[iter] = "final"
  /\ node' = "finished"
  /\ bucket' = <<>>
  /\ UNCHANGED <<iter, prev, answers, history>>

-----------------------------------------------------------------------------
(* The user answers: LangGraph stores the answer and reruns the tool.      *)
Resume ==
  /\ node = "suspended"
  /\ \E r \in Replies : answers' = Append(answers, r)
  /\ node' = "ready"
  /\ UNCHANGED <<iter, prev, bucket, history>>

(* The process restarts: the module-level cache is gone, LangGraph resumes *)
(* from its checkpoint.                                                    *)
Restart ==
  /\ Len(told) < MaxAsks
  /\ node \notin Over
  /\ bucket' = <<>>
  /\ node' = IF node = "suspended" THEN node ELSE "ready"
  /\ UNCHANGED <<iter, prev, answers, history>>

Done == node \in Over /\ UNCHANGED vars

Tool ==
  \/ Play \/ Unresolved \/ Hit \/ Miss \/ Returned \/ Raises \/ Interrupt \/ Feed
  \/ Finish

Next == Tool \/ Resume \/ Done

Spec == Init /\ [][Next]_vars

(* The same tool in a process that may restart. *)
RestartSpec == Init /\ [][Next \/ Restart]_vars

(* Fair: the tool runs on, every invocation ends (invoke_timeout_s), and   *)
(* the user answers.                                                       *)
FairSpec == Spec /\ WF_vars(Tool) /\ WF_vars(Resume)

-----------------------------------------------------------------------------
(* Types, and where the loop may be. *)
TypeOK ==
  /\ node \in Nodes \cup Over
  /\ bucket \in Seq(Results)
  /\ answers \in Seq(Replies) /\ asked \in Seq(Questions)
  /\ told \in Seq(Questions \X Replies)
  /\ iter \in Nat \ {0} /\ prev \in Replies \cup {"none"}
  /\ node = "looking" => iter <= Len(bucket) + 1
  /\ node = "scanning" => iter <= Len(bucket)

(* The module docstring (subagent_task_tool.py:4-9) names the failure this *)
(* design prevents, a replay that drifts by one round: an invocation is    *)
(* told an answer together with a question it was not given to.            *)
NoDrift ==
  \A n \in DOMAIN told :
    n \in DOMAIN answers /\ told[n] = <<asked[n], answers[n]>>

(* The bucket lives as long as the tool call and no longer: it holds all   *)
(* results while the user is being asked and nothing once the call is over *)
(* (replay_safe_tool_call).  The one exit that the context manager does    *)
(* not see, resolve_role raising on a rerun, leaves behind exactly the     *)
(* results of the rounds the user was asked in.                            *)
BucketLifetime ==
  /\ node \in {"suspended", "unresolved"} => Len(bucket) = Len(asked)
  /\ node \in {"finished", "failed"} => bucket = <<>>

D == INSTANCE Dialogue WITH
       outcome <- IF node = "finished" THEN "done"
                  ELSE IF node \in {"failed", "unresolved"} THEN "failed" ELSE "open"

(* Seen from the user and the role, the replays do not show: the tool      *)
(* implements the conversation of Dialogue.                                *)
ImplementsDialogue == D!Spec

(* With a user who answers and a role that stops asking, the tool call     *)
(* comes to an end, each replay running through all earlier rounds.        *)
DialogueEnds == <>(node \in Over)
=============================================================================
