------------------------------- MODULE AskTool -------------------------------
(***************************************************************************)
(* Tools that ask a human, composed of ToolInvocationEngine and the        *)
(* QueueHITLChannel of hitl/channels.py: the adapter of an asking call     *)
(* awaits channel.ask, which queues the question with a future; the        *)
(* application takes questions from the queue, shows them and submits      *)
(* answers; the engine's per-attempt timeout cancels the wait, and a       *)
(* retry asks again.                                                       *)
(***************************************************************************)
EXTENDS ToolInvocation, Sequences

CONSTANT Asking   \* calls whose adapter asks through the channel

ASSUME AskAssumption == Asking \subseteq Calls \ Stubborn /\ "ok" \in Answers

VARIABLES
  pending,  \* _pending: questions the application has not taken yet
  shown,    \* questions it has taken; it may answer each of them, ever after
  future,   \* future[q]: "none", "open", "answered" or "cancelled"
  asked,    \* asked[q]: when the question was put into the queue   (history)
  given     \* given[q]: when it was first answered, if it was      (history)

channelVars == <<pending, shown, future, asked, given>>
askVars == <<toolVars, channelVars>>

(* A question is one attempt of a call: a retry asks anew. *)
Questions == Asking \X (1..MaxAttempts)

Latest(c) == <<c, attempt[c]>>

AskInit ==
  /\ ToolInit
  /\ pending = <<>> /\ shown = {}
  /\ future = [q \in Questions |-> "none"]
  /\ asked = [q \in Questions |-> 0]
  /\ given = <<>>

-----------------------------------------------------------------------------
(* Mutant: the timeout counts from the start of the call, not the attempt. *)
AskStartsOnce(c) ==
  /\ pc[c] = "starting"
  /\ Park(c, "running", began[c] + CallTimeout)
  /\ pending' = Append(pending, Latest(c))
  /\ future' = [future EXCEPT ![Latest(c)] = "open"]
  /\ asked' = [asked EXCEPT ![Latest(c)] = now]
  /\ UNCHANGED <<now, attempt, backoff, result, began, failed, shown, given>>

(* wait_for starts the adapter, whose ask makes a future, queues it with   *)
(* the question (the queue is unbounded, put does not wait) and awaits it. *)
AskStarts(c) ==
  /\ Start(c)
  /\ pending' = Append(pending, Latest(c))
  /\ future' = [future EXCEPT ![Latest(c)] = "open"]
  /\ asked' = [asked EXCEPT ![Latest(c)] = now]
  /\ UNCHANGED <<shown, given>>

(* The future has its answer: ask returns it, and the attempt is ok.       *)
AskReturns(c) ==
  /\ pc[c] = "running"
  /\ future[Latest(c)] = "answered"
  /\ EndAttempt(c, "ok")
  /\ UNCHANGED channelVars

(* Mutant: the future is left open for an answer that may still come.      *)
AskShielded(c) == Expire(c) /\ UNCHANGED channelVars

(* The timeout cancels the wait and with it the future.  A question that   *)
(* was answered in this very turn of the loop times out all the same, its  *)
(* answer lost.                                                            *)
AskExpires(c) ==
  /\ Expire(c)
  /\ future' = [future EXCEPT ![Latest(c)] = IF @ = "open" THEN "cancelled" ELSE @]
  /\ UNCHANGED <<pending, shown, asked, given>>

-----------------------------------------------------------------------------
(* The application takes the oldest question, cancelled or not.            *)
Take ==
  /\ pending # <<>>
  /\ shown' = shown \cup {Head(pending)}
  /\ pending' = Tail(pending)
  /\ UNCHANGED <<toolVars, future, asked, given>>

(* given with the time of the first answer to q. *)
Noted(q) ==
  [r \in DOMAIN given \cup {q} |-> IF r \in DOMAIN given THEN given[r] ELSE now]

(* Mutant: an answer goes to whatever the same call is asking by now.      *)
SubmitByText(q) ==
  LET open == {<<q[1], n>> : n \in 1..MaxAttempts} \cap {r \in Questions : future[r] = "open"}
  IN  /\ q \in shown
      /\ future' = [r \in Questions |-> IF r \in open THEN "answered" ELSE future[r]]
      /\ given' = Noted(q)
      /\ UNCHANGED <<toolVars, pending, shown, asked>>

(* submit_answer: the user answers a question once shown, at any time; a   *)
(* future that is done, answered or cancelled, is left alone.              *)
SubmitAnswer(q) ==
  /\ q \in shown
  /\ future' = [future EXCEPT ![q] = IF @ = "open" THEN "answered" ELSE @]
  /\ given' = Noted(q)
  /\ UNCHANGED <<toolVars, pending, shown, asked>>

-----------------------------------------------------------------------------
Enter(c) == Fresh(c) /\ (Begin(c) \/ Refuse(c)) /\ UNCHANGED channelVars

(* What the event loop owes a call, whoever answers.                       *)
Owed(c) ==
  \/ c \in Asking /\ (AskStarts(c) \/ AskReturns(c) \/ AskExpires(c))
  \/ c \notin Asking /\ (Start(c) \/ Expire(c)) /\ UNCHANGED channelVars
  \/ (Return(c) \/ Retry(c) \/ Sleep(c) \/ Wake(c)) /\ UNCHANGED channelVars

(* What an adapter that asks nobody may answer.                            *)
Tells(c) == c \notin Asking /\ (Answer(c) \/ LateAnswer(c)) /\ UNCHANGED channelVars

(* The clock also waits for a call whose answer has come.                  *)
AskTick ==
  /\ Tick
  /\ \A c \in Asking :
       pc[c] = "running" /\ future[Latest(c)] = "answered"
         => now < given[Latest(c)] + Lag
  /\ UNCHANGED channelVars

AskFinished == Finished /\ UNCHANGED channelVars

AskNext ==
  \/ \E c \in Calls : Enter(c) \/ Owed(c) \/ Tells(c)
  \/ Take
  \/ \E q \in Questions : SubmitAnswer(q)
  \/ AskTick
  \/ AskFinished

(* As in ToolInvocation; neither the application nor the user is obliged   *)
(* to do anything.                                                         *)
AskFairness ==
  /\ WF_askVars(AskTick)
  /\ \A c \in Calls : WF_askVars(Enter(c)) /\ WF_askVars(Owed(c))

AskSpec == AskInit /\ [][AskNext]_askVars /\ AskFairness

-----------------------------------------------------------------------------
(* A question that is open is the one question its call is waiting for     *)
(* now: whatever the user still holds of earlier attempts, or of a call    *)
(* that is over, is closed (wait_for cancels the future of ask).           *)
NoStrayQuestion ==
  \A q \in Questions :
    future[q] = "open" => pc[q[1]] = "running" /\ Latest(q[1]) = q

(* A call that succeeds does so with an answer to its latest question, and *)
(* no question counts as answered that the user has not been shown: a late *)
(* answer to an earlier attempt never passes for one to the retry          *)
(* (submit_answer is given the future itself, not the question's text).    *)
AnswersOwnQuestion ==
  /\ \A q \in Questions : future[q] = "answered" => q \in shown
  /\ \A c \in Asking : result[c] = "ok" => future[Latest(c)] = "answered"

(* An answer given within per_call_timeout_s of the question, less the time *)
(* by which the loop may be late to notice it, is what the call returns,   *)
(* however long the question waited in the queue: it is never dropped in   *)
(* favour of a retry (submit_answer, wait_for).                            *)
TimelyAnswerCounts ==
  \A c \in Asking, n \in 1..MaxAttempts :
    <<c, n>> \in DOMAIN given /\ given[c, n] + Lag < asked[c, n] + CallTimeout =>
      /\ attempt[c] = n
      /\ \/ pc[c] = "running" /\ future[c, n] = "answered"
         \/ result[c] = "ok"
=============================================================================
