-------------------------- MODULE ReplayTaskProofs --------------------------
(* Proofs about ReplayTask while its process lives: the replayed tool call *)
(* is the conversation of Dialogue, for every set of questions, answers    *)
(* and any number of rounds.                                               *)
EXTENDS ReplayTask, TLAPS

(* How many rounds each record of the conversation has reached.            *)
Rounds ==
  /\ node = "suspended" => Len(asked) = Len(answers) + 1
  /\ node # "suspended" => Len(asked) = Len(answers)
  /\ Len(told) <= Len(answers)
  /\ node = "ready" => Len(bucket) = Len(asked)
  /\ node = "invoking" => Len(bucket) = Len(told) /\ iter = Len(bucket) + 1
  /\ node # "invoking" => \/ Len(bucket) = Len(told) + 1
                          \/ Len(bucket) = 0 /\ Len(told) = 0

(* The bucket remembers every question the user was asked.                 *)
Remembered ==
  \A n \in 1..Len(asked) : n <= Len(bucket) /\ bucket[n] = asked[n]

(* The loop carries the answer of the round before.                        *)
Carried ==
  node \in {"looking", "invoking", "scanning"} =>
    /\ iter <= Len(answers) + 1
    /\ iter > 1 => prev = answers[iter - 1]

IInv ==
  /\ TypeOK
  /\ node \notin Over => Rounds /\ Remembered /\ Carried
  /\ node \in {"finished", "failed"} => bucket = <<>>
  /\ node = "unresolved" => Len(bucket) = Len(asked)
  /\ NoDrift

USE DEF Nodes, Over, Results, history

(* The inductive invariant holds before the tool is run.                   *)
LEMMA InitInv == Init => IInv
BY DEF Init, IInv, TypeOK, Rounds, Remembered, Carried, NoDrift

(* Every step of the tool and every answer keeps the types.                *)
LEMMA TypeInv ==
  ASSUME IInv, Tool \/ Resume
  PROVE  TypeOK'
<1> USE ReplayAssumption DEF IInv, TypeOK
<1>1. CASE Play BY <1>1 DEF Play
<1>2. CASE Hit BY <1>2 DEF Hit
<1>3. CASE Miss
  <2>1. CASE iter = 1 BY <1>3, <2>1 DEF Miss
  <2>2. CASE iter # 1
    <3>1. iter - 1 \in 1..Len(answers) /\ iter - 1 <= Len(asked)
            /\ bucket[iter - 1] = asked[iter - 1] /\ prev = answers[iter - 1]
      BY <1>3, <2>2 DEF Miss, Rounds, Remembered, Carried
    <3>2. <<bucket[iter - 1], prev>> \in Questions \X Replies
      BY <3>1
    <3>3. told' = Append(told, <<bucket[iter - 1], prev>>)
      BY <1>3, <2>2 DEF Miss
    <3>4. told' \in Seq(Questions \X Replies)
      BY <3>2, <3>3
    <3> QED BY <1>3, <3>4 DEF Miss
  <2> QED BY <2>1, <2>2
<1>4. CASE Returned
  <2>1. PICK r \in Results : bucket' = Append(bucket, r)
    BY <1>4 DEF Returned
  <2>2. bucket' \in Seq(Results) /\ Len(bucket') = Len(bucket) + 1
    BY <2>1
  <2>3. iter = Len(bucket) + 1
    BY <1>4 DEF Returned, Rounds
  <2> QED BY <1>4, <2>2, <2>3 DEF Returned
<1>5. CASE Raises BY <1>5 DEF Raises
<1>6. CASE Interrupt
  <2>1. bucket[iter] \in Questions
    BY <1>6 DEF Interrupt
  <2> QED BY <1>6, <2>1 DEF Interrupt
<1>7. CASE Feed BY <1>7 DEF Feed
<1>8. CASE Finish BY <1>8 DEF Finish
<1>9. CASE Resume BY <1>9 DEF Resume
<1>10. CASE Unresolved BY <1>10 DEF Unresolved
<1> QED
  BY <1>1, <1>2, <1>3, <1>4, <1>5, <1>6, <1>7, <1>8, <1>9, <1>10 DEF Tool

(* While the call is open, each step keeps the records in step.            *)
LEMMA RoundsInv ==
  ASSUME IInv, Tool \/ Resume, TypeOK', node' \notin Over
  PROVE  Rounds' /\ Remembered' /\ Carried'
<1> USE DEF IInv, TypeOK, Rounds, Remembered, Carried
<1>1. CASE Play BY <1>1 DEF Play
<1>2. CASE Hit BY <1>2 DEF Hit
<1>3. CASE Miss
  <2>1. CASE iter = 1 BY <1>3, <2>1 DEF Miss
  <2>2. CASE iter # 1
    <3>1. told' = Append(told, <<bucket[iter - 1], prev>>)
      BY <1>3, <2>2 DEF Miss
    <3>2. Len(told') = Len(told) + 1
      BY <3>1
    <3>3. iter = Len(bucket) + 1
      BY <1>3 DEF Miss
    <3> QED BY <1>3, <2>2, <3>2, <3>3 DEF Miss
  <2> QED BY <2>1, <2>2
<1>4. CASE Returned
  <2>1. PICK r \in Results : bucket' = Append(bucket, r)
    BY <1>4 DEF Returned
  <2>2. Len(bucket') = Len(bucket) + 1
          /\ \A n \in 1..Len(bucket) : bucket'[n] = bucket[n]
    BY <2>1
  <2> QED BY <1>4, <2>2 DEF Returned
<1>5. CASE Raises BY <1>5 DEF Raises
<1>6. CASE Interrupt
  <2>1. asked' = Append(asked, bucket[iter]) /\ iter = Len(asked) + 1
          /\ iter <= Len(bucket) /\ bucket[iter] \in Questions
    BY <1>6 DEF Interrupt
  <2>2. /\ Len(asked') = Len(asked) + 1 /\ asked'[iter] = bucket[iter]
        /\ \A n \in 1..Len(asked) : asked'[n] = asked[n]
    BY <2>1
  <2>3. Remembered'
    <3>1. bucket' = bucket
      BY <1>6 DEF Interrupt
    <3>2. ASSUME NEW n \in 1..Len(asked')
          PROVE  n <= Len(bucket') /\ bucket'[n] = asked'[n]
      <4>1. n \in 1..Len(asked) \/ n = iter
        BY <2>1, <2>2
      <4>2. CASE n \in 1..Len(asked)
        BY <1>6, <2>2, <3>1, <4>2 DEF Interrupt
      <4>3. CASE n = iter
        BY <2>1, <2>2, <3>1, <4>3
      <4> QED BY <4>1, <4>2, <4>3
    <3> QED BY <3>2
  <2> QED BY <1>6, <2>2, <2>3 DEF Interrupt
<1>7. CASE Feed BY <1>7 DEF Feed
<1>8. CASE Finish BY <1>8 DEF Finish
<1>9. CASE Resume
  <2>1. PICK r \in Replies : answers' = Append(answers, r)
    BY <1>9 DEF Resume
  <2>2. Len(answers') = Len(answers) + 1
    BY <2>1
  <2>3. Len(bucket) = Len(asked)
    <3>1. Len(asked) >= 1 /\ Len(asked) <= Len(bucket)
      BY <1>9 DEF Resume
    <3> QED BY <1>9, <3>1 DEF Resume
  <2> QED BY <1>9, <2>2, <2>3 DEF Resume
<1>10. CASE Unresolved BY <1>10 DEF Unresolved
<1> QED
  BY <1>1, <1>2, <1>3, <1>4, <1>5, <1>6, <1>7, <1>8, <1>9, <1>10 DEF Tool

(* What the role is told next is the user's own answer to the question it  *)
(* asked: the step that tells it is the one Dialogue allows.               *)
LEMMA TellStep ==
  ASSUME IInv, Miss, iter # 1
  PROVE  /\ Len(told) < Len(answers)
         /\ told' = Append(told, <<asked[Len(told) + 1], answers[Len(told) + 1]>>)
<1>1. /\ iter = Len(bucket) + 1 /\ Len(bucket) = Len(told) + 1
      /\ iter <= Len(answers) + 1 /\ Len(asked) = Len(answers)
  BY DEF Miss, IInv, TypeOK, Rounds, Carried
<1>2. bucket[iter - 1] = asked[Len(told) + 1] /\ prev = answers[Len(told) + 1]
  BY <1>1 DEF Miss, IInv, TypeOK, Remembered, Carried
<1> QED BY <1>1, <1>2 DEF Miss, IInv, TypeOK

(* No step tells the role anything but what Dialogue lets it be told.      *)
LEMMA DriftInv ==
  ASSUME IInv, Tool \/ Resume
  PROVE  NoDrift'
<1> USE DEF IInv, TypeOK, NoDrift
<1>1. CASE Miss /\ iter # 1
  <2>1. /\ Len(told) < Len(answers)
        /\ told' = Append(told, <<asked[Len(told) + 1], answers[Len(told) + 1]>>)
        /\ UNCHANGED <<answers, asked>>
    BY <1>1, TellStep DEF Miss
  <2> QED BY <2>1
<1>2. CASE Interrupt
  <2>1. UNCHANGED <<answers, told>> /\ asked' = Append(asked, bucket[iter])
    BY <1>2 DEF Interrupt
  <2>2. \A n \in 1..Len(asked) : asked'[n] = asked[n]
    BY <1>2, <2>1 DEF Interrupt
  <2>3. Len(told) <= Len(asked)
    BY <1>2 DEF Interrupt, Rounds
  <2> QED BY <2>1, <2>2, <2>3
<1>3. CASE Resume
  <2>1. PICK r \in Replies : answers' = Append(answers, r)
    BY <1>3 DEF Resume
  <2>2. UNCHANGED <<asked, told>>
    BY <1>3 DEF Resume
  <2>3. Len(answers') = Len(answers) + 1
          /\ \A n \in 1..Len(answers) : answers'[n] = answers[n]
    BY <2>1
  <2>4. \A n \in DOMAIN told : /\ n \in 1..Len(answers)
                              /\ told[n] = <<asked[n], answers[n]>>
    OBVIOUS
  <2>5. DOMAIN answers' = 1..Len(answers')
    BY <2>1
  <2> HIDE DEF IInv, TypeOK
  <2>6. Len(answers) \in Nat
    BY DEF IInv, TypeOK
  <2> QED BY <2>2, <2>3, <2>4, <2>5, <2>6
<1>4. CASE ~(Miss /\ iter # 1) /\ ~Interrupt /\ ~Resume
  <2>1. UNCHANGED <<asked, answers, told>>
    BY <1>4 DEF Tool, Play, Hit, Miss, Returned, Unresolved, Raises, Feed,
       Finish
  <2> QED BY <2>1
<1> QED BY <1>1, <1>2, <1>3, <1>4

(* The inductive invariant is kept by every step of a process that lives.  *)
LEMMA NextInv == IInv /\ [Next]_vars => IInv'
<1> SUFFICES ASSUME IInv, [Next]_vars PROVE IInv'
  OBVIOUS
<1>1. CASE Tool \/ Resume
  <2>1. TypeOK' /\ NoDrift'
    BY <1>1, TypeInv, DriftInv
  <2>2. node' \notin Over => Rounds' /\ Remembered' /\ Carried'
    BY <1>1, <2>1, RoundsInv
  <2>3. node' \in {"finished", "failed"} => bucket' = <<>>
    BY <1>1 DEF Tool, Play, Unresolved, Hit, Miss, Returned, Raises, Interrupt, Feed,
       Finish, Resume
  <2>4. node' = "unresolved" => Len(bucket') = Len(asked')
    <3>1. node' = "unresolved" => Unresolved
      BY <1>1 DEF Tool, Play, Hit, Miss, Returned, Raises, Interrupt, Feed, Finish,
         Resume
    <3> QED BY <3>1 DEF Unresolved, IInv, Rounds
  <2> QED BY <2>1, <2>2, <2>3, <2>4 DEF IInv
<1>2. CASE UNCHANGED vars
  BY <1>2 DEF vars, IInv, TypeOK, Rounds, Remembered, Carried, NoDrift
<1> QED BY <1>1, <1>2 DEF Next, Done

(* The inductive invariant holds throughout a tool call.                   *)
THEOREM Invariance == Spec => []IInv
BY InitInv, NextInv, PTL DEF Spec

(* However many rounds are replayed, no invocation is told an answer with  *)
(* a question it was not given to.                                         *)
THEOREM NoDriftTheorem == Spec => []NoDrift
<1>1. IInv => NoDrift
  BY DEF IInv
<1> QED BY <1>1, Invariance, PTL

(* The bucket lasts as long as the tool call needs it, and outlives it     *)
(* only when resolve_role raises on a rerun.                               *)
THEOREM BucketTheorem == Spec => []BucketLifetime
<1>1. IInv => BucketLifetime
  <2>1. ASSUME IInv, node = "suspended" PROVE Len(bucket) = Len(asked)
    <3>1. Len(asked) >= 1 /\ Len(asked) <= Len(bucket)
      BY <2>1 DEF IInv, TypeOK, Rounds, Remembered
    <3> QED BY <2>1, <3>1 DEF IInv, TypeOK, Rounds
  <2> QED BY <2>1 DEF IInv, BucketLifetime
<1> QED BY <1>1, Invariance, PTL

(* The tool call implements the conversation: seen from the user and the   *)
(* role, replaying it makes no difference.                                 *)
THEOREM Refinement == Spec => ImplementsDialogue
<1> USE DEF D!vars
<1>1. Init => D!Init
  BY DEF Init, D!Init
<1>2. IInv /\ [Next]_vars => [D!Next]_D!vars
  <2> SUFFICES ASSUME IInv, Next \/ UNCHANGED vars
               PROVE  D!Next \/ UNCHANGED D!vars
    OBVIOUS
  <2>1. CASE Interrupt
    <3>1. bucket[iter] \in Questions
      BY <2>1 DEF Interrupt, IInv, TypeOK
    <3>2. Len(asked) = Len(told)
      BY <2>1 DEF Interrupt, IInv, TypeOK, Rounds, Carried
    <3>3. D!Ask(bucket[iter])
      BY <2>1, <3>2 DEF Interrupt, D!Ask
    <3> QED BY <3>1, <3>3 DEF D!Next
  <2>2. CASE Resume
    <3>1. PICK r \in Replies : answers' = Append(answers, r)
      BY <2>2 DEF Resume
    <3>2. Len(answers) < Len(asked)
      BY <2>2 DEF Resume, IInv, TypeOK, Rounds
    <3>3. D!Reply(r)
      BY <2>2, <3>1, <3>2 DEF Resume, D!Reply
    <3> QED BY <3>3 DEF D!Next
  <2>3. CASE Miss
    <3>1. CASE iter = 1
      BY <2>3, <3>1 DEF Miss
    <3>2. CASE iter # 1
      <4>1. D!Tell
        BY <2>3, <3>2, TellStep DEF Miss, D!Tell
      <4> QED BY <4>1 DEF D!Next
    <3> QED BY <3>1, <3>2
  <2>4. CASE Unresolved \/ Raises
    <3>1. D!End
      BY <2>4 DEF Unresolved, Raises, D!End
    <3> QED BY <3>1 DEF D!Next
  <2>5. CASE Finish
    <3>1. ~(iter <= Len(asked))
      BY <2>5, ReplayAssumption DEF Finish, IInv, TypeOK, Remembered
    <3>2. Len(asked) = Len(told)
      BY <2>5, <3>1 DEF Finish, IInv, TypeOK, Rounds
    <3>3. D!End
      BY <2>5, <3>2 DEF Finish, D!End
    <3> QED BY <3>3 DEF D!Next
  <2>6. CASE Play \/ Hit \/ Returned \/ Feed
    BY <2>6 DEF Play, Hit, Returned, Feed
  <2>7. CASE Done \/ UNCHANGED vars
    BY <2>7 DEF Done, vars
  <2> QED BY <2>1, <2>2, <2>3, <2>4, <2>5, <2>6, <2>7 DEF Next, Tool
<1> QED BY <1>1, <1>2, Invariance, PTL DEF Spec, ImplementsDialogue, D!Spec
=============================================================================
