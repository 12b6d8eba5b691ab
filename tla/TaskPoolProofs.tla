--------------------------- MODULE TaskPoolProofs ---------------------------
(* Proof that sharing the thread pool does not show in any tool call: each *)
(* call of TaskPool is a ReplayTask, for every number of calls and         *)
(* workers and however the calls nest.                                     *)
EXTENDS TaskPool, TLAPS

Domains ==
  /\ DOMAIN node = Calls /\ DOMAIN iter = Calls /\ DOMAIN prev = Calls
  /\ DOMAIN bucket = Calls /\ DOMAIN answers = Calls
  /\ DOMAIN asked = Calls /\ DOMAIN told = Calls
  /\ DOMAIN job = Calls /\ DOMAIN result = Calls

(* What an invocation under way will come to when its call collects it: a  *)
(* result, and no question beyond the bound.                               *)
Collectable ==
  \A c \in Calls :
    node[c] = "invoking" /\ job[c] = "done" =>
      /\ result[c] \in Results
      /\ result[c] \in Questions => Len(bucket[c]) < MaxAsks

Inv == Domains /\ Collectable

(* What the thread of call c does leaves every other call alone. *)
Alone(c) ==
  \A d \in Calls \ {c} :
    /\ node'[d] = node[d] /\ iter'[d] = iter[d] /\ prev'[d] = prev[d]
    /\ bucket'[d] = bucket[d] /\ answers'[d] = answers[d]
    /\ asked'[d] = asked[d] /\ told'[d] = told[d]

USE DEF toolVars, vars

(* The invariant holds before any call is made.                            *)
LEMMA InitInv == Init => Inv
BY DEF Init, Inv, Domains, Collectable

(* Every variable stays a function of the calls.                           *)
LEMMA DomainsInv ==
  ASSUME Inv, [Next]_vars
  PROVE  Domains'
<1> USE DEF Inv, Domains
<1>1. ASSUME NEW c \in Calls, Play(c) \/ Unresolved(c) PROVE Domains'
  BY <1>1 DEF Play, Unresolved, Goto
<1>2. ASSUME NEW c \in Calls, Hit(c) PROVE Domains' BY <1>2 DEF Hit, Goto
<1>3. ASSUME NEW c \in Calls, Miss(c) PROVE Domains' BY <1>3 DEF Miss, Goto
<1>4. ASSUME NEW c \in Calls, Collect(c) PROVE Domains' BY <1>4 DEF Collect, Goto, Pop
<1>5. ASSUME NEW c \in Calls, Timeout(c) PROVE Domains' BY <1>5 DEF Timeout, Goto, Pop
<1>6. ASSUME NEW c \in Calls, Interrupt(c) PROVE Domains' BY <1>6 DEF Interrupt, Goto, Pop
<1>7. ASSUME NEW c \in Calls, Feed(c) PROVE Domains' BY <1>7 DEF Feed, Goto
<1>8. ASSUME NEW c \in Calls, Finish(c) PROVE Domains' BY <1>8 DEF Finish, Goto, Pop
<1>9. ASSUME NEW c \in Calls, Resume(c) PROVE Domains' BY <1>9 DEF Resume, Goto
<1>10. ASSUME NEW c \in Calls, RoleEnds(c) PROVE Domains' BY <1>10 DEF RoleEnds
<1>11. CASE Begin BY <1>11 DEF Begin
<1>12. CASE UNCHANGED vars BY <1>12
<1> QED
  BY <1>1, <1>2, <1>3, <1>4, <1>5, <1>6, <1>7, <1>8, <1>9, <1>10, <1>11, <1>12
  DEF Next, Thread

(* What a job comes to can be collected by its call.                       *)
LEMMA CollectableInv ==
  ASSUME Inv, [Next]_vars
  PROVE  Collectable'
<1> USE DEF Inv, Domains, Collectable
<1>1. ASSUME NEW c \in Calls, Play(c) \/ Unresolved(c) PROVE Collectable'
  BY <1>1 DEF Play, Unresolved, Goto
<1>2. ASSUME NEW c \in Calls, Hit(c) PROVE Collectable' BY <1>2 DEF Hit, Goto
<1>3. ASSUME NEW c \in Calls, Miss(c) PROVE Collectable' BY <1>3 DEF Miss, Goto
<1>4. ASSUME NEW c \in Calls, Collect(c) PROVE Collectable' BY <1>4 DEF Collect, Goto, Pop
<1>5. ASSUME NEW c \in Calls, Timeout(c) PROVE Collectable' BY <1>5 DEF Timeout, Goto, Pop
<1>6. ASSUME NEW c \in Calls, Interrupt(c) PROVE Collectable' BY <1>6 DEF Interrupt, Goto, Pop
<1>7. ASSUME NEW c \in Calls, Feed(c) PROVE Collectable' BY <1>7 DEF Feed, Goto
<1>8. ASSUME NEW c \in Calls, Finish(c) PROVE Collectable' BY <1>8 DEF Finish, Goto, Pop
<1>9. ASSUME NEW c \in Calls, Resume(c) PROVE Collectable' BY <1>9 DEF Resume, Goto
<1>10. ASSUME NEW c \in Calls, RoleEnds(c) PROVE Collectable' BY <1>10 DEF RoleEnds
<1>11. CASE Begin BY <1>11 DEF Begin
<1>12. CASE UNCHANGED vars BY <1>12
<1> QED
  BY <1>1, <1>2, <1>3, <1>4, <1>5, <1>6, <1>7, <1>8, <1>9, <1>10, <1>11, <1>12
  DEF Next, Thread

(* A step of a call's thread is a step of its ReplayTask, and of no other. *)
LEMMA ThreadMaps ==
  ASSUME Inv, NEW c \in Calls, Play(c) \/ Unresolved(c) \/ Thread(c) \/ Resume(c)
  PROVE  Replay(c)!Next /\ Alone(c)
<1> USE PoolAssumption DEF Inv, Domains, Alone
<1>1. CASE Play(c)
  BY <1>1 DEF Play, Called, Goto, Replay!Next, Replay!Tool, Replay!history, Replay!Play
<1>2. CASE Hit(c)
  BY <1>2 DEF Hit, Goto, Replay!Next, Replay!Tool, Replay!history, Replay!Hit
<1>3. CASE Miss(c)
  <2>1. told'[c] = IF iter[c] = 1 THEN told[c]
                   ELSE Append(told[c], <<bucket[c][iter[c] - 1], prev[c]>>)
    BY <1>3 DEF Miss
  <2> QED
    BY <1>3, <2>1 DEF Miss, Goto, Replay!Next, Replay!Tool, Replay!history, Replay!Miss
<1>4. CASE Collect(c)
  <2>1. CASE result[c] # "raised"
    <3>1. /\ bucket'[c] = Append(bucket[c], result[c])
          /\ node'[c] = "scanning"
      BY <1>4, <2>1 DEF Collect, Goto
    <3>2. result[c] \in Questions \cup {"final"}
          /\ (result[c] # "final" => Len(bucket[c]) < MaxAsks)
      BY <1>4, <2>1 DEF Collect, Collectable, Results
    <3>3. Replay(c)!Returned
      BY <1>4, <2>1, <3>1, <3>2 DEF Collect, Replay!Returned, Replay!Results, Replay!history
    <3> QED BY <1>4, <2>1, <3>3 DEF Collect, Goto, Replay!Next, Replay!Tool
  <2>2. CASE result[c] = "raised"
    BY <1>4, <2>2 DEF Collect, Goto, Pop, Replay!Next, Replay!Tool, Replay!history, Replay!Raises
  <2> QED BY <2>1, <2>2
<1>5. CASE Timeout(c)
  BY <1>5 DEF Timeout, Goto, Pop, Replay!Next, Replay!Tool, Replay!history, Replay!Raises
<1>6. CASE Interrupt(c)
  BY <1>6 DEF Interrupt, Goto, Pop, Replay!Next, Replay!Tool, Replay!history, Replay!Interrupt, Replay!Raises
<1>7. CASE Feed(c)
  BY <1>7 DEF Feed, Goto, Replay!Next, Replay!Tool, Replay!history, Replay!Feed
<1>8. CASE Finish(c)
  BY <1>8 DEF Finish, Goto, Pop, Replay!Next, Replay!Tool, Replay!history, Replay!Finish
<1>9. CASE Resume(c)
  BY <1>9 DEF Resume, Goto, Replay!Next, Replay!Tool, Replay!history, Replay!Resume
<1>10. CASE Unresolved(c)
  BY <1>10 DEF Unresolved, Called, Goto, Replay!Next, Replay!Tool, Replay!history,
              Replay!Unresolved
<1> QED BY <1>1, <1>2, <1>3, <1>4, <1>5, <1>6, <1>7, <1>8, <1>9, <1>10 DEF Thread

(* Every step of the system is for every call a step of its ReplayTask or  *)
(* nothing at all.                                                         *)
LEMMA StepMaps ==
  ASSUME Inv, [Next]_vars
  PROVE  \A c \in Calls : Replay(c)!Next \/ UNCHANGED Replay(c)!vars
<1>1. SUFFICES ASSUME NEW c \in Calls
               PROVE  Replay(c)!Next \/ UNCHANGED Replay(c)!vars
  OBVIOUS
<1>2. ASSUME NEW d \in Calls, Play(d) \/ Unresolved(d) \/ Thread(d) \/ Resume(d)
      PROVE  Replay(c)!Next \/ UNCHANGED Replay(c)!vars
  <2>1. CASE c = d BY <1>2, <2>1, ThreadMaps
  <2>2. CASE c # d
    <3>1. Alone(d) BY <1>2, ThreadMaps
    <3> QED BY <2>2, <3>1 DEF Alone, Replay!vars, Replay!history
  <2> QED BY <2>1, <2>2
<1>3. CASE UNCHANGED toolVars
  BY <1>3 DEF Replay!vars, Replay!history
<1>4. ASSUME NEW d \in Calls, RoleEnds(d) PROVE UNCHANGED toolVars
  BY <1>4 DEF RoleEnds
<1>5. CASE Begin \/ UNCHANGED vars
  <2>1. UNCHANGED toolVars BY <1>5 DEF Begin
  <2> QED BY <1>3, <2>1
<1> QED BY <1>2, <1>3, <1>4, <1>5 DEF Next, vars, toolVars

(* The system starts where every ReplayTask starts.                        *)
LEMMA InitMaps == Init => \A c \in Calls : Replay(c)!Init
BY DEF Init, Replay!Init

(* Each call of the pool is a ReplayTask of its own (ImplementsReplay of   *)
(* TaskPool): _run_async and the buckets of replay_safe_tool_call keep the *)
(* calls apart, whatever times out, is orphaned or nested.                 *)
THEOREM PoolImplementsReplay == Spec => ImplementsReplay
<1>1. Inv /\ [Next]_vars => Inv'
  BY DomainsInv, CollectableInv DEF Inv
<1>2. Inv /\ [Next]_vars =>
        [\A c \in Calls : Replay(c)!Next \/ UNCHANGED Replay(c)!vars]_vars
  BY StepMaps
<1> QED BY InitInv, InitMaps, <1>1, <1>2, PTL DEF Spec, ImplementsReplay
=============================================================================
