-------------------------- MODULE InvocationProofs --------------------------
(* Proofs about one invocation, layer by layer: the tool engine for every  *)
(* set of calls, retry policy, set of adapters and lag of the loop         *)
(* (ToolInvocation); the engine with the HITL channel under it (AskTool),  *)
(* which changes nothing of what the engine promises and takes no answer   *)
(* to a question it was not given to; and the role above it                *)
(* (RoleInvocation), for every watchdog policy, tool set and lateness of   *)
(* the event loop.                                                         *)
EXTENDS AskTool, RoleInvocation, FiniteSetTheorems, WellFoundedInduction, TLAPS


(* classify_exception yields one of the library's categories whatever the  *)
(* exception looks like.                                                   *)
LEMMA ClassifyType ==
  ASSUME NEW t PROVE classify_exception(t) \in Categories
<1> DEFINE hits == {i \in 1..6 : Rules[i][1] \in t}
<1>1. CASE hits = {}
  BY <1>1 DEF classify_exception, Categories
<1>2. CASE hits # {}
  <2>1. \E i \in hits : \A j \in hits : i <= j
    <3>1. \A i \in hits : i \in {1, 2, 3, 4, 5, 6}
      OBVIOUS
    <3>2. CASE 1 \in hits BY <3>1, <3>2
    <3>3. CASE 1 \notin hits /\ 2 \in hits BY <3>1, <3>3
    <3>4. CASE 1 \notin hits /\ 2 \notin hits /\ 3 \in hits BY <3>1, <3>4
    <3>5. CASE {1, 2, 3} \cap hits = {} /\ 4 \in hits BY <3>1, <3>5
    <3>6. CASE {1, 2, 3, 4} \cap hits = {} /\ 5 \in hits BY <3>1, <3>6
    <3>7. CASE {1, 2, 3, 4, 5} \cap hits = {} /\ 6 \in hits BY <3>1, <3>7
    <3> QED BY <1>2, <3>1, <3>2, <3>3, <3>4, <3>5, <3>6, <3>7
  <2>2. PICK k \in 1..6 : k = CHOOSE i \in hits : \A j \in hits : i <= j
    BY <2>1
  <2>3. classify_exception(t) = Rules[k][2]
    BY <1>2, <2>2 DEF classify_exception
  <2>4. \A i \in 1..6 : Rules[i][2] \in Categories
    BY DEF Rules, Categories
  <2> QED BY <2>3, <2>4
<1> QED BY <1>1, <1>2

(* What an attempt yields before its timeout is an outcome the result type *)
(* knows.                                                                  *)
LEMMA YieldsType == Yields \subseteq Outcomes
BY ClassifyType, ToolAssumption DEF Yields, Outcomes

-----------------------------------------------------------------------------
(* The inductive invariant: types; a call that is going to try again has   *)
(* an attempt left, and one that gave up has none.                         *)
RetryLeft ==
  \A c \in Calls : pc[c] \in {"retrying", "sleeping"} => attempt[c] < MaxAttempts

LastAttempt ==
  \A c \in Calls :
    pc[c] = "done" /\ result[c] \in TRANSIENT_ERRORS => attempt[c] = MaxAttempts

ToolInv == ToolTypeOK /\ RetryLeft /\ LastAttempt

USE DEF Park, States, Active, Timed

(* The engine's invariant holds before any call is made.                   *)
LEMMA ToolInitInv == ToolInit => ToolInv
BY ToolAssumption DEF ToolInit, ToolInv, ToolTypeOK, RetryLeft,
   LastAttempt, TRANSIENT_ERRORS

(* Entering call_one, with good arguments or refused ones.                 *)
LEMMA EnterInv ==
  ASSUME ToolInv, NEW c \in Calls, Begin(c) \/ Refuse(c)
  PROVE  ToolInv'
<1>1. CASE Begin(c)
  <2>1. ToolTypeOK'
    BY <1>1, ToolAssumption DEF Begin, ToolInv, ToolTypeOK
  <2>2. RetryLeft' /\ LastAttempt'
    BY <1>1 DEF Begin, ToolInv, ToolTypeOK, RetryLeft, LastAttempt
  <2> QED BY <2>1, <2>2 DEF ToolInv
<1>2. CASE Refuse(c)
  <2>1. ToolTypeOK'
    BY <1>2, ToolAssumption DEF Refuse, ToolInv, ToolTypeOK, Outcomes, Categories
  <2>2. RetryLeft' /\ LastAttempt'
    BY <1>2 DEF Refuse, ToolInv, ToolTypeOK, RetryLeft,
       LastAttempt, TRANSIENT_ERRORS
  <2> QED BY <2>1, <2>2 DEF ToolInv
<1> QED BY <1>1, <1>2

(* The end of an attempt keeps the engine's invariant.                     *)
LEMMA EndAttemptInv ==
  ASSUME ToolInv, NEW c \in Calls, NEW r \in Outcomes, EndAttempt(c, r)
  PROVE  ToolInv'
BY DEF EndAttempt, ToolInv, ToolTypeOK, RetryLeft, LastAttempt

(* Every step of a call under way.                                         *)
LEMMA StepInv ==
  ASSUME ToolInv, NEW c \in Calls, Step(c)
  PROVE  ToolInv'
<1> USE DEF ToolInv
<1>1. CASE Start(c)
  BY <1>1, ToolAssumption
     DEF Start, ToolTypeOK, RetryLeft, LastAttempt
<1>2. CASE Answer(c)
  BY <1>2, EndAttemptInv, YieldsType DEF Answer
<1>3. CASE Expire(c)
  <2>1. CASE EndAttempt(c, "TIMEOUT")
    BY <2>1, EndAttemptInv DEF Outcomes, Categories
  <2>2. CASE Park(c, "expiring", now)
             /\ UNCHANGED <<now, attempt, backoff, result, began, failed>>
    BY <2>2 DEF ToolTypeOK, RetryLeft, LastAttempt
  <2> QED BY <1>3, <2>1, <2>2 DEF Expire
<1>4. CASE LateAnswer(c)
  BY <1>4, EndAttemptInv, YieldsType DEF LateAnswer
<1>5. CASE Return(c)
  BY <1>5, ToolAssumption DEF Return, Settled, ToolTypeOK, RetryLeft,
     LastAttempt
<1>6. CASE Retry(c)
  BY <1>6, ToolAssumption DEF Retry, Settled, ToolTypeOK, RetryLeft,
     LastAttempt
<1>7. CASE Sleep(c)
  BY <1>7 DEF Sleep, ToolTypeOK, RetryLeft, LastAttempt
<1>8. CASE Wake(c)
  <2>1. Lesser(backoff[c] * BackoffMultiplier, MaxBackoff) \in Nat
    BY ToolAssumption DEF Lesser, ToolTypeOK
  <2>2. attempt[c] + 1 \in 0..MaxAttempts
    BY <1>8, ToolAssumption DEF Wake, ToolTypeOK, RetryLeft
  <2>3. ToolTypeOK'
    BY <1>8, <2>1, <2>2 DEF Wake, ToolTypeOK
  <2>4. RetryLeft' /\ LastAttempt'
    BY <1>8 DEF Wake, ToolTypeOK, RetryLeft, LastAttempt
  <2> QED BY <2>3, <2>4
<1> QED
  BY <1>1, <1>2, <1>3, <1>4, <1>5, <1>6, <1>7, <1>8 DEF Step

(* Every step of the engine keeps its invariant.                           *)
LEMMA ToolNextInv == ToolInv /\ [ToolNext]_toolVars => ToolInv'
<1> SUFFICES ASSUME ToolInv, [ToolNext]_toolVars PROVE ToolInv'
  OBVIOUS
<1>1. ASSUME NEW c \in Calls, Begin(c) \/ Refuse(c) PROVE ToolInv'
  BY <1>1, EnterInv
<1>2. ASSUME NEW c \in Calls, Step(c) PROVE ToolInv'
  BY <1>2, StepInv
<1>3. CASE Tick
  BY <1>3 DEF Tick, callVars, ToolInv, ToolTypeOK, RetryLeft,
     LastAttempt
<1>4. CASE UNCHANGED toolVars
  BY <1>4 DEF toolVars, callVars, ToolInv, ToolTypeOK, RetryLeft,
     LastAttempt
<1> QED BY <1>1, <1>2, <1>3, <1>4 DEF ToolNext, Finished

(* The engine's variables keep their types, in particular no call makes    *)
(* more than max_attempts attempts.                                        *)
THEOREM ToolTypeCorrect == ToolSpec => []ToolTypeOK
<1>1. ToolInv => ToolTypeOK
  BY DEF ToolInv
<1> QED BY <1>1, ToolInitInv, ToolNextInv, PTL DEF ToolSpec

-----------------------------------------------------------------------------
(* The policy's backoff and the total of the delays are recursive          *)
(* functions on the natural numbers.  That such functions exist is proved  *)
(* here from the well-foundedness of < alone.                              *)

(* Induction: a set that holds 0 and each successor holds every number.    *)
LEMMA Induction ==
  ASSUME NEW S, 0 \in S, \A n \in Nat : n \in S => n + 1 \in S
  PROVE  \A n \in Nat : n \in S
<1> DEFINE R == {ss \in Nat \X Nat : ss[1] < ss[2]}
           T == Nat \ S
<1>1. SUFFICES ASSUME T # {} PROVE FALSE
  OBVIOUS
<1>2. PICK t \in T : \A y \in T : ~(<<y, t>> \in R)
  <2>1. IsWellFoundedOn(R, Nat)
    BY NatLessThanWellFounded DEF OpToRel
  <2>2. T \subseteq Nat
    OBVIOUS
  <2> HIDE DEF R, T
  <2> QED BY <1>1, <2>1, <2>2, WFMin
<1>3. t \in Nat /\ t # 0
  OBVIOUS
<1>4. t - 1 \in Nat /\ t - 1 < t /\ (t - 1) + 1 = t
  BY <1>3
<1>5. t - 1 \notin T
  BY <1>2, <1>3, <1>4
<1> QED BY <1>3, <1>4, <1>5

(* f yields a at 0 and at each successor up to n what G makes of the       *)
(* number and the value before.                                            *)
Begins(f, a, G, n) ==
  /\ f[0] = a
  /\ \A k \in 0..n : f[k] \in Nat
  /\ \A k \in Nat : k < n => f[k + 1] = G[k + 1][f[k]]

Recursive(a, G) ==
  \E f \in [Nat -> Nat] : f[0] = a /\ \A n \in Nat : f[n + 1] = G[n + 1][f[n]]

(* There is a function that does so for every number.                      *)
LEMMA Recursion ==
  ASSUME NEW a \in Nat, NEW G, \A n, x \in Nat : G[n][x] \in Nat
  PROVE  Recursive(a, G)
<1> DEFINE Defined == {n \in Nat : \E f : Begins(f, a, G, n)}
<1>1. \A n \in Nat : \E f : Begins(f, a, G, n)
  <2>1. 0 \in Defined
    <3>1. Begins([k \in Nat |-> a], a, G, 0)
      BY DEF Begins
    <3> QED BY <3>1
  <2>2. ASSUME NEW n \in Nat, n \in Defined PROVE n + 1 \in Defined
    <3>1. PICK f : Begins(f, a, G, n)
      BY <2>2
    <3> DEFINE v == G[n + 1][f[n]]
               g == [k \in Nat |-> IF k = n + 1 THEN v ELSE f[k]]
    <3>2. v \in Nat
      <4>1. f[n] \in Nat /\ n + 1 \in Nat
        BY <3>1 DEF Begins
      <4> QED BY <4>1
    <3>3. g[n + 1] = v /\ \A k \in 0..n : g[k] = f[k]
      OBVIOUS
    <3> HIDE DEF g
    <3>4. g[0] = a
      BY <3>1, <3>3 DEF Begins
    <3>5. \A k \in 0..n + 1 : g[k] \in Nat
      <4>1. \A k \in 0..n + 1 : k \in 0..n \/ k = n + 1
        OBVIOUS
      <4> QED BY <3>1, <3>2, <3>3, <4>1 DEF Begins
    <3>6. ASSUME NEW k \in Nat, k < n + 1 PROVE g[k + 1] = G[k + 1][g[k]]
      <4>1. CASE k = n
        BY <3>3, <4>1
      <4>2. CASE k < n
        <5>1. k \in 0..n /\ k + 1 \in 0..n
          BY <4>2
        <5>2. f[k + 1] = G[k + 1][f[k]]
          BY <3>1, <4>2 DEF Begins
        <5> QED BY <3>3, <5>1, <5>2
      <4>3. k = n \/ k < n
        BY <3>6
      <4> QED BY <4>1, <4>2, <4>3
    <3>7. Begins(g, a, G, n + 1)
      BY <3>4, <3>5, <3>6 DEF Begins
    <3> QED BY <3>7
  <2> HIDE DEF Defined
  <2>3. \A n \in Nat : n \in Defined
    BY <2>1, <2>2, Induction
  <2> QED BY <2>3 DEF Defined
<1>2. ASSUME NEW n \in Nat, NEW f, NEW g, Begins(f, a, G, n), Begins(g, a, G, n + 1)
      PROVE  f[n] = g[n]
  <2> DEFINE Same == {k \in Nat : k <= n => f[k] = g[k]}
  <2>1. 0 \in Same
    BY <1>2 DEF Begins
  <2>2. ASSUME NEW k \in Nat, k \in Same PROVE k + 1 \in Same
    <3>1. SUFFICES ASSUME k + 1 <= n PROVE f[k + 1] = g[k + 1]
      OBVIOUS
    <3>2. k < n /\ k < n + 1 /\ f[k] = g[k]
      BY <2>2, <3>1
    <3>3. f[k + 1] = G[k + 1][f[k]]
      BY <1>2, <3>2 DEF Begins
    <3>4. g[k + 1] = G[k + 1][g[k]]
      BY <1>2, <3>2 DEF Begins
    <3> QED BY <3>2, <3>3, <3>4
  <2> HIDE DEF Same
  <2>3. n \in Same
    BY <2>1, <2>2, Induction
  <2> QED BY <2>3 DEF Same
<1> DEFINE pick == [n \in Nat |-> CHOOSE f : Begins(f, a, G, n)]
           h == [n \in Nat |-> pick[n][n]]
<1>3. \A n \in Nat : Begins(pick[n], a, G, n)
  BY <1>1
<1>4. \A n \in Nat : h[n] = pick[n][n]
  OBVIOUS
<1> HIDE DEF pick
<1>5. h \in [Nat -> Nat] /\ h[0] = a
  <2>1. \A n \in Nat : pick[n][n] \in Nat
    BY <1>3 DEF Begins
  <2>2. pick[0][0] = a
    BY <1>3 DEF Begins
  <2> QED BY <2>1, <2>2
<1> HIDE DEF h
<1>6. ASSUME NEW n \in Nat PROVE h[n + 1] = G[n + 1][h[n]]
  <2>1. n + 1 \in Nat /\ n < n + 1
    OBVIOUS
  <2>2. Begins(pick[n], a, G, n) /\ Begins(pick[n + 1], a, G, n + 1)
    BY <1>3, <2>1
  <2>3. pick[n][n] = pick[n + 1][n]
    BY <1>2, <2>2
  <2>4. pick[n + 1][n + 1] = G[n + 1][pick[n + 1][n]]
    BY <2>1, <2>2 DEF Begins
  <2> QED BY <1>4, <2>1, <2>3, <2>4
<1> QED BY <1>5, <1>6 DEF Recursive

-----------------------------------------------------------------------------
(* The backoff of the policy is what the retry loop computes step by step. *)
LEMMA GrowthType ==
  /\ Growth[0] = 1
  /\ \A n \in Nat : Growth[n] \in Nat /\ Growth[n + 1] = BackoffMultiplier * Growth[n]
<1> DEFINE G == [n \in Nat |-> [x \in Nat |-> BackoffMultiplier * x]]
           Law(f) == f = [n \in Nat |-> IF n = 0 THEN 1 ELSE BackoffMultiplier * f[n - 1]]
<1>0. BackoffMultiplier \in Nat
  BY ToolAssumption
<1>1. \A n, x \in Nat : G[n][x] = BackoffMultiplier * x /\ G[n][x] \in Nat
  BY <1>0
<1> HIDE DEF G
<1>2. PICK f \in [Nat -> Nat] : f[0] = 1 /\ \A n \in Nat : f[n + 1] = G[n + 1][f[n]]
  <2>1. Recursive(1, G)
    BY <1>1, Recursion
  <2> QED BY <2>1 DEF Recursive
<1>3. \A n \in Nat : n # 0 => f[n] = BackoffMultiplier * f[n - 1]
  <2> SUFFICES ASSUME NEW n \in Nat, n # 0 PROVE f[n] = BackoffMultiplier * f[n - 1]
    OBVIOUS
  <2>1. n - 1 \in Nat /\ (n - 1) + 1 = n /\ f[n - 1] \in Nat
    OBVIOUS
  <2>2. f[n] = G[n][f[n - 1]]
    BY <1>2, <2>1
  <2> QED BY <1>1, <2>1, <2>2
<1>4. Law(f)
  <2>1. f = [n \in Nat |-> f[n]]
    OBVIOUS
  <2> QED BY <1>2, <1>3, <2>1
<1>5. Law(Growth)
  <2>1. \E g : Law(g)
    BY <1>4
  <2> QED BY <2>1 DEF Growth
<1>6. Growth[0] = 1
  BY <1>5
<1>7. \A n \in Nat : Growth[n + 1] = BackoffMultiplier * Growth[n]
  <2> SUFFICES ASSUME NEW n \in Nat PROVE Growth[n + 1] = BackoffMultiplier * Growth[n]
    OBVIOUS
  <2>1. n + 1 \in Nat /\ n + 1 # 0 /\ (n + 1) - 1 = n
    OBVIOUS
  <2> QED BY <1>5, <2>1
<1>8. \A n \in Nat : Growth[n] \in Nat
  <2> DEFINE S == {n \in Nat : Growth[n] \in Nat}
  <2>1. 0 \in S
    BY <1>6
  <2>2. \A n \in Nat : n \in S => n + 1 \in S
    BY <1>0, <1>7
  <2> HIDE DEF S
  <2>3. \A n \in Nat : n \in S
    BY <2>1, <2>2, Induction
  <2> QED BY <2>3 DEF S
<1> QED BY <1>6, <1>7, <1>8

(* A backoff is a number.                                                  *)
LEMMA BackoffType == \A n \in Nat \ {0} : BackoffAfter(n) \in Nat
<1> SUFFICES ASSUME NEW n \in Nat \ {0} PROVE BackoffAfter(n) \in Nat
  OBVIOUS
<1>1. n - 1 \in Nat /\ Growth[n - 1] \in Nat
  BY GrowthType
<1>2. InitialBackoff * Growth[n - 1] \in Nat /\ MaxBackoff \in Nat /\ InitialBackoff \in Nat
  BY <1>1, ToolAssumption
<1> QED BY <1>2 DEF BackoffAfter, Lesser

(* Wake turns the delay after one attempt into the delay after the next.   *)
LEMMA BackoffStep ==
  \A n \in Nat \ {0} :
    BackoffAfter(n + 1) = Lesser(BackoffAfter(n) * BackoffMultiplier, MaxBackoff)
<1> SUFFICES ASSUME NEW n \in Nat \ {0}
             PROVE  BackoffAfter(n + 1) =
                      Lesser(BackoffAfter(n) * BackoffMultiplier, MaxBackoff)
  OBVIOUS
<1>0. InitialBackoff \in Nat /\ BackoffMultiplier \in Nat /\ MaxBackoff \in Nat
  BY ToolAssumption
<1>1. /\ n - 1 \in Nat /\ (n - 1) + 1 = n /\ (n + 1) - 1 = n /\ n + 1 # 1
      /\ Growth[n - 1] \in Nat /\ Growth[n] = BackoffMultiplier * Growth[n - 1]
  <2>1. n - 1 \in Nat /\ (n - 1) + 1 = n /\ (n + 1) - 1 = n /\ n + 1 # 1
    OBVIOUS
  <2> QED BY <2>1, GrowthType
<1>2. BackoffAfter(n + 1) = Lesser(InitialBackoff * Growth[n], MaxBackoff)
  BY <1>1 DEF BackoffAfter
<1>3. CASE n = 1
  <2>1. Growth[n] = BackoffMultiplier
    BY <1>0, <1>1, <1>3, GrowthType
  <2> QED BY <1>2, <1>3, <2>1 DEF BackoffAfter
<1>4. CASE n # 1
  <2> DEFINE x == InitialBackoff * Growth[n - 1]
             y == BackoffMultiplier
  <2>1. x \in Nat /\ InitialBackoff * Growth[n] = x * y
    BY <1>0, <1>1
  <2>2. BackoffAfter(n) = Lesser(x, MaxBackoff)
    BY <1>4 DEF BackoffAfter
  <2> HIDE DEF x, y
  <2>3. y \in Nat
    BY <1>0 DEF y
  <2>4. Lesser(x * y, MaxBackoff) = Lesser(Lesser(x, MaxBackoff) * y, MaxBackoff)
    <3>1. CASE x <= MaxBackoff
      BY <3>1 DEF Lesser
    <3>2. CASE y = 0
      BY <1>0, <2>1, <3>2 DEF Lesser
    <3>3. CASE x > MaxBackoff /\ y > 0
      <4>1. x * y >= x /\ MaxBackoff * y >= MaxBackoff
        BY <1>0, <2>1, <2>3, <3>3
      <4>2. x * y \in Nat /\ MaxBackoff * y \in Nat
        BY <1>0, <2>1, <2>3
      <4> DEFINE p == x * y
                 q == MaxBackoff * y
      <4>3. p \in Nat /\ q \in Nat /\ p >= x /\ q >= MaxBackoff
        BY <4>1, <4>2
      <4>4. Lesser(x, MaxBackoff) = MaxBackoff
        BY <1>0, <2>1, <3>3 DEF Lesser
      <4> HIDE DEF p, q
      <4>5. Lesser(p, MaxBackoff) = MaxBackoff /\ Lesser(q, MaxBackoff) = MaxBackoff
        BY <1>0, <2>1, <3>3, <4>3 DEF Lesser
      <4> QED BY <4>4, <4>5 DEF p, q
    <3> QED BY <1>0, <2>1, <2>3, <3>1, <3>2, <3>3
  <2> QED BY <1>2, <2>1, <2>2, <2>4 DEF y
<1> QED BY <1>3, <1>4

(* So is the sum of the backoffs.                                          *)
LEMMA BackoffsType ==
  /\ Backoffs[0] = 0
  /\ \A n \in Nat : /\ Backoffs[n] \in Nat
                    /\ Backoffs[n + 1] = Backoffs[n] + BackoffAfter(n + 1)
<1> DEFINE G == [n \in Nat |-> [x \in Nat |->
                   IF n = 0 THEN 0 ELSE x + BackoffAfter(n)]]
           Law(f) == f = [n \in Nat |->
                            IF n = 0 THEN 0 ELSE f[n - 1] + BackoffAfter(n)]
<1>0. \A n \in Nat : BackoffAfter(n + 1) \in Nat
  BY BackoffType
<1>1. /\ \A n, x \in Nat : G[n][x] \in Nat
      /\ \A n, x \in Nat : n # 0 => G[n][x] = x + BackoffAfter(n)
  BY <1>0, BackoffType
<1> HIDE DEF G
<1>2. PICK f \in [Nat -> Nat] : f[0] = 0 /\ \A n \in Nat : f[n + 1] = G[n + 1][f[n]]
  <2>1. Recursive(0, G)
    BY <1>1, Recursion
  <2> QED BY <2>1 DEF Recursive
<1>3. \A n \in Nat : n # 0 => f[n] = f[n - 1] + BackoffAfter(n)
  <2> SUFFICES ASSUME NEW n \in Nat, n # 0
               PROVE  f[n] = f[n - 1] + BackoffAfter(n)
    OBVIOUS
  <2>1. n - 1 \in Nat /\ (n - 1) + 1 = n /\ f[n - 1] \in Nat
    OBVIOUS
  <2>2. f[n] = G[n][f[n - 1]]
    BY <1>2, <2>1
  <2> QED BY <1>1, <2>1, <2>2
<1>4. Law(f)
  <2>1. f = [n \in Nat |-> f[n]]
    OBVIOUS
  <2> QED BY <1>2, <1>3, <2>1
<1>5. Law(Backoffs)
  <2>1. \E g : Law(g)
    BY <1>4
  <2> QED BY <2>1 DEF Backoffs
<1>6. Backoffs[0] = 0
  BY <1>5
<1>7. \A n \in Nat : Backoffs[n + 1] = Backoffs[n] + BackoffAfter(n + 1)
  <2> SUFFICES ASSUME NEW n \in Nat
               PROVE  Backoffs[n + 1] = Backoffs[n] + BackoffAfter(n + 1)
    OBVIOUS
  <2>1. n + 1 \in Nat /\ n + 1 # 0 /\ (n + 1) - 1 = n
    OBVIOUS
  <2> QED BY <1>5, <2>1
<1>8. \A n \in Nat : Backoffs[n] \in Nat
  <2> DEFINE S == {n \in Nat : Backoffs[n] \in Nat}
  <2>1. 0 \in S
    BY <1>6
  <2>2. \A n \in Nat : n \in S => n + 1 \in S
    BY <1>0, <1>7
  <2> HIDE DEF S
  <2>3. \A n \in Nat : n \in S
    BY <2>1, <2>2, Induction
  <2> QED BY <2>3 DEF S
<1> QED BY <1>6, <1>7, <1>8

(* The sleeps that serve the backoffs, each of them late by up to Lag.     *)
LEMMA DelaysType ==
  /\ Delays(0) = 0
  /\ \A n \in Nat : /\ Delays(n) \in Nat
                    /\ Delays(n + 1) = Delays(n) + BackoffAfter(n + 1) + Lag
<1>1. Lag \in Nat
  BY ToolAssumption
<1>2. Delays(0) = 0
  BY <1>1, BackoffsType DEF Delays
<1>3. ASSUME NEW n \in Nat
      PROVE  /\ Delays(n) \in Nat
             /\ Delays(n + 1) = Delays(n) + BackoffAfter(n + 1) + Lag
  <2>1. /\ Backoffs[n] \in Nat /\ BackoffAfter(n + 1) \in Nat
        /\ Backoffs[n + 1] = Backoffs[n] + BackoffAfter(n + 1)
    BY BackoffsType, BackoffType
  <2>2. n * Lag \in Nat /\ (n + 1) * Lag = n * Lag + Lag
    BY <1>1
  <2> QED BY <1>1, <2>1, <2>2 DEF Delays
<1> QED BY <1>2, <1>3

(* The delays add up: a later attempt has waited longer.                   *)
LEMMA DelaysGrow == \A m, n \in Nat : m <= n => Delays(m) <= Delays(n)
<1> SUFFICES ASSUME NEW m \in Nat PROVE \A n \in Nat : m <= n => Delays(m) <= Delays(n)
  OBVIOUS
<1> DEFINE S == {n \in Nat : m <= n => Delays(m) <= Delays(n)}
<1>1. 0 \in S
  BY DelaysType
<1>2. ASSUME NEW n \in Nat, n \in S PROVE n + 1 \in S
  <2>1. Delays(n) <= Delays(n + 1) /\ Delays(m) \in Nat /\ Delays(n) \in Nat
        /\ Delays(n + 1) \in Nat
    <3>1. BackoffAfter(n + 1) \in Nat /\ Lag \in Nat /\ n + 1 \in Nat
      BY BackoffType, ToolAssumption
    <3> QED BY <3>1, DelaysType
  <2>2. CASE m <= n
    BY <1>2, <2>1, <2>2
  <2>3. CASE m = n + 1
    BY <2>1, <2>3
  <2> QED BY <2>2, <2>3
<1> HIDE DEF S
<1>3. \A n \in Nat : n \in S
  BY <1>1, <1>2, Induction
<1> QED BY <1>3 DEF S

-----------------------------------------------------------------------------
(* A call under way has grown its backoff once for each attempt behind it; *)
(* one that waits for a retry does so because of a transient failure, and  *)
(* sleeps the backoff from that failure on.                                *)
Paced ==
  \A c \in Calls :
    /\ failed[c] <= now
    /\ pc[c] \in Active => attempt[c] >= 1 /\ backoff[c] = BackoffAfter(attempt[c])
    /\ pc[c] \in {"retrying", "sleeping"} => result[c] \in TRANSIENT_ERRORS
    /\ pc[c] = "sleeping" => timer[c] >= failed[c] + backoff[c]

(* A step of one call leaves the others, and the clock, as they are.       *)
LEMMA Frame ==
  ASSUME ToolTypeOK, NEW c \in Calls, Begin(c) \/ Refuse(c) \/ Step(c),
         NEW d \in Calls, d # c
  PROVE  /\ now' = now
         /\ pc'[d] = pc[d] /\ attempt'[d] = attempt[d] /\ backoff'[d] = backoff[d]
         /\ timer'[d] = timer[d] /\ result'[d] = result[d] /\ began'[d] = began[d]
         /\ failed'[d] = failed[d]
<1> USE DEF ToolTypeOK
<1>1. CASE Begin(c) BY <1>1 DEF Begin
<1>2. CASE Refuse(c) BY <1>2 DEF Refuse
<1>3. CASE Start(c) BY <1>3 DEF Start
<1>4. CASE Answer(c) BY <1>4 DEF Answer, EndAttempt
<1>5. CASE Expire(c) BY <1>5 DEF Expire, EndAttempt
<1>6. CASE LateAnswer(c) BY <1>6 DEF LateAnswer, EndAttempt
<1>7. CASE Return(c) BY <1>7 DEF Return
<1>8. CASE Retry(c) BY <1>8 DEF Retry
<1>9. CASE Sleep(c) BY <1>9 DEF Sleep
<1>10. CASE Wake(c) BY <1>10 DEF Wake
<1> QED BY <1>1, <1>2, <1>3, <1>4, <1>5, <1>6, <1>7, <1>8, <1>9, <1>10 DEF Step

(* The backoffs stay those of the policy.                                  *)
LEMMA PacedInv == ToolInv /\ Paced /\ [ToolNext]_toolVars => Paced'
<1> SUFFICES ASSUME ToolInv, Paced, [ToolNext]_toolVars PROVE Paced'
  OBVIOUS
<1> DEFINE P(c) ==
             /\ failed[c] <= now
             /\ pc[c] \in Active => attempt[c] >= 1 /\ backoff[c] = BackoffAfter(attempt[c])
             /\ pc[c] \in {"retrying", "sleeping"} => result[c] \in TRANSIENT_ERRORS
             /\ pc[c] = "sleeping" => timer[c] >= failed[c] + backoff[c]
<1>0. ToolTypeOK /\ \A c \in Calls : P(c)
  BY DEF ToolInv, Paced
<1>1. ASSUME NEW c \in Calls, Begin(c) \/ Refuse(c) \/ Step(c), P(c)' PROVE Paced'
  <2>1. ASSUME NEW d \in Calls, d # c PROVE P(d)'
    BY <1>0, <1>1, <2>1, Frame
  <2> QED BY <1>1, <2>1 DEF Paced
<1>2. ASSUME NEW c \in Calls, Begin(c) \/ Refuse(c) \/ Step(c) PROVE P(c)'
  <2> USE <1>0 DEF ToolTypeOK
  <2>1. CASE Begin(c)
    BY <2>1 DEF Begin, BackoffAfter
  <2>2. CASE Refuse(c)
    BY <2>2 DEF Refuse
  <2>3. CASE Start(c)
    BY <2>3 DEF Start
  <2>4. CASE Answer(c)
    BY <2>4 DEF Answer, EndAttempt
  <2>5. CASE Expire(c)
    BY <2>5 DEF Expire, EndAttempt
  <2>6. CASE LateAnswer(c)
    BY <2>6 DEF LateAnswer, EndAttempt
  <2>7. CASE Return(c)
    BY <2>7 DEF Return
  <2>8. CASE Retry(c)
    BY <2>8 DEF Retry, Settled
  <2>9. CASE Sleep(c)
    <3>1. /\ pc'[c] = "sleeping" /\ timer'[c] = now + backoff[c] /\ pc[c] = "retrying"
          /\ failed' = failed /\ backoff' = backoff /\ now' = now
          /\ attempt' = attempt /\ result' = result
      BY <2>9 DEF Sleep
    <3>2. timer'[c] >= failed[c] + backoff[c]
      BY <3>1
    <3> QED BY <3>1, <3>2
  <2>10. CASE Wake(c)
    <3>1. /\ pc[c] = "sleeping" /\ pc'[c] = "starting"
          /\ attempt'[c] = attempt[c] + 1
          /\ backoff'[c] = Lesser(backoff[c] * BackoffMultiplier, MaxBackoff)
          /\ failed' = failed /\ now' = now
      BY <2>10 DEF Wake
    <3>2. attempt[c] \in Nat \ {0} /\ backoff[c] = BackoffAfter(attempt[c])
      BY <3>1, ToolAssumption
    <3>3. backoff'[c] = BackoffAfter(attempt'[c]) /\ attempt'[c] >= 1
      BY <3>1, <3>2, BackoffStep
    <3> QED BY <3>1, <3>3
  <2> QED
    BY <1>2, <2>1, <2>2, <2>3, <2>4, <2>5, <2>6, <2>7, <2>8, <2>9, <2>10 DEF Step
<1>3. CASE Tick
  BY <1>0, <1>3 DEF Tick, callVars, Paced, ToolTypeOK
<1>4. CASE UNCHANGED toolVars
  BY <1>0, <1>4 DEF toolVars, callVars, Paced
<1> QED BY <1>1, <1>2, <1>3, <1>4 DEF ToolNext, Finished

(* No call waits before one is made.                                       *)
LEMMA PacedInit == ToolInit => Paced
BY DEF ToolInit, Paced

(* Attempts follow each other only after a transient failure, in order and *)
(* not before the backoff of the policy has passed.                        *)
THEOREM RetryTheorem == ToolSpec => RetryDiscipline
<1>1. ToolInv /\ Paced /\ [ToolNext]_toolVars =>
        [\A c \in Calls :
           pc[c] # "idle" /\ attempt'[c] # attempt[c] =>
             /\ result[c] \in TRANSIENT_ERRORS
             /\ attempt'[c] = attempt[c] + 1
             /\ now >= failed[c] + BackoffAfter(attempt[c])]_toolVars
  <2> SUFFICES ASSUME ToolInv, Paced, ToolNext, NEW c \in Calls,
                      pc[c] # "idle", attempt'[c] # attempt[c]
               PROVE  /\ result[c] \in TRANSIENT_ERRORS
                      /\ attempt'[c] = attempt[c] + 1
                      /\ now >= failed[c] + BackoffAfter(attempt[c])
    OBVIOUS
  <2>1. ToolTypeOK
    BY DEF ToolInv
  <2>2. Step(c)
    <3>1. ASSUME NEW d \in Calls, Begin(d) \/ Refuse(d) \/ Step(d) PROVE d = c
      BY <2>1, <3>1, Frame
    <3>2. ~(Tick \/ Finished)
      BY DEF Tick, Finished, toolVars, callVars
    <3> QED BY <3>1, <3>2 DEF ToolNext, Fresh
  <2>3. Wake(c)
    <3>1. ~Start(c) /\ ~Return(c) /\ ~Retry(c) /\ ~Sleep(c)
      BY DEF Start, Return, Retry, Sleep
    <3>2. ~Answer(c) /\ ~Expire(c) /\ ~LateAnswer(c)
      BY DEF Answer, Expire, LateAnswer, EndAttempt
    <3> QED BY <2>2, <3>1, <3>2 DEF Step
  <2>4. /\ pc[c] = "sleeping" /\ now >= timer[c] /\ attempt'[c] = attempt[c] + 1
        /\ backoff[c] \in Nat /\ timer[c] \in Nat /\ now \in Nat /\ failed[c] \in Nat
    BY <2>1, <2>3 DEF Wake, ToolTypeOK
  <2>5. /\ backoff[c] = BackoffAfter(attempt[c]) /\ timer[c] >= failed[c] + backoff[c]
        /\ result[c] \in TRANSIENT_ERRORS
    BY <2>4 DEF Paced
  <2> QED BY <2>4, <2>5
<1> QED
  BY <1>1, ToolInitInv, ToolNextInv, PacedInit, PacedInv, PTL DEF ToolSpec, RetryDiscipline

-----------------------------------------------------------------------------
(* Before attempt n all the backoffs before it have passed; the last       *)
(* attempt's failure has them all behind it.                               *)
Patient(c) ==
  /\ pc[c] \in {"starting", "running", "expiring"} =>
       now >= began[c] + Backoffs[attempt[c] - 1]
  /\ pc[c] \in {"ending", "retrying", "sleeping"} =>
       failed[c] >= began[c] + Backoffs[attempt[c] - 1]
  /\ pc[c] = "done" /\ result[c] \in TRANSIENT_ERRORS =>
       failed[c] >= began[c] + Backoffs[MaxAttempts - 1]

PatientInv == ToolInv /\ Paced /\ \A c \in Calls : Patient(c)

(* No call has failed before one is made.                                  *)
LEMMA PatientInit == ToolInit => PatientInv
BY ToolInitInv, PacedInit
   DEF ToolInit, PatientInv, Patient, TRANSIENT_ERRORS

(* One step of a call, by its state.                                       *)
LEMMA PatientStep ==
  ASSUME PatientInv, NEW c \in Calls, Begin(c) \/ Refuse(c) \/ Step(c)
  PROVE  Patient(c)'
<1> DEFINE a == attempt[c]
           sofar == Backoffs[a - 1]
<1>0. /\ now \in Nat /\ began[c] \in Nat /\ failed[c] \in Nat /\ failed[c] <= now
      /\ pc \in [Calls -> States] /\ attempt \in [Calls -> 0..MaxAttempts]
      /\ began \in [Calls -> Nat] /\ failed \in [Calls -> Nat]
      /\ timer \in [Calls -> Nat] /\ backoff \in [Calls -> Nat]
      /\ result \in [Calls -> Outcomes \cup {"none"}]
  BY DEF PatientInv, ToolInv, ToolTypeOK, Paced
<1>1. Patient(c)
  BY DEF PatientInv
<1>2. pc[c] \in Active => a \in Nat \ {0} /\ a - 1 \in Nat /\ sofar \in Nat
  <2>1. pc[c] \in Active => a \in Nat \ {0} /\ a - 1 \in Nat
    BY <1>0, ToolAssumption DEF PatientInv, Paced
  <2> QED BY <2>1, BackoffsType
<1>3. CASE Begin(c)
  <2>1. pc'[c] = "starting" /\ attempt'[c] = 1 /\ began'[c] = now /\ now' = now
    BY <1>0, <1>3 DEF Begin
  <2>2. Backoffs[attempt'[c] - 1] = 0
    BY <2>1, BackoffsType
  <2> QED BY <1>0, <2>1, <2>2 DEF Patient
<1>4. CASE Refuse(c)
  <2>1. pc'[c] = "done" /\ result'[c] = "PARSE_ERROR"
    BY <1>0, <1>4 DEF Refuse
  <2> QED BY <2>1 DEF Patient, TRANSIENT_ERRORS
<1>5. CASE Start(c)
  <2>1. /\ pc[c] = "starting" /\ pc'[c] = "running" /\ now' = now
        /\ attempt' = attempt /\ began' = began
    BY <1>0, <1>5 DEF Start
  <2> QED BY <1>1, <2>1 DEF Patient
<1>6. ASSUME pc[c] \in {"running", "expiring"}, NEW r, EndAttempt(c, r)
      PROVE  Patient(c)'
  <2>1. /\ pc'[c] = "ending" /\ failed'[c] = now
        /\ attempt' = attempt /\ began' = began
    BY <1>0, <1>6 DEF EndAttempt
  <2> QED BY <1>1, <1>6, <2>1 DEF Patient
<1>7. CASE Answer(c) \/ LateAnswer(c)
  BY <1>6, <1>7 DEF Answer, LateAnswer
<1>8. CASE Expire(c)
  <2>1. CASE EndAttempt(c, "TIMEOUT")
    BY <1>6, <1>8, <2>1 DEF Expire
  <2>2. CASE /\ Park(c, "expiring", now)
             /\ UNCHANGED <<now, attempt, backoff, result, began, failed>>
    <3>1. pc[c] = "running" /\ pc'[c] = "expiring"
      BY <1>0, <1>8, <2>2 DEF Expire
    <3> QED BY <1>1, <2>2, <3>1 DEF Patient
  <2> QED BY <1>8, <2>1, <2>2 DEF Expire
<1>9. CASE Return(c)
  <2>1. /\ pc[c] = "ending" /\ pc'[c] = "done" /\ Settled(c)
        /\ attempt' = attempt /\ began' = began /\ failed' = failed /\ result' = result
    BY <1>0, <1>9 DEF Return
  <2>2. result[c] \in TRANSIENT_ERRORS => a = MaxAttempts
    BY <1>0, <2>1, ToolAssumption DEF Settled
  <2> QED BY <1>1, <2>1, <2>2 DEF Patient
<1>10. CASE Retry(c)
  <2>1. /\ pc[c] = "ending" /\ pc'[c] = "retrying"
        /\ attempt' = attempt /\ began' = began /\ failed' = failed
    BY <1>0, <1>10 DEF Retry
  <2> QED BY <1>1, <2>1 DEF Patient
<1>11. CASE Sleep(c)
  <2>1. /\ pc[c] = "retrying" /\ pc'[c] = "sleeping"
        /\ attempt' = attempt /\ began' = began /\ failed' = failed
    BY <1>0, <1>11 DEF Sleep
  <2> QED BY <1>1, <2>1 DEF Patient
<1>12. CASE Wake(c)
  <2>1. /\ pc[c] = "sleeping" /\ pc'[c] = "starting" /\ now >= timer[c]
        /\ attempt'[c] = a + 1 /\ began' = began /\ now' = now
    BY <1>0, <1>12 DEF Wake
  <2>2. backoff[c] = BackoffAfter(a) /\ timer[c] >= failed[c] + backoff[c]
    BY <2>1 DEF PatientInv, Paced
  <2>3. failed[c] >= began[c] + sofar
    BY <1>1, <2>1 DEF Patient
  <2>4. Backoffs[(a + 1) - 1] = sofar + BackoffAfter(a) /\ BackoffAfter(a) \in Nat
    <3>1. (a + 1) - 1 = (a - 1) + 1 /\ (a - 1) + 1 = a
      BY <1>2, <2>1
    <3> QED BY <1>2, <2>1, <3>1, BackoffsType, BackoffType
  <2>5. timer[c] \in Nat /\ sofar \in Nat
    BY <1>0, <1>2, <2>1
  <2>6. now >= began[c] + (sofar + BackoffAfter(a))
    <3> HIDE DEF a, sofar
    <3> QED BY <1>0, <2>1, <2>2, <2>3, <2>4, <2>5
  <2> QED BY <2>1, <2>4, <2>6 DEF Patient
<1> QED
  BY <1>3, <1>4, <1>5, <1>7, <1>8, <1>9, <1>10, <1>11, <1>12 DEF Step

(* No step of the engine makes a call impatient.                           *)
LEMMA PatientNext == PatientInv /\ [ToolNext]_toolVars => PatientInv'
<1> SUFFICES ASSUME PatientInv, [ToolNext]_toolVars PROVE PatientInv'
  OBVIOUS
<1>1. ToolInv' /\ Paced'
  BY ToolNextInv, PacedInv DEF PatientInv
<1>2. SUFFICES ASSUME NEW d \in Calls PROVE Patient(d)'
  BY <1>1 DEF PatientInv
<1>3. Patient(d) /\ ToolTypeOK /\ Paced
  BY DEF PatientInv, ToolInv
<1>4. ASSUME NEW c \in Calls, Begin(c) \/ Refuse(c) \/ Step(c) PROVE Patient(d)'
  <2>1. CASE c = d
    BY <1>4, <2>1, PatientStep
  <2>2. CASE c # d
    BY <1>3, <1>4, <2>2, Frame DEF Patient
  <2> QED BY <2>1, <2>2
<1>5. CASE Tick
  <2>1. now' = now + 1 /\ UNCHANGED callVars
    BY <1>5 DEF Tick
  <2>2. pc[d] \in {"starting", "running", "expiring"} =>
          now + 1 >= began[d] + Backoffs[attempt[d] - 1]
    <3> SUFFICES ASSUME pc[d] \in {"starting", "running", "expiring"}
                 PROVE  now + 1 >= began[d] + Backoffs[attempt[d] - 1]
      OBVIOUS
    <3>1. attempt[d] - 1 \in Nat
      BY <1>3, ToolAssumption DEF Paced, ToolTypeOK
    <3>2. Backoffs[attempt[d] - 1] \in Nat
      BY <3>1, BackoffsType
    <3> QED BY <1>3, <3>2 DEF Patient, ToolTypeOK
  <2> QED BY <1>3, <2>1, <2>2 DEF Patient, callVars
<1>6. CASE UNCHANGED toolVars
  BY <1>3, <1>6 DEF toolVars, callVars, Patient
<1> QED BY <1>4, <1>5, <1>6 DEF ToolNext, Finished

(* A transient error comes back no sooner than all the backoffs together.  *)
THEOREM PatienceTheorem == ToolSpec => []GivesUpNoSooner
<1>1. PatientInv => GivesUpNoSooner
  BY DEF PatientInv, Patient, GivesUpNoSooner
<1> QED BY <1>1, PatientInit, PatientNext, PTL DEF ToolSpec

-----------------------------------------------------------------------------
(* When attempt n starts at the latest, counted from the call's begin.     *)
Due(n) == (n - 1) * (CallTimeout + 4 * Lag) + Delays(n - 1)

(* The next attempt is due a timeout and a backoff later.                  *)
LEMMA DueStep ==
  \A n \in Nat \ {0} :
    /\ Due(n) \in Nat
    /\ Due(n + 1) = Due(n) + CallTimeout + BackoffAfter(n) + 5 * Lag
    /\ BackoffAfter(n) \in Nat
<1> SUFFICES ASSUME NEW n \in Nat \ {0}
             PROVE  /\ Due(n) \in Nat
                    /\ Due(n + 1) = Due(n) + CallTimeout + BackoffAfter(n) + 5 * Lag
                    /\ BackoffAfter(n) \in Nat
  OBVIOUS
<1> DEFINE period == CallTimeout + 4 * Lag
           m == n - 1
<1>1. CallTimeout \in Nat /\ Lag \in Nat /\ period \in Nat
  BY ToolAssumption
<1>2. m \in Nat /\ n = m + 1 /\ (n + 1) - 1 = m + 1
  OBVIOUS
<1>3. Delays(m) \in Nat /\ Delays(m + 1) = Delays(m) + BackoffAfter(m + 1) + Lag
  BY <1>2, DelaysType
<1>4. BackoffAfter(m + 1) \in Nat
  BY <1>2, BackoffType
<1>5. Due(n) = m * period + Delays(m) /\ Due(n + 1) = (m + 1) * period + Delays(m + 1)
  BY <1>2 DEF Due
<1>6. (m + 1) * period = m * period + period /\ m * period \in Nat
  <2> HIDE DEF m, period
  <2> QED BY <1>1, <1>2
<1> DEFINE p == m * period
           q == (m + 1) * period
           b == BackoffAfter(m + 1)
           d == Delays(m)
           e == Delays(m + 1)
<1>7. /\ p \in Nat /\ q = p + CallTimeout + 4 * Lag /\ b \in Nat /\ d \in Nat
      /\ e = d + b + Lag /\ Due(n) = p + d /\ Due(n + 1) = q + e
      /\ BackoffAfter(n) = b
  <2>1. q = p + period
    BY <1>6
  <2>2. p \in Nat
    BY <1>6
  <2> HIDE DEF p, q
  <2>3. q = p + CallTimeout + 4 * Lag
    BY <1>1, <2>1, <2>2
  <2>4. Due(n) = p + d /\ Due(n + 1) = q + e
    BY <1>5 DEF p, q
  <2> QED BY <1>2, <1>3, <1>4, <2>2, <2>3, <2>4
<1> HIDE DEF p, q, b, d, e
<1> QED BY <1>1, <1>7

(* The last attempt leaves room for its timeout and its awaits.            *)
LEMMA DueBound ==
  \A n \in 1..MaxAttempts :
    LatencyBound \in Nat /\ Due(n) + CallTimeout + 4 * Lag <= LatencyBound
<1> SUFFICES ASSUME NEW n \in 1..MaxAttempts
             PROVE  LatencyBound \in Nat /\ Due(n) + CallTimeout + 4 * Lag <= LatencyBound
  OBVIOUS
<1> DEFINE period == CallTimeout + 4 * Lag
           m == n - 1
           r == MaxAttempts - n
           last == MaxAttempts - 1
<1>0. CallTimeout \in Nat /\ Lag \in Nat /\ MaxAttempts \in Nat \ {0}
  BY ToolAssumption
<1>1. period \in Nat
  BY <1>0
<1>2. m \in Nat /\ last \in Nat /\ r \in Nat /\ m <= last
      /\ MaxAttempts = m + 1 + r
  BY <1>0
<1>3. Delays(m) \in Nat /\ Delays(last) \in Nat /\ Delays(m) <= Delays(last)
  <2> HIDE DEF m, last
  <2> QED BY <1>2, DelaysType, DelaysGrow
<1>4. /\ MaxAttempts * period = m * period + period + r * period
      /\ m * period \in Nat /\ r * period \in Nat
  <2> HIDE DEF m, r, period
  <2> QED BY <1>1, <1>2
<1> DEFINE p == m * period
           t == r * period
           d == Delays(m)
           e == Delays(last)
<1>5. LatencyBound = (p + period + t) + e
  BY <1>4 DEF LatencyBound
<1>6. Due(n) = p + d
  BY DEF Due
<1>7. p \in Nat /\ t \in Nat /\ d \in Nat /\ e \in Nat /\ d <= e
  BY <1>3, <1>4
<1> HIDE DEF p, t, d, e
<1>8. period = CallTimeout + 4 * Lag
  OBVIOUS
<1> HIDE DEF period
<1> QED BY <1>0, <1>1, <1>5, <1>6, <1>7, <1>8

(* Where a call whose adapter honours cancellation has got, and by when.   *)
InTime(c) ==
  LET elapsed == began[c] + Due(attempt[c])
  IN  /\ pc[c] # "expiring"
      /\ pc[c] \in Timed => now <= timer[c] + Lag
      /\ pc[c] = "starting" => timer[c] <= elapsed
      /\ pc[c] = "running" => timer[c] <= elapsed + CallTimeout + Lag
      /\ pc[c] = "ending" => timer[c] <= elapsed + CallTimeout + 2 * Lag
      /\ pc[c] = "retrying" => timer[c] <= elapsed + CallTimeout + 3 * Lag
      /\ pc[c] = "sleeping" => timer[c] <= elapsed + CallTimeout + 4 * Lag + backoff[c]

LatencyInv == ToolInv /\ Paced /\ \A c \in Calls \ Stubborn : InTime(c)

(* No call is late before one is made.                                     *)
LEMMA LatencyInit == ToolInit => LatencyInv
BY ToolInitInv, PacedInit DEF ToolInit, LatencyInv, InTime

(* One step of a call, by its state.                                       *)
LEMMA InTimeStep ==
  ASSUME LatencyInv, NEW c \in Calls \ Stubborn,
         Begin(c) \/ Refuse(c) \/ Step(c)
  PROVE  InTime(c)'
<1> DEFINE a == attempt[c]
           b == backoff[c]
           elapsed == began[c] + Due(a)
<1>0. /\ now \in Nat /\ began[c] \in Nat /\ timer[c] \in Nat /\ b \in Nat
      /\ CallTimeout \in Nat /\ Lag \in Nat
      /\ pc \in [Calls -> States] /\ attempt \in [Calls -> 0..MaxAttempts]
      /\ backoff \in [Calls -> Nat] /\ timer \in [Calls -> Nat]
      /\ began \in [Calls -> Nat] /\ c \in Calls
  BY ToolAssumption DEF LatencyInv, ToolInv, ToolTypeOK
<1>1. InTime(c)
  BY DEF LatencyInv
<1>2. pc[c] \in Active => a \in Nat \ {0} /\ b = BackoffAfter(a) /\ elapsed \in Nat
  <2> SUFFICES ASSUME pc[c] \in Active PROVE a \in Nat \ {0} /\ b = BackoffAfter(a) /\ elapsed \in Nat
    OBVIOUS
  <2>1. a \in Nat \ {0} /\ b = BackoffAfter(a)
    BY <1>0, ToolAssumption DEF LatencyInv, Paced
  <2>2. Due(a) \in Nat
    BY <2>1, DueStep
  <2> QED BY <1>0, <2>1, <2>2
<1>3. CASE Begin(c)
  <2>1. /\ pc'[c] = "starting" /\ timer'[c] = now /\ attempt'[c] = 1
        /\ began'[c] = now /\ now' = now
    BY <1>0, <1>3 DEF Begin
  <2>2. Due(1) \in Nat
    BY DueStep
  <2> QED BY <1>0, <2>1, <2>2 DEF InTime
<1>4. CASE Refuse(c)
  <2>1. pc'[c] = "done"
    BY <1>0, <1>4 DEF Refuse
  <2> QED BY <2>1 DEF InTime
<1>5. CASE Start(c)
  <2>1. /\ pc[c] = "starting" /\ pc'[c] = "running" /\ timer'[c] = now + CallTimeout
        /\ now' = now /\ began'[c] = began[c] /\ attempt'[c] = a
    BY <1>0, <1>5 DEF Start
  <2>2. now <= timer[c] + Lag /\ timer[c] <= elapsed
    BY <1>1, <2>1 DEF InTime
  <2>3. timer'[c] <= elapsed + CallTimeout + Lag /\ now <= timer'[c] + Lag
    <3> HIDE DEF elapsed
    <3> QED BY <1>0, <1>2, <2>1, <2>2
  <2> QED BY <2>1, <2>3 DEF InTime
<1>6. CASE Answer(c) \/ Expire(c) \/ LateAnswer(c)
  <2>1. pc[c] = "running" /\ \E r : EndAttempt(c, r)
    BY <1>1, <1>6 DEF Answer, Expire, LateAnswer, InTime
  <2>2. /\ pc'[c] = "ending" /\ timer'[c] = now
        /\ now' = now /\ began'[c] = began[c] /\ attempt'[c] = a
    BY <1>0, <2>1 DEF EndAttempt
  <2>3. now <= timer[c] + Lag /\ timer[c] <= elapsed + CallTimeout + Lag
    BY <1>1, <2>1 DEF InTime
  <2>4. timer'[c] <= elapsed + CallTimeout + 2 * Lag /\ now <= timer'[c] + Lag
    <3> HIDE DEF elapsed
    <3> QED BY <1>0, <1>2, <2>1, <2>2, <2>3
  <2> QED BY <2>2, <2>4 DEF InTime
<1>7. CASE Return(c)
  <2>1. pc'[c] = "done"
    BY <1>0, <1>7 DEF Return
  <2> QED BY <2>1 DEF InTime
<1>8. CASE Retry(c)
  <2>1. /\ pc[c] = "ending" /\ pc'[c] = "retrying" /\ timer'[c] = now
        /\ now' = now /\ began'[c] = began[c] /\ attempt'[c] = a
    BY <1>0, <1>8 DEF Retry
  <2>2. now <= timer[c] + Lag /\ timer[c] <= elapsed + CallTimeout + 2 * Lag
    BY <1>1, <2>1 DEF InTime
  <2>3. timer'[c] <= elapsed + CallTimeout + 3 * Lag /\ now <= timer'[c] + Lag
    <3> HIDE DEF elapsed
    <3> QED BY <1>0, <1>2, <2>1, <2>2
  <2> QED BY <2>1, <2>3 DEF InTime
<1>9. CASE Sleep(c)
  <2>1. /\ pc[c] = "retrying" /\ pc'[c] = "sleeping" /\ timer'[c] = now + b
        /\ now' = now /\ began'[c] = began[c] /\ attempt'[c] = a /\ backoff'[c] = b
    BY <1>0, <1>9 DEF Sleep
  <2>2. now <= timer[c] + Lag /\ timer[c] <= elapsed + CallTimeout + 3 * Lag
    BY <1>1, <2>1 DEF InTime
  <2>3. timer'[c] <= elapsed + CallTimeout + 4 * Lag + b /\ now <= timer'[c] + Lag
    <3> HIDE DEF elapsed, b
    <3> QED BY <1>0, <1>2, <2>1, <2>2
  <2> QED BY <2>1, <2>3 DEF InTime
<1>10. CASE Wake(c)
  <2>1. /\ pc[c] = "sleeping" /\ pc'[c] = "starting" /\ timer'[c] = now
        /\ now' = now /\ began'[c] = began[c] /\ attempt'[c] = a + 1
    BY <1>0, <1>10 DEF Wake
  <2>2. now <= timer[c] + Lag /\ timer[c] <= elapsed + CallTimeout + 4 * Lag + b
    BY <1>1, <2>1 DEF InTime
  <2>3. Due(a + 1) = Due(a) + CallTimeout + b + 5 * Lag /\ Due(a) \in Nat
    BY <1>2, <2>1, DueStep
  <2>4. began[c] + Due(a + 1) = elapsed + CallTimeout + b + 5 * Lag
    <3> HIDE DEF a, b
    <3> QED BY <1>0, <2>3
  <2>5. timer'[c] <= began[c] + Due(a + 1) /\ now <= timer'[c] + Lag
    <3> HIDE DEF elapsed, a, b
    <3> QED BY <1>0, <1>2, <2>1, <2>2, <2>4
  <2> QED BY <2>1, <2>5 DEF InTime
<1> QED
  BY <1>3, <1>4, <1>5, <1>6, <1>7, <1>8, <1>9, <1>10 DEF Step

(* No step of the engine makes a call late.                                *)
LEMMA LatencyNext == LatencyInv /\ [ToolNext]_toolVars => LatencyInv'
<1> SUFFICES ASSUME LatencyInv, [ToolNext]_toolVars PROVE LatencyInv'
  OBVIOUS
<1>1. ToolInv' /\ Paced'
  BY ToolNextInv, PacedInv DEF LatencyInv
<1>2. SUFFICES ASSUME NEW d \in Calls \ Stubborn PROVE InTime(d)'
  BY <1>1 DEF LatencyInv
<1>3. InTime(d) /\ ToolTypeOK
  BY DEF LatencyInv, ToolInv
<1>4. ASSUME NEW c \in Calls, Begin(c) \/ Refuse(c) \/ Step(c) PROVE InTime(d)'
  <2>1. CASE c = d
    BY <1>4, <2>1, InTimeStep
  <2>2. CASE c # d
    BY <1>3, <1>4, <2>2, Frame DEF InTime
  <2> QED BY <2>1, <2>2
<1>5. CASE Tick
  <2>1. now' = now + 1 /\ UNCHANGED callVars /\ Punctual(d)
    BY <1>5 DEF Tick
  <2>2. pc[d] \in Timed => now + 1 <= timer[d] + Lag
    BY <1>3, <2>1, ToolAssumption DEF Punctual, ToolTypeOK
  <2> QED BY <1>3, <2>1, <2>2 DEF InTime, callVars
<1>6. CASE UNCHANGED toolVars
  BY <1>3, <1>6 DEF toolVars, callVars, InTime
<1> QED BY <1>4, <1>5, <1>6 DEF ToolNext, Finished

(* A call whose adapter honours cancellation is over in time, whatever its *)
(* attempts run into.                                                      *)
THEOREM LatencyTheorem == ToolSpec => []CallLatencyBounded
<1>1. LatencyInv => CallLatencyBounded
  <2> SUFFICES ASSUME LatencyInv, NEW c \in Calls \ Stubborn, pc[c] \in Active
               PROVE  now <= began[c] + LatencyBound
    BY DEF CallLatencyBounded
  <2> DEFINE a == attempt[c]
             b == backoff[c]
             elapsed == Due(a)
  <2>1. InTime(c)
    BY DEF LatencyInv
  <2>2. /\ now \in Nat /\ began[c] \in Nat /\ timer[c] \in Nat /\ b \in Nat
        /\ a \in 1..MaxAttempts /\ b = BackoffAfter(a)
        /\ CallTimeout \in Nat /\ Lag \in Nat /\ MaxAttempts \in Nat
    BY ToolAssumption DEF LatencyInv, ToolInv, ToolTypeOK, Paced
  <2>3. elapsed \in Nat /\ LatencyBound \in Nat /\ elapsed + CallTimeout + 4 * Lag <= LatencyBound
    BY <2>2, DueStep, DueBound
  <2>4. CASE pc[c] \in {"starting", "running", "ending", "retrying"}
    <3>1. now <= timer[c] + Lag /\ timer[c] <= (began[c] + elapsed) + CallTimeout + 3 * Lag
      <4>1. \/ timer[c] <= (began[c] + elapsed)
            \/ timer[c] <= (began[c] + elapsed) + CallTimeout + Lag
            \/ timer[c] <= (began[c] + elapsed) + CallTimeout + 2 * Lag
            \/ timer[c] <= (began[c] + elapsed) + CallTimeout + 3 * Lag
        BY <2>1, <2>4 DEF InTime
      <4>2. now <= timer[c] + Lag
        BY <2>1, <2>4 DEF InTime
      <4> HIDE DEF elapsed
      <4> QED BY <2>2, <2>3, <4>1, <4>2
    <3> HIDE DEF elapsed
    <3> QED BY <2>2, <2>3, <3>1
  <2>5. CASE pc[c] = "sleeping"
    <3>1. now <= timer[c] + Lag /\ timer[c] <= (began[c] + elapsed) + CallTimeout + 4 * Lag + b
      BY <2>1, <2>5 DEF InTime
    <3>2. a + 1 \in 1..MaxAttempts
      BY <2>2, <2>5 DEF LatencyInv, ToolInv, RetryLeft
    <3>3. Due(a + 1) = elapsed + CallTimeout + b + 5 * Lag
      BY <2>2, DueStep
    <3>4. Due(a + 1) + CallTimeout + 4 * Lag <= LatencyBound
      BY <3>2, DueBound
    <3> HIDE DEF elapsed, b
    <3> QED BY <2>2, <2>3, <3>1, <3>3, <3>4
  <2> QED BY <2>1, <2>4, <2>5 DEF InTime
<1> QED BY <1>1, LatencyInit, LatencyNext, PTL DEF ToolSpec

-----------------------------------------------------------------------------
(* AskTool: the engine over the channel.                                   *)

(* A success is settled: its call is past its last attempt, whose question *)
(* was answered.                                                           *)
OkSettles ==
  \A c \in Asking :
    result[c] = "ok" => pc[c] \in {"ending", "done"} /\ future[Latest(c)] = "answered"

AskTypeOK ==
  /\ pc \in [Calls -> States]
  /\ attempt \in [Calls -> Nat]
  /\ result \in [Calls -> Outcomes \cup {"none"}]
  /\ future \in [Questions -> {"none", "open", "answered", "cancelled"}]

ShownFirst == \A q \in Questions : future[q] = "answered" => q \in shown

AskInv == AskTypeOK /\ NoStrayQuestion /\ ShownFirst /\ OkSettles

USE AskAssumption DEF Park, States, Active, Timed, Questions, Latest

(* No question is open before a call is made.                              *)
LEMMA AskInitInv == AskInit => AskInv
BY ToolAssumption DEF AskInit, ToolInit, AskInv, AskTypeOK, NoStrayQuestion, ShownFirst,
   OkSettles

(* Entering a call opens no question and closes none.                      *)
LEMMA AskEnterInv ==
  ASSUME AskInv, NEW c \in Calls, Enter(c)
  PROVE  AskInv'
<1>1. CASE Begin(c)
  BY <1>1 DEF Enter, Fresh, Begin, channelVars, AskInv, AskTypeOK, NoStrayQuestion,
     ShownFirst, OkSettles
<1>2. CASE Refuse(c)
  BY <1>2 DEF Enter, Fresh, Refuse, channelVars, AskInv, AskTypeOK, NoStrayQuestion,
     ShownFirst, OkSettles, Outcomes, Categories
<1> QED BY <1>1, <1>2 DEF Enter

(* The three steps of an asking call.                                      *)
LEMMA AskingInv ==
  ASSUME AskInv, NEW c \in Asking, AskStarts(c) \/ AskReturns(c) \/ AskExpires(c)
  PROVE  AskInv'
<1> USE DEF AskInv, AskTypeOK, NoStrayQuestion, ShownFirst, OkSettles
<1> c \in Calls /\ Latest(c)[1] = c
  BY DEF Latest
<1>1. CASE AskStarts(c)
  <2>1. /\ pc' = [pc EXCEPT ![c] = "running"] /\ pc[c] = "starting"
        /\ future' = [future EXCEPT ![Latest(c)] = "open"]
        /\ UNCHANGED <<attempt, result, shown>>
    BY <1>1 DEF AskStarts, Start
  <2>2. AskTypeOK'
    BY <2>1
  <2>3. NoStrayQuestion' /\ ShownFirst'
    <3>1. ASSUME NEW q \in Questions
          PROVE  \/ q = Latest(c) /\ future'[q] = "open"
                 \/ q # Latest(c) /\ future'[q] = future[q]
      BY <2>1
    <3> QED BY <2>1, <3>1
  <2>4. OkSettles'
    <3>1. ASSUME NEW d \in Asking, result[d] = "ok"
          PROVE  /\ d # c /\ Latest(d) # Latest(c)
                 /\ future'[Latest(d)] = future[Latest(d)]
      BY <2>1, <3>1
    <3> QED BY <2>1, <3>1
  <2> QED BY <2>2, <2>3, <2>4
<1>2. CASE AskReturns(c)
  BY <1>2 DEF AskReturns, EndAttempt, channelVars, Outcomes
<1>3. CASE AskExpires(c)
  <2>1. /\ pc' = [pc EXCEPT ![c] = "ending"] /\ pc[c] = "running"
        /\ future' = [future EXCEPT ![Latest(c)] = IF @ = "open" THEN "cancelled" ELSE @]
        /\ result' = [result EXCEPT ![c] = "TIMEOUT"]
        /\ UNCHANGED <<attempt, shown>>
    BY <1>3 DEF AskExpires, Expire, EndAttempt
  <2>2. AskTypeOK'
    BY <2>1 DEF Outcomes, Categories
  <2>3. NoStrayQuestion' /\ ShownFirst'
    <3>1. ASSUME NEW q \in Questions
          PROVE  \/ q = Latest(c) /\ future'[q] # "open"
                       /\ (future'[q] = "answered" => future[q] = "answered")
                 \/ q # Latest(c) /\ future'[q] = future[q]
      BY <2>1
    <3> QED BY <2>1, <3>1
  <2>4. OkSettles'
    <3>1. ASSUME NEW d \in Asking, result'[d] = "ok"
          PROVE  /\ d # c /\ Latest(d) # Latest(c) /\ result[d] = "ok"
                 /\ future'[Latest(d)] = future[Latest(d)]
      BY <2>1, <3>1
    <3> QED BY <2>1, <3>1
  <2> QED BY <2>2, <2>3, <2>4
<1> QED BY <1>1, <1>2, <1>3

(* The steps the channel has no part in.                                   *)
LEMMA PlainInv ==
  ASSUME AskInv, NEW c \in Calls, UNCHANGED channelVars,
         \/ Return(c) \/ Retry(c) \/ Sleep(c) \/ Wake(c)
         \/ c \notin Asking /\ (Start(c) \/ Expire(c) \/ Answer(c) \/ LateAnswer(c))
  PROVE  AskInv'
<1> USE DEF AskInv, AskTypeOK, NoStrayQuestion, ShownFirst, OkSettles, channelVars
<1>1. CASE Return(c) BY <1>1 DEF Return
<1>2. CASE Retry(c) BY <1>2 DEF Retry, Settled, TRANSIENT_ERRORS
<1>3. CASE Sleep(c) BY <1>3 DEF Sleep
<1>4. CASE Wake(c)
  <2>1. /\ pc' = [pc EXCEPT ![c] = "starting"] /\ pc[c] = "sleeping"
        /\ attempt' = [attempt EXCEPT ![c] = @ + 1]
        /\ UNCHANGED <<result, future, shown>>
    BY <1>4 DEF Wake
  <2>2. AskTypeOK' /\ ShownFirst'
    BY <2>1
  <2>3. NoStrayQuestion'
    <3>1. ASSUME NEW q \in Questions, future[q] = "open"
          PROVE  q[1] # c /\ q[1] \in Calls
      BY <2>1, <3>1
    <3> QED BY <2>1, <3>1
  <2>4. OkSettles'
    <3>1. ASSUME NEW d \in Asking, result[d] = "ok" PROVE d # c /\ d \in Calls
      BY <2>1, <3>1
    <3> QED BY <2>1, <3>1
  <2> QED BY <2>2, <2>3, <2>4
<1>5. CASE c \notin Asking /\ Start(c) BY <1>5 DEF Start
<1>6. CASE c \notin Asking /\ Expire(c)
  BY <1>6 DEF Expire, EndAttempt, Outcomes, Categories
<1>7. CASE c \notin Asking /\ (Answer(c) \/ LateAnswer(c))
  BY <1>7, YieldsType DEF Answer, LateAnswer, EndAttempt
<1> QED BY <1>1, <1>2, <1>3, <1>4, <1>5, <1>6, <1>7

(* The application's two steps: an answer closes what it answers, and only *)
(* a question that was shown.                                              *)
LEMMA ChannelInv ==
  ASSUME AskInv, Take \/ \E q \in Questions : SubmitAnswer(q)
  PROVE  AskInv'
<1> USE DEF AskInv, AskTypeOK, NoStrayQuestion, ShownFirst, OkSettles, toolVars, callVars
<1>1. CASE Take
  BY <1>1 DEF Take
<1>2. ASSUME NEW q \in Questions, SubmitAnswer(q) PROVE AskInv'
  BY <1>2 DEF SubmitAnswer
<1> QED BY <1>1, <1>2

(* Every step of engine and channel keeps AskInv.                          *)
LEMMA AskNextInv == AskInv /\ [AskNext]_askVars => AskInv'
<1> SUFFICES ASSUME AskInv, [AskNext]_askVars PROVE AskInv'
  OBVIOUS
<1>1. ASSUME NEW c \in Calls, Enter(c) \/ Owed(c) \/ Tells(c) PROVE AskInv'
  BY <1>1, AskEnterInv, AskingInv, PlainInv DEF Owed, Tells
<1>2. CASE Take \/ \E q \in Questions : SubmitAnswer(q)
  BY <1>2, ChannelInv
<1>3. CASE AskTick
  BY <1>3 DEF AskTick, Tick, callVars, channelVars, AskInv, AskTypeOK,
     NoStrayQuestion, ShownFirst, OkSettles
<1>4. CASE UNCHANGED askVars
  BY <1>4 DEF askVars, toolVars, callVars, channelVars, AskInv, AskTypeOK,
     NoStrayQuestion, ShownFirst, OkSettles
<1> QED
  BY <1>1, <1>2, <1>3, <1>4 DEF AskNext, AskFinished, Finished, askVars

-----------------------------------------------------------------------------
(* At most one question of a call is open, the one it waits for, whatever  *)
(* timeouts and retries have left with the user.                           *)
THEOREM StrayTheorem == AskSpec => []NoStrayQuestion
<1>1. AskInv => NoStrayQuestion
  BY DEF AskInv
<1> QED BY <1>1, AskInitInv, AskNextInv, PTL DEF AskSpec

(* No late answer passes for an answer to the retry.                       *)
THEOREM OwnQuestionTheorem == AskSpec => []AnswersOwnQuestion
<1>1. AskInv => AnswersOwnQuestion
  BY DEF AskInv, ShownFirst, OkSettles, AnswersOwnQuestion
<1> QED BY <1>1, AskInitInv, AskNextInv, PTL DEF AskSpec

(* Every step of the composition is a step of the engine or leaves the     *)
(* engine alone.                                                           *)
LEMMA AskStepIsToolStep == [AskNext]_askVars => [ToolNext]_toolVars
<1> SUFFICES ASSUME AskNext \/ UNCHANGED askVars
             PROVE  ToolNext \/ UNCHANGED toolVars
  OBVIOUS
<1>1. ASSUME NEW c \in Calls, Enter(c) PROVE ToolNext
  BY <1>1 DEF Enter, ToolNext
<1>2. ASSUME NEW c \in Calls, Owed(c) \/ Tells(c) PROVE Step(c)
  <2>1. "ok" \in Yields
    BY DEF Yields
  <2>2. AskReturns(c) => Answer(c)
    BY <2>1 DEF AskReturns, Answer
  <2> QED BY <1>2, <2>2 DEF Owed, Tells, AskStarts, AskExpires, Step
<1>3. CASE AskTick
  BY <1>3 DEF AskTick, ToolNext
<1>4. CASE Take \/ \E q \in Questions : SubmitAnswer(q)
  BY <1>4 DEF Take, SubmitAnswer
<1>5. CASE AskFinished \/ UNCHANGED askVars
  BY <1>5 DEF AskFinished, Finished, askVars
<1> QED BY <1>1, <1>2, <1>3, <1>4, <1>5 DEF AskNext, ToolNext

(* The composition implements the engine: a tool that asks a human is one  *)
(* more adapter, and what ToolInvocationProofs shows of every engine holds *)
(* of this one.                                                            *)
THEOREM AskImplementsTool == AskSpec => ToolInit /\ [][ToolNext]_toolVars
<1>1. AskInit => ToolInit
  BY DEF AskInit
<1> QED BY <1>1, AskStepIsToolStep, PTL DEF AskSpec

-----------------------------------------------------------------------------
(* What an answer in time needs: the bookkeeping of the questions.         *)
ChannelTypes ==
  /\ asked \in [Questions -> Nat]
  /\ shown \subseteq Questions
  /\ pending \in Seq(Questions)
  /\ \A q \in DOMAIN given : q \in Questions /\ given[q] \in Nat

(* Whatever the application holds was asked.                               *)
Reached ==
  /\ \A q \in shown : future[q] # "none"
  /\ \A i \in 1..Len(pending) : future[pending[i]] # "none"

(* A question that was asked belongs to an attempt that was started.       *)
Past(q) ==
  future[q] # "none" =>
    /\ pc[q[1]] # "idle"
    /\ \/ q[2] < attempt[q[1]]
       \/ q[2] = attempt[q[1]] /\ pc[q[1]] # "starting"

(* The times of the answers are those of the questions that were answered  *)
(* or that were cancelled before; a cancelled one ran into its timeout.    *)
Heard(q) ==
  /\ future[q] = "answered" => q \in DOMAIN given
  /\ q \in DOMAIN given => future[q] \in {"answered", "cancelled"}
  /\ future[q] = "cancelled" => asked[q] + CallTimeout <= now
  /\ future[q] = "cancelled" /\ q \in DOMAIN given
       => asked[q] + CallTimeout <= given[q]

(* A call waits for its latest question until the timeout of that one, and *)
(* for at most Lag once the answer is there.                               *)
Waits(c) ==
  pc[c] = "running" =>
    /\ future[Latest(c)] \in {"open", "answered"}
    /\ timer[c] = asked[Latest(c)] + CallTimeout
    /\ future[Latest(c)] = "answered" => now <= given[Latest(c)] + Lag

(* An answer in time is waited for, or was returned.                       *)
InTimeFor(q) == q \in DOMAIN given /\ given[q] + Lag < asked[q] + CallTimeout

Counts(q) ==
  InTimeFor(q) =>
    q[2] = attempt[q[1]] /\ (pc[q[1]] = "running" \/ result[q[1]] = "ok")

TimelyInv ==
  /\ ToolInv /\ Paced /\ AskInv /\ ChannelTypes /\ Reached
  /\ \A q \in Questions : Past(q) /\ Heard(q) /\ Counts(q)
  /\ \A c \in Asking : Waits(c)

(* No question is late before one is asked.                                *)
LEMMA TimelyInit == AskInit => TimelyInv
<1> SUFFICES ASSUME AskInit PROVE TimelyInv
  OBVIOUS
<1>1. ToolInv /\ Paced /\ AskInv
  BY ToolInitInv, PacedInit, AskInitInv DEF AskInit
<1>2. ChannelTypes /\ Reached
  BY DEF AskInit, ChannelTypes, Reached
<1>3. \A q \in Questions : Past(q) /\ Heard(q) /\ Counts(q)
  BY DEF AskInit, Past, Heard, Counts, InTimeFor
<1>4. \A c \in Asking : Waits(c)
  BY DEF AskInit, ToolInit, Waits
<1> QED BY <1>1, <1>2, <1>3, <1>4 DEF TimelyInv

(* Steps of a call between its attempts, and of calls that ask nobody,     *)
(* disturb no question.                                                    *)
LEMMA TimelyBetween ==
  ASSUME TimelyInv, NEW c \in Calls, UNCHANGED channelVars,
         \/ Fresh(c) /\ (Begin(c) \/ Refuse(c))
         \/ Return(c) \/ Retry(c) \/ Sleep(c) \/ Wake(c)
         \/ c \notin Asking /\ Step(c)
  PROVE  /\ ChannelTypes' /\ Reached'
         /\ \A q \in Questions : Past(q)' /\ Heard(q)' /\ Counts(q)'
         /\ \A d \in Asking : Waits(d)'
<1>0. ToolTypeOK /\ OkSettles
  BY ToolAssumption DEF TimelyInv, ToolInv, AskInv
<1>1. Begin(c) \/ Refuse(c) \/ Step(c)
  BY DEF Step
<1>2. now' = now
  BY <1>1 DEF Begin, Refuse, Step, Start, Answer, Expire, LateAnswer, EndAttempt,
     Return, Retry, Sleep, Wake
<1>3. ChannelTypes' /\ Reached'
  BY DEF TimelyInv, ChannelTypes, Reached, channelVars
<1>4. \A q \in Questions : Heard(q)'
  BY <1>2 DEF TimelyInv, Heard, channelVars
<1>5. ASSUME c \in Asking
      PROVE  /\ pc'[c] \notin {"running", "idle"}
             /\ \/ pc[c] = "idle"
                \/ /\ pc[c] \notin {"idle", "running"} /\ pc'[c] # "starting"
                   /\ attempt'[c] = attempt[c] /\ result'[c] = result[c]
                \/ /\ pc[c] = "sleeping" /\ attempt'[c] = attempt[c] + 1
  BY <1>0, <1>5 DEF ToolTypeOK, Fresh, Begin, Refuse, Return, Retry, Sleep, Wake
<1>6. ASSUME NEW q \in Questions PROVE Past(q)' /\ Counts(q)'
  <2>1. /\ Past(q) /\ Heard(q) /\ Counts(q) /\ q[1] \in Asking /\ q[1] \in Calls
        /\ q[2] \in Nat
    BY <1>6 DEF TimelyInv
  <2>2. InTimeFor(q)' = InTimeFor(q) /\ future' = future /\ given' = given
    BY DEF InTimeFor, channelVars
  <2>3. CASE q[1] # c
    <3>1. /\ pc'[q[1]] = pc[q[1]] /\ attempt'[q[1]] = attempt[q[1]]
          /\ result'[q[1]] = result[q[1]]
      BY <1>0, <1>1, <2>1, <2>3, Frame
    <3> QED BY <2>1, <2>2, <3>1 DEF Past, Counts
  <2>4. CASE q[1] = c
    <3>1. attempt[c] \in Nat
      BY <1>0 DEF ToolTypeOK
    <3>2. c \in Asking /\ (result[c] = "ok" => pc[c] \in {"ending", "done"})
      BY <1>0, <2>1, <2>4 DEF OkSettles
    <3>3. Past(q)'
      BY <1>5, <2>1, <2>2, <2>4, <3>1, <3>2 DEF Past
    <3>4. InTimeFor(q) => future[q] # "none"
      BY <2>1 DEF InTimeFor, Heard
    <3>5. Counts(q)'
      BY <1>5, <2>1, <2>2, <2>4, <3>1, <3>2, <3>4 DEF Past, Counts
    <3> QED BY <3>3, <3>5
  <2> QED BY <2>3, <2>4
<1>7. ASSUME NEW d \in Asking PROVE Waits(d)'
  <2>1. Waits(d) /\ d \in Calls
    BY DEF TimelyInv
  <2>2. CASE d = c
    BY <1>5, <1>7, <2>2 DEF Waits
  <2>3. CASE d # c
    <3>1. pc'[d] = pc[d] /\ attempt'[d] = attempt[d] /\ timer'[d] = timer[d]
      BY <1>0, <1>1, <2>1, <2>3, Frame
    <3> QED BY <1>2, <2>1, <3>1 DEF Waits, channelVars
  <2> QED BY <2>2, <2>3
<1> QED BY <1>3, <1>4, <1>6, <1>7

(* A call puts its question.                                               *)
LEMMA TimelyStarts ==
  ASSUME TimelyInv, NEW c \in Asking, AskStarts(c)
  PROVE  /\ ChannelTypes' /\ Reached'
         /\ \A q \in Questions : Past(q)' /\ Heard(q)' /\ Counts(q)'
         /\ \A d \in Asking : Waits(d)'
<1> DEFINE new == Latest(c)
<1>0. ToolTypeOK /\ AskTypeOK /\ OkSettles /\ ChannelTypes /\ Reached /\ c \in Calls
  BY DEF TimelyInv, ToolInv, AskInv
<1>1. /\ pc[c] = "starting" /\ pc' = [pc EXCEPT ![c] = "running"]
      /\ timer' = [timer EXCEPT ![c] = now + CallTimeout]
      /\ pending' = Append(pending, new)
      /\ future' = [future EXCEPT ![new] = "open"]
      /\ asked' = [asked EXCEPT ![new] = now]
      /\ UNCHANGED <<now, attempt, result, shown, given>>
  BY DEF AskStarts, Start
<1>2. new \in Questions /\ new[1] = c /\ new[2] = attempt[c] /\ attempt[c] \in Nat
  <2>1. attempt[c] \in 1..MaxAttempts
    BY <1>0, <1>1, ToolAssumption DEF TimelyInv, Paced, ToolTypeOK
  <2> QED BY <2>1
<1>3. future[new] = "none" /\ new \notin DOMAIN given /\ new \notin shown
  <2>1. Past(new) /\ Heard(new)
    BY <1>2 DEF TimelyInv
  <2>2. future[new] = "none"
    BY <1>1, <1>2, <2>1 DEF Past
  <2> QED BY <1>0, <1>2, <2>1, <2>2 DEF Heard, Reached
<1>4. ASSUME NEW q \in Questions
      PROVE  \/ q = new /\ future'[q] = "open" /\ asked'[q] = now
             \/ q # new /\ future'[q] = future[q] /\ asked'[q] = asked[q]
  BY <1>0, <1>1, <1>2 DEF ChannelTypes, AskTypeOK
<1>5. ChannelTypes' /\ Reached'
  <2>1. ChannelTypes'
    BY <1>0, <1>1, <1>2 DEF ChannelTypes, ToolTypeOK
  <2>2. \A q \in shown' : future'[q] # "none"
    BY <1>0, <1>1, <1>4 DEF ChannelTypes, Reached
  <2>3. ASSUME NEW i \in 1..Len(pending') PROVE future'[pending'[i]] # "none"
    <3>1. CASE i = Len(pending) + 1
      BY <1>0, <1>1, <1>2, <1>4, <3>1 DEF ChannelTypes
    <3>2. CASE i \in 1..Len(pending)
      <4>1. pending'[i] = pending[i] /\ pending[i] \in Questions
        BY <1>0, <1>1, <3>2 DEF ChannelTypes
      <4> QED BY <1>0, <1>4, <3>2, <4>1 DEF Reached
    <3> QED BY <1>0, <1>1, <2>3, <3>1, <3>2 DEF ChannelTypes
  <2> QED BY <2>1, <2>2, <2>3 DEF Reached
<1>6. ASSUME NEW q \in Questions PROVE Past(q)' /\ Heard(q)' /\ Counts(q)'
  <2>1. /\ Past(q) /\ Heard(q) /\ Counts(q) /\ q[1] \in Asking /\ q[1] \in Calls
        /\ q[2] \in Nat /\ q = <<q[1], q[2]>>
    BY <1>6 DEF TimelyInv
  <2>2. pc'[q[1]] = (IF q[1] = c THEN "running" ELSE pc[q[1]])
    BY <1>0, <1>1, <2>1 DEF ToolTypeOK
  <2>3. CASE q = new
    BY <1>1, <1>2, <1>3, <1>4, <2>1, <2>2, <2>3 DEF Past, Heard, Counts, InTimeFor
  <2>4. CASE q # new
    <3>1. future'[q] = future[q] /\ asked'[q] = asked[q]
      BY <1>4, <2>4
    <3>2. Past(q)' /\ Heard(q)'
      BY <1>1, <1>2, <2>1, <2>2, <3>1 DEF Past, Heard
    <3>3. Counts(q)'
      BY <1>1, <2>1, <2>2, <3>1 DEF Counts, InTimeFor
    <3> QED BY <3>2, <3>3
  <2> QED BY <2>3, <2>4
<1>7. ASSUME NEW d \in Asking PROVE Waits(d)'
  <2>1. CASE d = c
    <3>1. /\ pc'[d] = "running" /\ timer'[d] = now + CallTimeout
          /\ attempt'[d] = attempt[d]
      BY <1>0, <1>1, <2>1 DEF ToolTypeOK
    <3>2. Latest(d)' = new /\ future'[new] = "open" /\ asked'[new] = now
      BY <1>1, <1>2, <1>4, <2>1
    <3> QED BY <3>1, <3>2 DEF Waits
  <2>2. CASE d # c
    <3>1. /\ pc'[d] = pc[d] /\ timer'[d] = timer[d] /\ attempt'[d] = attempt[d]
          /\ Waits(d) /\ Latest(d) # new /\ Latest(d)' = Latest(d)
      BY <1>0, <1>1, <1>2, <2>2 DEF ToolTypeOK, TimelyInv
    <3>2. pc[d] = "running" => future[Latest(d)] # "none"
      BY <3>1 DEF Waits
    <3>3. future'[Latest(d)] = future[Latest(d)]
      BY <1>0, <1>1, <1>2, <3>1 DEF AskTypeOK
    <3>4. asked'[Latest(d)] = asked[Latest(d)]
      BY <1>0, <1>1, <1>2, <3>1 DEF ChannelTypes
    <3> QED BY <1>1, <3>1, <3>3, <3>4 DEF Waits
  <2> QED BY <2>1, <2>2
<1> QED BY <1>5, <1>6, <1>7

(* A call has its answer, or its timeout first: then the answer, if there  *)
(* is one, was not in time.                                                *)
LEMMA TimelyEnds ==
  ASSUME TimelyInv, NEW c \in Asking, AskReturns(c) \/ AskExpires(c)
  PROVE  /\ ChannelTypes' /\ Reached'
         /\ \A q \in Questions : Past(q)' /\ Heard(q)' /\ Counts(q)'
         /\ \A d \in Asking : Waits(d)'
<1> DEFINE last == Latest(c)
<1>0. /\ ToolTypeOK /\ AskTypeOK /\ ChannelTypes /\ Reached /\ c \in Calls
      /\ now \in Nat /\ Lag \in Nat /\ CallTimeout \in Nat
  BY ToolAssumption DEF TimelyInv, ToolInv, AskInv, ToolTypeOK
<1>1. /\ pc[c] = "running" /\ pc' = [pc EXCEPT ![c] = "ending"]
      /\ UNCHANGED <<now, attempt, pending, shown, asked, given>>
  BY DEF AskReturns, AskExpires, Expire, EndAttempt, channelVars
<1>2. last \in Questions /\ last[1] = c /\ last[2] = attempt[c] /\ attempt[c] \in Nat
  <2>1. attempt[c] \in 1..MaxAttempts
    BY <1>0, <1>1, ToolAssumption DEF TimelyInv, Paced, ToolTypeOK
  <2> QED BY <2>1
<1>3. ASSUME NEW d \in Calls, d # c
      PROVE  pc'[d] = pc[d] /\ timer'[d] = timer[d] /\ result'[d] = result[d]
  BY <1>0, <1>3 DEF AskReturns, AskExpires, Expire, EndAttempt, ToolTypeOK
<1>4. ASSUME NEW q \in Questions
      PROVE  \/ future'[q] = future[q]
             \/ /\ q = last /\ future[q] = "open" /\ future'[q] = "cancelled"
                /\ now >= timer[c]
  BY <1>0, <1>2 DEF AskReturns, AskExpires, Expire, channelVars, AskTypeOK
<1>5. \/ result'[c] = "ok"
      \/ timer[c] <= now
  BY <1>0 DEF AskReturns, AskExpires, Expire, EndAttempt, ToolTypeOK
<1>6. Waits(c) /\ timer[c] = asked[last] + CallTimeout /\ asked[last] \in Nat
  BY <1>0, <1>1, <1>2 DEF TimelyInv, Waits, ChannelTypes
<1>7. ChannelTypes' /\ Reached'
  <2>1. ASSUME NEW q \in Questions, future[q] # "none" PROVE future'[q] # "none"
    BY <1>4, <2>1
  <2>2. \A i \in 1..Len(pending) : pending[i] \in Questions
    BY <1>0 DEF ChannelTypes
  <2> QED BY <1>0, <1>1, <2>1, <2>2 DEF ChannelTypes, Reached
<1>8. ASSUME NEW q \in Questions PROVE Past(q)' /\ Heard(q)' /\ Counts(q)'
  <2>1. /\ Past(q) /\ Heard(q) /\ Counts(q) /\ q[1] \in Asking /\ q[1] \in Calls
        /\ q[2] \in Nat /\ q = <<q[1], q[2]>>
    BY <1>8 DEF TimelyInv
  <2>2. pc'[q[1]] = (IF q[1] = c THEN "ending" ELSE pc[q[1]])
    BY <1>0, <1>1, <2>1 DEF ToolTypeOK
  <2>3. Past(q)'
    BY <1>1, <1>2, <1>4, <2>1, <2>2 DEF Past
  <2>4. Heard(q)'
    <3>1. CASE future'[q] = future[q]
      BY <1>1, <2>1, <3>1 DEF Heard
    <3>2. CASE q = last /\ future[q] = "open" /\ future'[q] = "cancelled" /\ now >= timer[c]
      <4>1. q \notin DOMAIN given
        BY <2>1, <3>2 DEF Heard
      <4>2. asked[q] + CallTimeout <= now
        BY <1>0, <1>6, <3>2
      <4> QED BY <1>1, <3>2, <4>1, <4>2 DEF Heard
    <3> QED BY <1>4, <3>1, <3>2
  <2>5. Counts(q)'
    <3>1. CASE q[1] # c
      BY <1>1, <1>3, <2>1, <2>2, <3>1 DEF Counts, InTimeFor
    <3>2. CASE q[1] = c
      <4> SUFFICES ASSUME InTimeFor(q) PROVE q[2] = attempt[c] /\ result'[c] = "ok"
        BY <1>1, <2>1, <3>2 DEF Counts, InTimeFor
      <4>1. q[2] = attempt[c] /\ q = last
        BY <2>1, <3>2 DEF Counts
      <4>2. CASE timer[c] <= now
        <5>1. future[q] = "answered" \/ future[q] = "cancelled"
          BY <2>1 DEF InTimeFor, Heard
        <5>2. future[q] \in {"open", "answered"}
          BY <1>1, <1>6, <4>1 DEF Waits
        <5>3. given[q] \in Nat /\ now <= given[q] + Lag
          BY <1>0, <1>1, <1>6, <4>1, <5>1, <5>2 DEF Waits, InTimeFor, ChannelTypes
        <5>4. given[q] + Lag < asked[q] + CallTimeout
          BY DEF InTimeFor
        <5>5. asked[q] + CallTimeout <= now /\ asked[q] \in Nat
          BY <1>6, <4>1, <4>2
        <5> QED BY <1>0, <5>3, <5>4, <5>5
      <4> QED BY <1>5, <4>1, <4>2
    <3> QED BY <3>1, <3>2
  <2> QED BY <2>3, <2>4, <2>5
<1>9. ASSUME NEW d \in Asking PROVE Waits(d)'
  <2>1. CASE d = c
    BY <1>0, <1>1, <2>1 DEF Waits, ToolTypeOK
  <2>2. CASE d # c
    <3>1. /\ pc'[d] = pc[d] /\ timer'[d] = timer[d] /\ Waits(d)
          /\ Latest(d) # last /\ Latest(d)' = Latest(d)
      BY <1>1, <1>3, <2>2 DEF TimelyInv
    <3>2. ASSUME pc[d] = "running" PROVE future'[Latest(d)] = future[Latest(d)]
      <4>1. d \in Calls /\ attempt[d] \in 1..MaxAttempts
        BY <1>0, <3>2, ToolAssumption DEF TimelyInv, Paced, ToolTypeOK
      <4>2. Latest(d) \in Questions
        BY <4>1
      <4> QED BY <1>4, <3>1, <4>2
    <3> QED BY <1>1, <3>1, <3>2 DEF Waits
  <2> QED BY <2>1, <2>2
<1> QED BY <1>7, <1>8, <1>9

(* The application takes a question.                                       *)
LEMMA TimelyTake ==
  ASSUME TimelyInv, Take
  PROVE  /\ ChannelTypes' /\ Reached'
         /\ \A q \in Questions : Past(q)' /\ Heard(q)' /\ Counts(q)'
         /\ \A d \in Asking : Waits(d)'
<1>1. /\ pending # <<>> /\ shown' = shown \cup {Head(pending)} /\ pending' = Tail(pending)
      /\ UNCHANGED <<now, pc, attempt, timer, result, future, asked, given>>
  BY DEF Take, toolVars, callVars
<1>2. ChannelTypes /\ Reached
  BY DEF TimelyInv
<1>3. /\ Head(pending) = pending[1] /\ 1 \in 1..Len(pending) /\ Head(pending) \in Questions
      /\ \A i \in 1..Len(Tail(pending)) : i + 1 \in 1..Len(pending)
                                         /\ Tail(pending)[i] = pending[i + 1]
      /\ Tail(pending) \in Seq(Questions)
  BY <1>1, <1>2 DEF ChannelTypes
<1>4. ChannelTypes' /\ Reached'
  BY <1>1, <1>2, <1>3 DEF ChannelTypes, Reached
<1> QED
  BY <1>1, <1>4 DEF TimelyInv, Past, Heard, Counts, InTimeFor, Waits

(* The user answers: the first answer to a question is noted, and closes   *)
(* it if it is still open.                                                 *)
LEMMA TimelySubmit ==
  ASSUME TimelyInv, NEW p \in Questions, SubmitAnswer(p)
  PROVE  /\ ChannelTypes' /\ Reached'
         /\ \A q \in Questions : Past(q)' /\ Heard(q)' /\ Counts(q)'
         /\ \A d \in Asking : Waits(d)'
<1>0. /\ ToolTypeOK /\ AskTypeOK /\ NoStrayQuestion /\ ChannelTypes /\ Reached
      /\ now \in Nat /\ Lag \in Nat /\ CallTimeout \in Nat
  BY ToolAssumption DEF TimelyInv, ToolInv, AskInv, ToolTypeOK
<1>1. /\ p \in shown
      /\ future' = [future EXCEPT ![p] = IF @ = "open" THEN "answered" ELSE @]
      /\ given' = Noted(p)
      /\ UNCHANGED <<now, pc, attempt, timer, result, pending, shown, asked>>
  BY DEF SubmitAnswer, toolVars, callVars
<1>2. future[p] # "none"
  BY <1>0, <1>1 DEF Reached
<1>3. ASSUME NEW q \in Questions
      PROVE  future'[q] = IF q = p /\ future[p] = "open" THEN "answered" ELSE future[q]
  BY <1>0, <1>1 DEF AskTypeOK
<1>4. /\ DOMAIN given' = DOMAIN given \cup {p}
      /\ \A q \in DOMAIN given' : given'[q] = IF q \in DOMAIN given THEN given[q] ELSE now
  BY <1>1 DEF Noted
<1>5. ChannelTypes' /\ Reached'
  <2>1. ASSUME NEW q \in Questions, future[q] # "none" PROVE future'[q] # "none"
    BY <1>3, <2>1
  <2>2. \A i \in 1..Len(pending) : pending[i] \in Questions
    BY <1>0 DEF ChannelTypes
  <2> QED BY <1>0, <1>1, <1>4, <2>1, <2>2 DEF ChannelTypes, Reached
<1>6. ASSUME NEW q \in Questions PROVE Past(q)' /\ Heard(q)' /\ Counts(q)'
  <2>1. Past(q) /\ Heard(q) /\ Counts(q)
    BY <1>6 DEF TimelyInv
  <2>2. future'[q] = IF q = p /\ future[p] = "open" THEN "answered" ELSE future[q]
    BY <1>3
  <2>3. Past(q)'
    BY <1>1, <1>2, <2>1, <2>2 DEF Past
  <2>4. CASE q # p \/ q \in DOMAIN given
    <3>1. /\ q \in DOMAIN given' <=> q \in DOMAIN given
          /\ q \in DOMAIN given => given'[q] = given[q]
      BY <1>4, <2>4
    <3>2. future'[q] = future[q]
      BY <2>1, <2>2, <2>4 DEF Heard
    <3> QED BY <1>1, <2>1, <2>3, <3>1, <3>2 DEF Heard, Counts, InTimeFor
  <2>5. CASE q = p /\ q \notin DOMAIN given
    <3>1. q \in DOMAIN given' /\ given'[q] = now
      BY <1>4, <2>5
    <3>2. asked[q] \in Nat
      BY <1>0 DEF ChannelTypes
    <3>3. CASE future[q] = "open"
      <4>1. pc[q[1]] = "running" /\ q[2] = attempt[q[1]]
        BY <1>0, <3>3 DEF NoStrayQuestion
      <4> QED BY <1>1, <2>2, <2>3, <2>5, <3>1, <3>3, <4>1 DEF Heard, Counts
    <3>4. CASE future[q] = "cancelled"
      <4>1. asked[q] + CallTimeout <= now
        BY <2>1, <3>4 DEF Heard
      <4>2. ~ (now + Lag < asked[q] + CallTimeout)
        BY <1>0, <3>2, <4>1
      <4> QED BY <1>1, <2>2, <2>3, <3>1, <3>4, <4>1, <4>2 DEF Heard, Counts, InTimeFor
    <3>5. future[q] # "answered"
      BY <2>1, <2>5 DEF Heard
    <3> QED BY <1>0, <1>2, <2>5, <3>3, <3>4, <3>5 DEF AskTypeOK
  <2> QED BY <2>4, <2>5
<1>7. ASSUME NEW d \in Asking PROVE Waits(d)'
  <2> SUFFICES ASSUME pc[d] = "running"
               PROVE  /\ future'[Latest(d)] \in {"open", "answered"}
                      /\ timer[d] = asked[Latest(d)] + CallTimeout
                      /\ future'[Latest(d)] = "answered" => now <= given'[Latest(d)] + Lag
    BY <1>1 DEF Waits
  <2>1. Waits(d) /\ d \in Calls
    BY DEF TimelyInv
  <2>2. Latest(d) \in Questions
    <3>1. attempt[d] \in 1..MaxAttempts
      BY <1>0, <2>1, ToolAssumption DEF TimelyInv, Paced, ToolTypeOK
    <3> QED BY <3>1
  <2>3. Heard(Latest(d))
    BY <2>2 DEF TimelyInv
  <2>4. CASE Latest(d) \in DOMAIN given
    BY <1>3, <1>4, <2>1, <2>2, <2>3, <2>4 DEF Waits, Heard
  <2>5. CASE Latest(d) \notin DOMAIN given /\ Latest(d) # p
    BY <1>3, <1>4, <2>1, <2>2, <2>3, <2>5 DEF Waits, Heard
  <2>6. CASE Latest(d) \notin DOMAIN given /\ Latest(d) = p
    <3>1. given'[Latest(d)] = now
      BY <1>4, <2>6
    <3> QED BY <1>0, <1>3, <2>1, <2>2, <3>1 DEF Waits
  <2> QED BY <2>4, <2>5, <2>6
<1> QED BY <1>5, <1>6, <1>7

(* Every step of engine and channel keeps TimelyInv.                       *)
LEMMA TimelyNext == TimelyInv /\ [AskNext]_askVars => TimelyInv'
<1> SUFFICES ASSUME TimelyInv, [AskNext]_askVars PROVE TimelyInv'
  OBVIOUS
<1>1. ToolInv' /\ Paced' /\ AskInv'
  BY AskStepIsToolStep, ToolNextInv, PacedInv, AskNextInv DEF TimelyInv
<1>2. SUFFICES /\ ChannelTypes' /\ Reached'
               /\ \A q \in Questions : Past(q)' /\ Heard(q)' /\ Counts(q)'
               /\ \A d \in Asking : Waits(d)'
  BY <1>1 DEF TimelyInv
<1>3. ASSUME NEW c \in Calls, Enter(c) \/ Owed(c) \/ Tells(c)
      PROVE  /\ ChannelTypes' /\ Reached'
             /\ \A q \in Questions : Past(q)' /\ Heard(q)' /\ Counts(q)'
             /\ \A d \in Asking : Waits(d)'
  <2>1. CASE c \in Asking /\ AskStarts(c)
    BY <2>1, TimelyStarts
  <2>2. CASE c \in Asking /\ (AskReturns(c) \/ AskExpires(c))
    BY <2>2, TimelyEnds
  <2>3. CASE /\ UNCHANGED channelVars
             /\ \/ Fresh(c) /\ (Begin(c) \/ Refuse(c))
                \/ Return(c) \/ Retry(c) \/ Sleep(c) \/ Wake(c)
                \/ c \notin Asking /\ Step(c)
    BY <2>3, TimelyBetween
  <2> QED BY <1>3, <2>1, <2>2, <2>3 DEF Enter, Owed, Tells, Step
<1>4. CASE Take
  BY <1>4, TimelyTake
<1>5. CASE \E q \in Questions : SubmitAnswer(q)
  BY <1>5, TimelySubmit
<1>6. CASE AskTick
  <2>1. /\ now' = now + 1 /\ now \in Nat
        /\ UNCHANGED <<pc, attempt, timer, result, pending, shown, future, asked, given>>
    BY <1>6 DEF AskTick, Tick, callVars, channelVars, TimelyInv, ToolInv, ToolTypeOK
  <2>2. ChannelTypes' /\ Reached'
    BY <2>1 DEF TimelyInv, ChannelTypes, Reached
  <2>3. ASSUME NEW q \in Questions PROVE Past(q)' /\ Heard(q)' /\ Counts(q)'
    <3>1. Past(q) /\ Heard(q) /\ Counts(q) /\ asked[q] \in Nat
      BY <2>3 DEF TimelyInv, ChannelTypes
    <3>2. asked[q] + CallTimeout <= now => asked[q] + CallTimeout <= now + 1
      BY <2>1, <3>1, ToolAssumption
    <3> QED BY <2>1, <3>1, <3>2 DEF Past, Heard, Counts, InTimeFor
  <2>4. ASSUME NEW d \in Asking PROVE Waits(d)'
    <3> SUFFICES ASSUME pc[d] = "running", future[Latest(d)] = "answered"
                 PROVE  now + 1 <= given[Latest(d)] + Lag
      BY <2>1 DEF TimelyInv, Waits
    <3>1. now < given[Latest(d)] + Lag
      BY <1>6 DEF AskTick
    <3>2. given[Latest(d)] \in Nat
      <4>1. d \in Calls /\ attempt[d] \in 1..MaxAttempts
        BY ToolAssumption DEF TimelyInv, ToolInv, Paced, ToolTypeOK
      <4>2. Latest(d) \in Questions
        BY <4>1
      <4> QED BY <4>2 DEF TimelyInv, Heard, ChannelTypes
    <3> QED BY <2>1, <3>1, <3>2, ToolAssumption
  <2> QED BY <2>2, <2>3, <2>4
<1>7. CASE UNCHANGED askVars
  <2>1. UNCHANGED <<now, pc, attempt, timer, result, pending, shown, future, asked, given>>
    BY <1>7 DEF askVars, toolVars, callVars, channelVars
  <2> QED BY <2>1 DEF TimelyInv, ChannelTypes, Reached, Past, Heard, Counts, InTimeFor, Waits
<1> QED
  BY <1>3, <1>4, <1>5, <1>6, <1>7 DEF AskNext, AskFinished, Finished, askVars

(* An answer given in time is what the call returns, for every lag of the  *)
(* loop and however long the application left the question in the queue.   *)
THEOREM TimelyTheorem == AskSpec => []TimelyAnswerCounts
<1>1. TimelyInv => TimelyAnswerCounts
  <2> SUFFICES ASSUME TimelyInv, NEW c \in Asking, NEW n \in 1..MaxAttempts,
                      <<c, n>> \in DOMAIN given,
                      given[<<c, n>>] + Lag < asked[<<c, n>>] + CallTimeout
               PROVE  /\ attempt[c] = n
                      /\ \/ pc[c] = "running" /\ future[<<c, n>>] = "answered"
                         \/ result[c] = "ok"
    BY DEF TimelyAnswerCounts
  <2> DEFINE q == <<c, n>>
  <2>1. q \in Questions /\ q[1] = c /\ q[2] = n
    OBVIOUS
  <2>2. Heard(q) /\ Counts(q) /\ InTimeFor(q)
    BY <2>1 DEF TimelyInv, InTimeFor
  <2>3. asked[q] \in Nat /\ given[q] \in Nat
    BY <2>1 DEF TimelyInv, ChannelTypes
  <2>4. future[q] # "cancelled"
    <3>1. future[q] = "cancelled" => asked[q] + CallTimeout <= given[q]
      BY <2>2 DEF Heard
    <3>2. given[q] + Lag < asked[q] + CallTimeout
      OBVIOUS
    <3> HIDE DEF q
    <3> QED BY <2>3, <3>1, <3>2, ToolAssumption
  <2> QED BY <2>1, <2>2, <2>4 DEF Heard, Counts
<1> QED BY <1>1, TimelyInit, TimelyNext, PTL DEF AskSpec
-----------------------------------------------------------------------------
(* The role's layer.  Its inductive invariant, part by part.               *)
HIDE AskAssumption DEF Questions, Latest

(* The scheduler sleeps until the deadline at the latest, and the loop     *)
(* wakes it at most Lag units late.                                        *)
SchedulerInTime ==
  /\ inv = "announcing" =>
       wake = startAt /\ signals = 0 /\ now <= startAt + Lag
  /\ inv = "waiting" => wake <= deadline /\ now <= wake + Lag

(* The deadline lies between what is granted and the hard cap.             *)
DeadlineBounds ==
  inv # "idle" =>
    /\ startAt + BaseTimeout <= deadline
    /\ deadline <= startAt + HardCap
    /\ signals > 0 =>
         deadline >= Lesser(lastProgress + Extend, startAt + HardCap)

(* Calls are under way only while the task is in its tool loop, and the    *)
(* task is alive only while invoke_role attends to it.                     *)
CallsOwned == task # "tools" => \A c \in Calls : pc[c] \notin Active

TaskOwned ==
  /\ inv \in {"idle", "announcing"} => task = "none"
  /\ inv \in {"waiting", "cancelling", "unwinding"} => task # "none"
  /\ inv \in {"closing", "returned"} => task \in {"none", "done"}

(* A cancellation is pending only for a task that has not ended.           *)
CancelOwned == cancelReq => task \notin {"none", "done"}

IInv ==
  /\ TypeOK
  /\ ToolInv
  /\ SchedulerInTime
  /\ DeadlineBounds
  /\ CallsOwned
  /\ TaskOwned
  /\ CancelOwned

USE DEF Inv, Tasks, Endings, Results, Status, Park, States, Active, Timed

(* A bound the watchdog shares with its caller: the cap is a time, and no  *)
(* less than the base timeout (ProgressWatchdog.__post_init__).            *)
LEMMA HardCapType == HardCap \in Nat /\ HardCap >= BaseTimeout
BY RoleAssumption DEF HardCap, Larger

(* The inductive invariant holds before invoke_role is called.             *)
LEMMA InitInv == Init => IInv
<1> SUFFICES ASSUME Init PROVE IInv
  OBVIOUS
<1>1. ToolInv /\ ToolTypeOK
  BY ToolInitInv DEF Init, ToolInv
<1>2. <<>> \in Batches
  <2>1. 0 \in 0..MaxBatch /\ <<>> \in [1..0 -> Calls \cup {Rejected}]
    BY RoleAssumption
  <2> QED BY <2>1 DEF Batches
<1>3. TypeOK
  <2>1. cancelReq \in BOOLEAN /\ callerCancelled \in BOOLEAN
          /\ swallowed \in BOOLEAN
    BY DEF Init
  <2>2. toolCalls \in Batches
    BY <1>2 DEF Init
  <2>3. iteration \in 0..MaxIterations
    BY RoleAssumption DEF Init
  <2> QED BY <1>1, <2>1, <2>2, <2>3 DEF Init, TypeOK
<1>4. SchedulerInTime /\ DeadlineBounds /\ TaskOwned /\ CancelOwned
  BY DEF Init, SchedulerInTime, DeadlineBounds, TaskOwned, CancelOwned
<1>5. CallsOwned
  BY DEF Init, ToolInit, CallsOwned
<1> QED BY <1>1, <1>3, <1>4, <1>5 DEF IInv

(* signal_progress moves the deadline forward only, within the cap, and    *)
(* grants Extend from now if the cap allows it.                            *)
LEMMA SignalBounds ==
  ASSUME IInv, inv # "idle", NEW c \in Calls, SignalProgress(c)
  PROVE  /\ deadline' \in Nat /\ deadline' >= deadline
         /\ signals' \in Nat /\ lastProgress' \in Nat /\ seen' \subseteq Calls
         /\ startAt' = startAt
         /\ deadline' <= startAt + HardCap
         /\ signals' > 0 =>
              deadline' >= Lesser(lastProgress' + Extend, startAt + HardCap)
BY HardCapType, RoleAssumption
   DEF IInv, TypeOK, ToolTypeOK, DeadlineBounds, SignalProgress, watchdogVars,
       Larger, Lesser

(* The steps of call_one in the role's loop keep the engine's invariants.  *)
LEMMA EngineStep ==
  ASSUME IInv, NEW c \in Calls, Begin(c) \/ Step(c)
  PROVE  ToolInv' /\ now' = now
<1>1. now' = now
  BY DEF Begin, Step, Start, Answer, Expire, LateAnswer, Return, Retry, Sleep,
         Wake, EndAttempt
<1>2. ToolInv
  BY DEF IInv
<1> QED BY <1>1, <1>2, EnterInv, StepInv

(* Steps of the scheduler.                                                 *)
LEMMA SchedulerInv ==
  ASSUME IInv, Scheduler \/ CallerCancel
  PROVE  IInv'
<1> USE HardCapType, RoleAssumption, ToolAssumption
<1>0. UNCHANGED toolVars
  BY DEF Scheduler, Invoke, StartWatchdog, Launch, Poll, Collect, Unwound, Close, CallerCancel
<1>1. ToolInv' /\ ToolTypeOK'
  BY <1>0 DEF IInv, ToolInv, ToolTypeOK, RetryLeft, LastAttempt,
     toolVars, callVars
<1>2. TypeOK'
  <2> USE DEF IInv, TypeOK, schedVars, loopVars, watchdogVars
  <2>1. CASE Invoke BY <1>1, <2>1 DEF Invoke, StartWatchdog, ToolTypeOK
  <2>2. CASE Launch
    <3>1. now \in Nat
      BY DEF ToolTypeOK
    <3>2. wake' \in Nat /\ due' \in Nat /\ inv' \in Inv
      BY <2>2, <3>1 DEF Launch, CheckDeadline, Remaining, Lesser
    <3>3. cancelReq' \in BOOLEAN
      BY <2>2, <3>1 DEF Launch, CheckDeadline, Remaining
    <3> QED BY <1>1, <2>2, <3>2, <3>3 DEF Launch
  <2>3. CASE Poll
    <3>1. now \in Nat
      BY DEF ToolTypeOK
    <3>2. wake' \in Nat /\ due' \in Nat /\ inv' \in Inv
      BY <2>3, <3>1 DEF Poll, CheckDeadline, Remaining, Lesser
    <3>3. cancelReq' \in BOOLEAN
      BY <2>3, <3>1 DEF Poll, CheckDeadline, Remaining
    <3> QED BY <1>1, <2>3, <3>2, <3>3 DEF Poll
  <2>4. CASE Collect BY <1>1, <2>4 DEF Collect, ToolTypeOK
  <2>5. CASE Unwound BY <1>1, <2>5 DEF Unwound, ToolTypeOK
  <2>6. CASE Close BY <1>1, <2>6 DEF Close
  <2>7. CASE CallerCancel
    <3>1. due' \in Nat
      BY <2>7 DEF CallerCancel, ToolTypeOK
    <3>2. cancelReq' \in BOOLEAN /\ callerCancelled' \in BOOLEAN
      BY <2>7 DEF CallerCancel
    <3>3. inv' \in Inv /\ outcome' \in Results \cup {"none"}
      BY <2>7 DEF CallerCancel
    <3> QED BY <1>1, <2>7, <3>1, <3>2, <3>3 DEF CallerCancel
  <2> QED BY <2>1, <2>2, <2>3, <2>4, <2>5, <2>6, <2>7 DEF Scheduler
<1>3. SchedulerInTime'
  <2> USE <1>0 DEF IInv, TypeOK, ToolTypeOK, SchedulerInTime, toolVars,
                   watchdogVars
  <2>1. CASE Invoke BY <2>1 DEF Invoke, StartWatchdog
  <2>2. CASE Launch BY <2>2 DEF Launch, CheckDeadline, Remaining, Lesser
  <2>3. CASE Poll BY <2>3 DEF Poll, CheckDeadline, Remaining, Lesser
  <2>4. CASE Collect BY <2>4 DEF Collect
  <2>5. CASE Unwound BY <2>5 DEF Unwound
  <2>6. CASE Close BY <2>6 DEF Close
  <2>7. CASE CallerCancel BY <2>7 DEF CallerCancel
  <2> QED BY <2>1, <2>2, <2>3, <2>4, <2>5, <2>6, <2>7 DEF Scheduler
<1>4. DeadlineBounds'
  <2>1. CASE Invoke
    BY <2>1 DEF Invoke, StartWatchdog, IInv, TypeOK, ToolTypeOK, DeadlineBounds
  <2>2. CASE ~Invoke
    <3>1. inv # "idle" /\ UNCHANGED watchdogVars
      BY <2>2 DEF Scheduler, Launch, Poll, Collect, Unwound, Close, CallerCancel
    <3> QED BY <3>1 DEF IInv, DeadlineBounds, watchdogVars
  <2> QED BY <2>1, <2>2
<1>5. CallsOwned'
  <2>1. task' = task \/ (task = "none" /\ task' = "queued")
    BY DEF Scheduler, Invoke, StartWatchdog, Launch, Poll, Collect, Unwound, Close,
       CallerCancel, IInv, TaskOwned
  <2> QED BY <1>0, <2>1 DEF IInv, CallsOwned, toolVars, callVars
<1>6. TaskOwned'
  BY DEF Scheduler, Invoke, StartWatchdog, Launch, Poll, CheckDeadline, Remaining, Collect, Unwound,
     Close, CallerCancel, IInv, TypeOK, TaskOwned
<1>7. CancelOwned'
  <2>1. CASE CallerCancel
    <3>1. task' = task /\ (cancelReq' => cancelReq \/ task # "done")
      BY <2>1 DEF CallerCancel
    <3>2. cancelReq' /\ ~cancelReq => inv \in {"waiting", "cancelling"}
      BY <2>1 DEF CallerCancel
    <3>3. inv \in {"waiting", "cancelling"} => task # "none"
      BY DEF IInv, TaskOwned
    <3> QED BY <3>1, <3>2, <3>3 DEF IInv, CancelOwned
  <2>2. CASE Launch \/ Poll
    BY <2>2 DEF Launch, Poll, CheckDeadline, Remaining, IInv, TypeOK, CancelOwned, TaskOwned
  <2>3. CASE Invoke \/ Collect \/ Unwound \/ Close
    BY <2>3 DEF Invoke, StartWatchdog, Collect, Unwound, Close, IInv, CancelOwned
  <2> QED BY <2>1, <2>2, <2>3 DEF Scheduler
<1> QED BY <1>1, <1>2, <1>3, <1>4, <1>5, <1>6, <1>7 DEF IInv
(* TaskEnds leaves the scheduler in time: it is woken now at the latest.   *)
LEMMA TaskEndsInTime ==
  ASSUME IInv, NEW r \in Endings, TaskEnds(r), task \notin {"none", "done"},
         inv' = inv, UNCHANGED watchdogVars, now' = now
  PROVE  /\ wake' \in Nat /\ cancelReq' \in BOOLEAN
         /\ taskResult' \in Endings /\ task' = "done"
         /\ SchedulerInTime' /\ TaskOwned' /\ CancelOwned'
<1> USE DEF IInv, TypeOK, ToolTypeOK, TaskEnds, watchdogVars
<1>1. wake' \in Nat /\ cancelReq' \in BOOLEAN /\ taskResult' \in Endings
        /\ task' = "done"
  BY DEF Lesser
<1>2. SchedulerInTime'
  <2>1. inv # "announcing"
    BY DEF TaskOwned
  <2>2. CASE inv = "waiting"
    <3>1. wake' <= wake /\ now <= wake' + Lag
      BY <1>1, <2>2, ToolAssumption DEF SchedulerInTime, Lesser
    <3> QED BY <1>1, <2>2, <3>1 DEF SchedulerInTime
  <2> QED BY <2>1, <2>2 DEF SchedulerInTime
<1>3. TaskOwned' /\ CancelOwned'
  BY DEF TaskOwned, CancelOwned
<1> QED BY <1>1, <1>2, <1>3

(* Steps of the role's task other than those of a tool call.               *)
LEMMA LoopInv ==
  ASSUME IInv, TaskStart \/ StructuredEnds \/ ModelEnds \/ ModelCalls
               \/ EndIteration
  PROVE  IInv'
<1> USE RoleAssumption
<1>0. UNCHANGED <<toolVars, inv, outcome, callerCancelled, due, watchdogVars,
                  swallowed>>
  BY DEF TaskStart, StructuredEnds, ModelEnds, ModelCalls, EndIteration, NextIteration, schedVars
<1>1. ToolInv' /\ ToolTypeOK'
  BY <1>0 DEF IInv, ToolInv, ToolTypeOK, RetryLeft, LastAttempt,
     toolVars, callVars
<1>2. DeadlineBounds'
  BY <1>0 DEF IInv, DeadlineBounds, watchdogVars
<1>3. CallsOwned'
  <2>1. task # "tools" \/ Running
    BY DEF TaskStart, StructuredEnds, ModelEnds, ModelCalls, EndIteration,
         NextIteration
  <2>2. \A c \in Calls : pc[c] \notin Active
    BY <2>1 DEF Running, IInv, CallsOwned
  <2> QED BY <1>0, <2>2 DEF CallsOwned, toolVars, callVars
<1>4. iteration' \in 0..MaxIterations /\ toolCalls' \in Batches /\ served' \in Nat
  BY DEF TaskStart, StructuredEnds, ModelEnds, ModelCalls, EndIteration, NextIteration,
     IInv, TypeOK, loopVars, Batches
<1>5. task \notin {"none", "done"}
  BY DEF TaskStart, StructuredEnds, ModelEnds, ModelCalls, EndIteration, NextIteration, Running
<1>6. CASE \E r \in Endings : TaskEnds(r)
  <2>1. now' = now /\ inv' = inv
    BY <1>0 DEF toolVars
  <2>2. /\ wake' \in Nat /\ cancelReq' \in BOOLEAN
        /\ taskResult' \in Endings /\ task' = "done"
        /\ SchedulerInTime' /\ TaskOwned' /\ CancelOwned'
    BY <1>0, <1>5, <1>6, <2>1, TaskEndsInTime
  <2>3. TypeOK'
    BY <1>0, <1>1, <1>4, <2>2 DEF IInv, TypeOK, watchdogVars
  <2> QED BY <1>1, <1>2, <1>3, <2>2, <2>3 DEF IInv
<1>7. CASE ~\E r \in Endings : TaskEnds(r)
  <2>1. /\ UNCHANGED <<taskResult, cancelReq, wake>>
        /\ task' \in {"structured", "model", "tools"}
    BY <1>7 DEF TaskStart, StructuredEnds, ModelEnds, ModelCalls, EndIteration, NextIteration,
       schedVars
  <2>2. TypeOK'
    BY <1>0, <1>1, <1>4, <2>1 DEF IInv, TypeOK, watchdogVars
  <2>3. SchedulerInTime'
    BY <1>0, <2>1 DEF IInv, SchedulerInTime, toolVars, watchdogVars
  <2>4. TaskOwned' /\ CancelOwned'
    BY <1>0, <1>5, <2>1 DEF IInv, TypeOK, TaskOwned, CancelOwned
  <2> QED BY <1>1, <1>2, <1>3, <2>2, <2>3, <2>4 DEF IInv
<1> QED BY <1>6, <1>7

(* Steps of a tool call, and the loop starting one or taking its result.   *)
LEMMA CallInv ==
  ASSUME IInv, NEW c \in Calls,
         NextCall \/ CallStep(c) \/ AdapterStep(c) \/ CallReturns(c)
  PROVE  IInv'
<1>0. /\ task = "tools" /\ task' = task
      /\ UNCHANGED <<inv, wake, outcome, callerCancelled, taskResult, due,
                     cancelReq, iteration, toolCalls, swallowed>>
  BY DEF NextCall, Running, CallStep, AdapterStep, CallReturns, roleVars,
     schedVars, loopVars
<1>1. \E d \in Calls : Begin(d) \/ Step(d)
  BY DEF NextCall, CallStep, AdapterStep, CallReturns, Step
<1>2. ToolInv' /\ ToolTypeOK' /\ now' = now
  BY <1>1, EngineStep DEF ToolInv
<1>3. served' \in Nat
  BY DEF NextCall, CallStep, AdapterStep, CallReturns, roleVars, loopVars,
     IInv, TypeOK
<1>4. inv \notin {"idle", "announcing"}
  BY <1>0 DEF IInv, TaskOwned
<1>5. \/ UNCHANGED watchdogVars
      \/ SignalProgress(c)
  BY DEF NextCall, CallStep, AdapterStep, CallReturns, roleVars
<1>6. /\ startAt' = startAt /\ deadline' \in Nat /\ deadline' >= deadline
      /\ signals' \in Nat /\ lastProgress' \in Nat /\ seen' \subseteq Calls
      /\ DeadlineBounds'
  <2>1. CASE UNCHANGED watchdogVars
    BY <1>0, <2>1 DEF watchdogVars, IInv, TypeOK, DeadlineBounds
  <2>2. CASE SignalProgress(c)
    <3>1. /\ deadline' \in Nat /\ deadline' >= deadline
          /\ signals' \in Nat /\ lastProgress' \in Nat /\ seen' \subseteq Calls
          /\ startAt' = startAt /\ deadline' <= startAt + HardCap
          /\ signals' > 0 =>
               deadline' >= Lesser(lastProgress' + Extend, startAt + HardCap)
      BY <1>4, <2>2, SignalBounds
    <3>2. startAt + BaseTimeout <= deadline
      BY <1>4 DEF IInv, DeadlineBounds
    <3>3. startAt + BaseTimeout <= deadline'
      BY <3>1, <3>2, RoleAssumption DEF IInv, TypeOK
    <3> QED BY <3>1, <3>3 DEF DeadlineBounds
  <2> QED BY <1>5, <2>1, <2>2
<1>7. TypeOK'
  BY <1>0, <1>2, <1>3, <1>6 DEF IInv, TypeOK
<1>8. SchedulerInTime'
  BY <1>0, <1>2, <1>4, <1>6 DEF IInv, TypeOK, SchedulerInTime
<1>9. CallsOwned' /\ TaskOwned' /\ CancelOwned'
  BY <1>0 DEF IInv, CallsOwned, TaskOwned, CancelOwned
<1> QED BY <1>2, <1>6, <1>7, <1>8, <1>9 DEF IInv

(* A cancellation reaches the task, is swallowed or unwinds it.            *)
LEMMA CancelInv ==
  ASSUME IInv, CancelDelivered
  PROVE  IInv'
<1>0. /\ UNCHANGED <<now, attempt, backoff, result, began, failed, inv, outcome,
                     callerCancelled, due, loopVars, watchdogVars, timer>>
      /\ cancelReq
  BY DEF CancelDelivered, Swallows, Unwinds
<1>1. DeadlineBounds'
  BY <1>0 DEF IInv, DeadlineBounds, watchdogVars
<1>2. CASE \E c \in Calls : Swallows(c)
  <2>1. UNCHANGED <<pc, task, taskResult, wake>> /\ cancelReq' = FALSE
          /\ cancelReq' \in BOOLEAN /\ swallowed' \in BOOLEAN
    BY <1>2 DEF Swallows
  <2>2. ToolInv' /\ ToolTypeOK'
    BY <1>0, <2>1 DEF IInv, ToolInv, ToolTypeOK, RetryLeft,
       LastAttempt
  <2>3. TypeOK'
    BY <1>0, <2>1, <2>2 DEF IInv, TypeOK, loopVars, watchdogVars
  <2>4. SchedulerInTime' /\ CallsOwned' /\ TaskOwned' /\ CancelOwned'
    BY <1>0, <2>1 DEF IInv, SchedulerInTime, CallsOwned, TaskOwned, CancelOwned,
       watchdogVars
  <2> QED BY <1>1, <2>2, <2>3, <2>4 DEF IInv
<1>3. CASE Unwinds
  <2>1. task \notin {"none", "done"}
    BY <1>0 DEF IInv, CancelOwned
  <2>2. /\ wake' \in Nat /\ cancelReq' \in BOOLEAN
        /\ taskResult' \in Endings /\ task' = "done"
        /\ SchedulerInTime' /\ TaskOwned' /\ CancelOwned'
    BY <1>0, <1>3, <2>1, TaskEndsInTime DEF Unwinds
  <2>3. ToolInv' /\ ToolTypeOK'
    BY <1>0, <1>3 DEF Unwinds, IInv, ToolInv, ToolTypeOK, RetryLeft,
       LastAttempt
  <2>4. TypeOK'
    BY <1>0, <1>3, <2>2, <2>3 DEF Unwinds, IInv, TypeOK, loopVars, watchdogVars
  <2>5. CallsOwned'
    BY <1>3 DEF Unwinds, CallsOwned, IInv, TypeOK, ToolTypeOK
  <2> QED BY <1>1, <2>2, <2>3, <2>4, <2>5 DEF IInv
<1> QED BY <1>2, <1>3 DEF CancelDelivered

(* Time passes only while the scheduler is not overdue.                    *)
LEMMA TimeInv ==
  ASSUME IInv, TimePasses
  PROVE  IInv'
<1>0. now' = now + 1 /\ UNCHANGED <<callVars, roleVars>>
  BY DEF TimePasses
<1>1. ToolInv' /\ TypeOK'
  BY <1>0 DEF IInv, ToolInv, TypeOK, ToolTypeOK, RetryLeft,
     LastAttempt, callVars, roleVars, schedVars, loopVars,
     watchdogVars
<1>2. SchedulerInTime'
  BY <1>0, ToolAssumption DEF TimePasses, SchedulerDue, IInv, TypeOK, ToolTypeOK,
     SchedulerInTime, roleVars, schedVars, watchdogVars
<1>3. DeadlineBounds' /\ CallsOwned' /\ TaskOwned' /\ CancelOwned'
  BY <1>0 DEF IInv, DeadlineBounds, CallsOwned, TaskOwned, CancelOwned, callVars, roleVars,
     schedVars, watchdogVars
<1> QED BY <1>1, <1>2, <1>3 DEF IInv

(* Every step of the scheduler, the task, its calls, the caller and the    *)
(* clock keeps the inductive invariant.                                    *)
LEMMA NextInv == IInv /\ [Next]_vars => IInv'
<1> SUFFICES ASSUME IInv, [Next]_vars PROVE IInv'
  OBVIOUS
<1>1. CASE Scheduler \/ CallerCancel BY <1>1, SchedulerInv
<1>2. CASE TaskStart \/ StructuredEnds \/ ModelEnds \/ ModelCalls \/ EndIteration
  BY <1>2, LoopInv
<1>3. ASSUME NEW c \in Calls,
             NextCall \/ CallStep(c) \/ AdapterStep(c) \/ CallReturns(c)
      PROVE  IInv'
  BY <1>3, CallInv
<1>4. CASE NextCall
  <2>1. \E c \in Calls : TRUE
    BY <1>4 DEF NextCall
  <2> QED BY <1>3, <1>4, <2>1
<1>5. CASE CancelDelivered BY <1>5, CancelInv
<1>6. CASE TimePasses BY <1>6, TimeInv
<1>7. CASE UNCHANGED vars
  BY <1>7 DEF vars, toolVars, callVars, roleVars, schedVars, loopVars,
     watchdogVars, IInv, ToolInv, TypeOK, ToolTypeOK, RetryLeft,
     LastAttempt, SchedulerInTime, DeadlineBounds, CallsOwned,
     TaskOwned, CancelOwned
<1> QED
  BY <1>1, <1>2, <1>3, <1>4, <1>5, <1>6, <1>7 DEF Next, Task, Over

-----------------------------------------------------------------------------
(* The inductive invariant holds throughout an invocation.                 *)
THEOREM Invariance == Spec => []IInv
BY InitInv, NextInv, PTL DEF Spec

(* The state of the invocation keeps its types.                            *)
THEOREM TypeCorrect == Spec => []TypeOK
<1>1. IInv => TypeOK
  BY DEF IInv
<1> QED BY <1>1, Invariance, PTL

(* However often progress extends the deadline, the scheduler stops        *)
(* waiting for the role no later than the hard cap plus the loop's lag.    *)
THEOREM HardCapTheorem == Spec => []HardCapHolds
<1>1. IInv => HardCapHolds
  BY HardCapType, RoleAssumption, ToolAssumption
     DEF IInv, TypeOK, ToolTypeOK, SchedulerInTime, DeadlineBounds, HardCapHolds
<1> QED BY <1>1, Invariance, PTL

(* The watchdog gives a role up only after its base timeout and not within *)
(* Extend of its latest novel success, unless the hard cap is reached.     *)
THEOREM ProgressTheorem == Spec => ProgressKeepsAlive
<1>1. IInv /\ [Next]_vars =>
        [inv # "cancelling" /\ inv' = "cancelling" =>
           /\ now >= startAt + BaseTimeout
           /\ signals > 0 =>
                now >= Lesser(lastProgress + Extend, startAt + HardCap)]_vars
  <2> SUFFICES ASSUME IInv, [Next]_vars, inv # "cancelling", inv' = "cancelling"
               PROVE  /\ now >= startAt + BaseTimeout
                      /\ signals > 0 =>
                           now >= Lesser(lastProgress + Extend, startAt + HardCap)
    OBVIOUS
  <2>1. Launch \/ Poll
    BY DEF Next, Scheduler, Invoke, StartWatchdog, Launch, Poll, Collect, Unwound, Close,
       CallerCancel, Task, TaskStart, StructuredEnds, ModelEnds, ModelCalls,
       NextCall, EndIteration, NextIteration, CancelDelivered, CallStep, AdapterStep,
       CallReturns, TimePasses, Over, vars, roleVars, schedVars
  <2>2. now >= deadline /\ inv # "idle"
    BY <2>1 DEF Launch, Poll, CheckDeadline, Remaining, IInv, TypeOK, ToolTypeOK
  <2>3. Lesser(lastProgress + Extend, startAt + HardCap) \in Nat
    BY HardCapType, RoleAssumption DEF IInv, TypeOK, Lesser
  <2> QED
    BY <2>2, <2>3, RoleAssumption DEF IInv, TypeOK, ToolTypeOK, DeadlineBounds
<1> QED BY <1>1, Invariance, PTL DEF Spec, ProgressKeepsAlive

(* invoke_role never returns or raises with its task or a tool call of its *)
(* still under way.                                                        *)
THEOREM QuiescenceTheorem == Spec => []NothingLeftRunning
<1>1. IInv => NothingLeftRunning
  BY DEF IInv, TaskOwned, CallsOwned, NothingLeftRunning
<1> QED BY <1>1, Invariance, PTL

-----------------------------------------------------------------------------
(* What the task ended with and what is made of it: the scheduler cancels  *)
(* only a task that has not ended, and a task with a cancellation pending  *)
(* ends with nothing but the cancellation, unless an adapter swallows it.  *)
(* No cancellation is pending while the task runs code of its own.         *)
EndingKept ==
  /\ task = "done" <=> taskResult # "none"
  /\ cancelReq => ~Running
  /\ inv = "unwinding" => callerCancelled
  /\ inv = "cancelling" /\ ~swallowed =>
       IF task = "done" THEN taskResult = "CANCELLED" ELSE cancelReq
  /\ inv \in {"closing", "returned"} /\ ~callerCancelled /\ ~swallowed
       /\ taskResult \in Status => outcome = taskResult

(* A step of the task itself: it may end it, with what it ended with.      *)
LEMMA TaskKeepsEnding ==
  ASSUME IInv, EndingKept, Task
  PROVE  EndingKept'
<1> USE DEF IInv, TypeOK
<1>1. UNCHANGED <<inv, outcome, callerCancelled>>
  BY DEF Task, TaskStart, StructuredEnds, ModelEnds, ModelCalls, NextCall,
     EndIteration, CancelDelivered, CallStep, AdapterStep, CallReturns,
     roleVars, schedVars
<1>2. CASE CancelDelivered
  <2>1. task \notin {"none", "done"} /\ inv \notin {"closing", "returned"}
    BY <1>2 DEF CancelDelivered, CancelOwned, TaskOwned
  <2>2. CASE \E c \in Calls : Swallows(c)
    BY <1>1, <2>1, <2>2 DEF Swallows, EndingKept
  <2>3. CASE Unwinds
    BY <1>1, <2>1, <2>3 DEF Unwinds, TaskEnds, EndingKept
  <2> QED BY <1>2, <2>2, <2>3 DEF CancelDelivered
<1>3. CASE ~CancelDelivered
  <2>1. /\ task \notin {"none", "done"}
        /\ ~cancelReq
        /\ swallowed' = swallowed
        /\ \/ \E r \in Endings : TaskEnds(r)
           \/ task' \notin {"none", "done"} /\ UNCHANGED taskResult
    BY <1>3, RoleAssumption
       DEF Task, TaskStart, StructuredEnds, ModelEnds, ModelCalls, NextCall,
           EndIteration, NextIteration, CallStep, AdapterStep, CallReturns, Running,
           roleVars, schedVars, EndingKept
  <2>2. ~cancelReq'
    BY <1>3, <2>1 DEF Task, TaskStart, StructuredEnds, ModelEnds, ModelCalls,
       NextCall, EndIteration, NextIteration, TaskEnds, CallStep, AdapterStep,
       CallReturns, roleVars
  <2> QED BY <1>1, <2>1, <2>2 DEF TaskEnds, EndingKept, TaskOwned
<1> QED BY <1>2, <1>3

(* A step of the scheduler or of the caller.                               *)
LEMMA SchedulerKeepsEnding ==
  ASSUME IInv, EndingKept, Scheduler \/ CallerCancel
  PROVE  EndingKept'
<1> USE DEF IInv, TypeOK, TaskOwned, EndingKept, Running, toolVars, callVars
<1>1. CASE Invoke BY <1>1 DEF Invoke
<1>2. CASE Launch BY <1>2 DEF Launch, CheckDeadline
<1>3. CASE Poll BY <1>3 DEF Poll, CheckDeadline
<1>4. CASE Collect BY <1>4 DEF Collect
<1>5. CASE Unwound BY <1>5 DEF Unwound
<1>6. CASE Close BY <1>6 DEF Close
<1>7. CASE CallerCancel BY <1>7 DEF CallerCancel
<1> QED BY <1>1, <1>2, <1>3, <1>4, <1>5, <1>6, <1>7 DEF Scheduler

(* A role that ended on its own before anyone cancelled it is reported     *)
(* with its own status, whenever its deadline passed.                      *)
THEOREM FinishedWorkTheorem == Spec => []FinishedWorkIsReported
<1>1. Init => EndingKept
  BY DEF Init, EndingKept
<1>2. IInv /\ EndingKept /\ [Next]_vars => EndingKept'
  <2> SUFFICES ASSUME IInv, EndingKept, [Next]_vars PROVE EndingKept'
    OBVIOUS
  <2>1. CASE TimePasses \/ UNCHANGED vars
    BY <2>1 DEF TimePasses, vars, roleVars, schedVars, toolVars, callVars, Running,
       EndingKept
  <2> QED
    BY <2>1, TaskKeepsEnding, SchedulerKeepsEnding DEF Next, Over
<1>3. EndingKept => FinishedWorkIsReported
  BY DEF EndingKept, FinishedWorkIsReported
<1> QED BY <1>1, <1>2, <1>3, Invariance, PTL DEF Spec

-----------------------------------------------------------------------------
(* Each distinct success has moved the deadline by Extend + Lag at most.   *)
TimeEarned ==
  /\ IsFiniteSet(seen)
  /\ inv = "announcing" => seen = {} /\ deadline = startAt + BaseTimeout
  /\ inv = "waiting" =>
       deadline <= startAt + BaseTimeout + Cardinality(seen) * (Extend + Lag)

(* One more success is worth one more Extend + Lag.                        *)
LEMMA OneMoreSuccess ==
  ASSUME IInv, TimeEarned, NEW c \in Calls, SignalProgress(c), c \notin seen,
         inv = "waiting", UNCHANGED <<inv, wake, now>>
  PROVE  TimeEarned'
<1> DEFINE n == Cardinality(seen)
           step == Extend + Lag
<1>1. /\ IsFiniteSet(seen') /\ n \in Nat
      /\ Cardinality(seen') = n + 1
  BY FS_AddElement, FS_CardinalityType DEF SignalProgress, TimeEarned
<1>2. step \in Nat /\ (n + 1) * step = n * step + step /\ n * step \in Nat
  <2>1. step \in Nat
    BY RoleAssumption, ToolAssumption
  <2> HIDE DEF n, step
  <2> QED BY <1>1, <2>1
<1>3. deadline' <= deadline + step
  <2>1. now <= deadline + Lag
    BY ToolAssumption DEF IInv, TypeOK, ToolTypeOK, SchedulerInTime
  <2>2. Larger(deadline, now) + Extend <= deadline + step
    BY <2>1, RoleAssumption, ToolAssumption DEF IInv, TypeOK, ToolTypeOK, Larger
  <2> QED
    BY <2>2, HardCapType, RoleAssumption, ToolAssumption
       DEF SignalProgress, IInv, TypeOK, ToolTypeOK, Larger, Lesser
<1>4. deadline <= startAt + BaseTimeout + n * step
  BY DEF TimeEarned
<1>5. startAt' = startAt /\ deadline \in Nat /\ deadline' \in Nat /\ startAt \in Nat
  BY SignalBounds DEF IInv, TypeOK
<1>6. deadline' <= startAt' + BaseTimeout + (n + 1) * step
  <2> HIDE DEF n, step
  <2> QED BY <1>1, <1>2, <1>3, <1>4, <1>5, RoleAssumption
<1> QED BY <1>1, <1>6 DEF TimeEarned

(* Time beyond the base timeout is earned: Extend per distinct success,    *)
(* and Lag when the success came after a deadline the scheduler had not    *)
(* looked at yet.  Repeating a call that succeeded buys nothing.           *)
THEOREM DeadlineIsEarnedTheorem == Spec => []DeadlineIsEarned
<1>1. Init => TimeEarned
  BY FS_EmptySet DEF Init, TimeEarned
<1>2. IInv /\ TimeEarned /\ [Next]_vars => TimeEarned'
  <2> SUFFICES ASSUME IInv, TimeEarned, [Next]_vars PROVE TimeEarned'
    OBVIOUS
  <2>1. CASE Invoke
    BY <2>1, FS_EmptySet DEF Invoke, StartWatchdog, TimeEarned
  <2>2. CASE Launch
    <3>1. UNCHANGED <<seen, deadline, startAt>> /\ inv' # "announcing"
      BY <2>2 DEF Launch, CheckDeadline, watchdogVars
    <3>2. Cardinality({}) = 0 /\ 0 * (Extend + Lag) = 0
      BY FS_EmptySet, RoleAssumption, ToolAssumption
    <3>3. seen = {} /\ deadline = startAt + BaseTimeout
      BY <2>2 DEF Launch, TimeEarned
    <3> QED
      BY <3>1, <3>2, <3>3, RoleAssumption DEF TimeEarned, IInv, TypeOK
  <2>3. ASSUME NEW c \in Calls, CallReturns(c) PROVE TimeEarned'
    <3>1. UNCHANGED <<inv, wake, now>> /\ inv # "announcing"
      BY <2>3 DEF CallReturns, Return, schedVars, IInv, TaskOwned
    <3>2. CASE UNCHANGED watchdogVars
      BY <3>1, <3>2 DEF watchdogVars, TimeEarned
    <3>3. CASE SignalProgress(c) /\ c \notin seen /\ inv = "waiting"
      BY <3>1, <3>3, OneMoreSuccess
    <3>4. CASE SignalProgress(c) /\ c \notin seen /\ inv # "waiting"
      BY <3>1, <3>4, FS_AddElement DEF SignalProgress, TimeEarned
    <3>5. UNCHANGED watchdogVars \/ (SignalProgress(c) /\ c \notin seen)
      BY <2>3 DEF CallReturns, SignalProgress
    <3> QED BY <3>2, <3>3, <3>4, <3>5
  <2>4. CASE /\ ~Invoke /\ ~Launch /\ \A c \in Calls : ~CallReturns(c)
    <3>1. UNCHANGED <<seen, deadline, startAt>>
      BY <2>4 DEF Next, Scheduler, Poll, Collect, Unwound, Close, Task, TaskStart,
         StructuredEnds, ModelEnds, ModelCalls, NextCall, EndIteration,
         CancelDelivered, CallStep, AdapterStep, CallerCancel, TimePasses, Over,
         vars, roleVars, watchdogVars
    <3>2. inv' = inv \/ (inv = "waiting" /\ inv' # "announcing")
                     \/ inv' \notin {"announcing", "waiting"}
      BY <2>4 DEF Next, Scheduler, Poll, CheckDeadline, Collect, Unwound, Close,
         Task, TaskStart, StructuredEnds, ModelEnds, ModelCalls, NextCall,
         EndIteration, CancelDelivered, CallStep, AdapterStep, CallerCancel,
         TimePasses, Over, vars, roleVars, schedVars
    <3> QED BY <3>1, <3>2 DEF TimeEarned
  <2> QED BY <2>1, <2>2, <2>3, <2>4
<1>3. IInv /\ TimeEarned => DeadlineIsEarned
  <2>1. Cardinality({}) = 0 /\ 0 * (Extend + Lag) = 0
    BY FS_EmptySet, RoleAssumption, ToolAssumption
  <2>2. IInv => startAt \in Nat
    BY DEF IInv, TypeOK
  <2> QED BY <2>1, <2>2, RoleAssumption DEF TimeEarned, DeadlineIsEarned
<1> QED BY <1>1, <1>2, <1>3, Invariance, PTL DEF Spec
-----------------------------------------------------------------------------
(* What the caller's cancellation has to do with where invoke_role is      *)
(* parked: it ends all but an invocation that awaits the task, and what is *)
(* still to be returned after it is the ABORTED of the watchdog.           *)
CancelSeen ==
  /\ inv \in {"idle", "announcing", "waiting"} => ~callerCancelled
  /\ inv = "unwinding" => callerCancelled
  /\ inv = "closing" =>
       /\ outcome \in Status \cup {"ABORTED"}
       /\ callerCancelled => outcome = "ABORTED"

(* Every step of an invocation is one that RoleContract allows, or changes *)
(* nothing its caller can see.                                             *)
LEMMA ContractStep ==
  TypeOK /\ CancelSeen /\ [Next]_vars
    => CancelSeen' /\ [Contract!Next]_(Contract!vars)
<1> SUFFICES ASSUME TypeOK, CancelSeen, [Next]_vars
             PROVE  CancelSeen' /\ [Contract!Next]_(Contract!vars)
  OBVIOUS
<1> DEFINE st == IF inv = "idle" THEN "queued"
                 ELSE IF inv = "returned" THEN outcome ELSE "running"
           ca == IF callerCancelled /\ inv # "returned" THEN "pending" ELSE "no"
<1>1. CASE Invoke
  <2>1. CancelSeen'
    BY <1>1 DEF Invoke, CancelSeen
  <2>2. st = "queued" /\ ca = "no" /\ st' = "running" /\ ca' = "no"
    BY <1>1 DEF Invoke, CancelSeen
  <2> QED BY <2>1, <2>2 DEF Contract!Next, Contract!Start
<1>2. CASE Launch \/ Poll
  <2>1. CancelSeen' /\ st' = st /\ ca' = ca
    BY <1>2 DEF Launch, Poll, CheckDeadline, CancelSeen
  <2> QED BY <2>1 DEF Contract!vars
<1>3. CASE Collect
  <2>1. CancelSeen'
    BY <1>3 DEF Collect, CancelSeen
  <2>2. st = "running" /\ ca = "no" /\ ca' = "no"
    BY <1>3 DEF Collect, CancelSeen
  <2>3. st' = st \/ st' = "RAISED"
    BY <1>3 DEF Collect
  <2> QED BY <2>1, <2>2, <2>3
          DEF Contract!Next, Contract!Raise, Contract!Live, Contract!vars
<1>4. CASE Unwound
  <2>1. CancelSeen'
    BY <1>4 DEF Unwound, CancelSeen
  <2>2. st = "running"
    BY <1>4 DEF Unwound
  <2>3. CASE inv = "cancelling"
    <3>1. st' = st /\ ca' = ca
      BY <1>4, <2>3 DEF Unwound
    <3> QED BY <2>1, <3>1 DEF Contract!vars
  <2>4. CASE inv = "unwinding"
    <3>1. st' = "CANCELLED" /\ ca' = "no"
      BY <1>4, <2>4 DEF Unwound
    <3> QED BY <2>1, <2>2, <3>1
            DEF Contract!Next, Contract!EndCancelled, Contract!Live
  <2> QED BY <1>4, <2>3, <2>4 DEF Unwound
<1>5. CASE Close
  <2>1. CancelSeen'
    BY <1>5 DEF Close, CancelSeen
  <2>2. st = "running" /\ st' = outcome /\ ca' = "no"
    BY <1>5 DEF Close
  <2>3. CASE callerCancelled
    <3>1. ca = "pending" /\ st' = "ABORTED"
      BY <1>5, <2>2, <2>3 DEF Close, CancelSeen
    <3> QED BY <2>1, <2>2, <3>1 DEF Contract!Next, Contract!EndAborted
  <2>4. CASE ~callerCancelled
    <3>1. ca = "no" /\ st' \in Status \cup {"ABORTED"}
      BY <1>5, <2>2, <2>4 DEF Close, CancelSeen
    <3> QED BY <2>1, <2>2, <3>1
            DEF Contract!Next, Contract!Return, Contract!Returned
  <2> QED BY <2>3, <2>4
<1>6. CASE CallerCancel
  <2>1. CancelSeen'
    BY <1>6 DEF CallerCancel, CancelSeen
  <2>2. st = "running" /\ ca = "no"
    BY <1>6 DEF CallerCancel
  <2>3. \/ st' = "CANCELLED" /\ ca' = "no"
        \/ st' = st /\ ca' = "pending"
    BY <1>6 DEF CallerCancel
  <2> QED BY <2>1, <2>2, <2>3
          DEF Contract!Next, Contract!Cancel, Contract!EndCancelled, Contract!Live
<1>7. CASE Task \/ TimePasses \/ UNCHANGED vars
  <2>1. UNCHANGED <<inv, outcome, callerCancelled>>
    BY <1>7 DEF Task, TaskStart, StructuredEnds, ModelEnds, ModelCalls, NextCall,
       EndIteration, CancelDelivered, CallStep, AdapterStep, CallReturns,
       TimePasses, vars, roleVars, schedVars
  <2>2. CancelSeen' /\ st' = st /\ ca' = ca
    BY <2>1 DEF CancelSeen
  <2> QED BY <2>2 DEF Contract!vars
<1> QED
  BY <1>1, <1>2, <1>3, <1>4, <1>5, <1>6, <1>7 DEF Next, Scheduler, Over

(* Seen from its caller invoke_role is RoleContract: it begins once and    *)
(* ends once, whatever its watchdog, its task and its tool calls do; and   *)
(* once cancelled it returns nothing of what the role did.                 *)
THEOREM KeepsContractTheorem == Spec => KeepsContract
<1>1. Init => Contract!Init /\ CancelSeen
  BY DEF Init, Contract!Init, CancelSeen
<1> QED
  BY <1>1, ContractStep, TypeCorrect, PTL DEF Spec, KeepsContract, Contract!Spec
=============================================================================
