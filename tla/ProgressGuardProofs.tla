------------------------ MODULE ProgressGuardProofs ------------------------
(* Proofs about ProgressGuard for every window, threshold and iteration    *)
(* cap, every key extractor and any number of invocations.                 *)
EXTENDS ProgressGuard, TLAPS

(* A flag is up only when its window holds something: it went up for a     *)
(* repetition found there, and only reset empties a window.                *)
FlagsGrounded ==
  /\ actions \in Seq(Actions) /\ keys \in Seq({KeyOf[a] : a \in Actions})
  /\ warned \in BOOLEAN /\ keyWarned \in BOOLEAN
  /\ warned => actions # <<>>
  /\ keyWarned => keys # <<>>

(* The flags are down when the latest verdict was OK or there is none yet. *)
CalmIsUnflagged ==
  /\ verdict \in {"none", "OK", "WARN", "STOP"}
  /\ verdict \in {"none", "OK"} => ~warned /\ ~keyWarned

(* What the flags must say after so many warnings in a row: each warning   *)
(* raises a flag, and only the key detector's goes down before an OK.      *)
WarningsFlagged ==
  /\ warnings \in 0..3
  /\ warnings = 1 => warned \/ keyWarned
  /\ warnings = 2 => warned
  /\ warnings = 3 => warned /\ keyWarned

IInv == FlagsGrounded /\ CalmIsUnflagged /\ WarningsFlagged

USE DEF IInv, FlagsGrounded, CalmIsUnflagged, WarningsFlagged

(* A window that something was pushed to is not empty.                     *)
LEMMA PushGrows ==
  ASSUME NEW S, NEW w \in Seq(S), NEW x \in S, NEW size \in Nat \ {0}
  PROVE  Push(w, x, size) \in Seq(S) /\ Push(w, x, size) # <<>>
<1>1. Append(w, x) \in Seq(S) /\ Len(Append(w, x)) = Len(w) + 1
  OBVIOUS
<1>2. CASE Len(w) < size
  BY <1>1, <1>2 DEF Push
<1>3. CASE ~(Len(w) < size)
  <2>1. Tail(Append(w, x)) \in Seq(S) /\ Len(Tail(Append(w, x))) = Len(w)
    BY <1>1
  <2>2. Len(w) > 0 /\ Len(<<>>) = 0
    BY <1>3
  <2>3. Push(w, x, size) = Tail(Append(w, x))
    BY <1>3 DEF Push
  <2> QED BY <2>1, <2>2, <2>3
<1> QED BY <1>2, <1>3

(* Nothing repeats in an empty window.                                     *)
LEMMA EmptyWindow == \A n : ~Repeats(<<>>, n)
BY DEF Repeats

(* The empty window is one of the windows.                                 *)
LEMMA EmptyTyped == \A S : <<>> \in Seq(S)
OBVIOUS

(* The inductive invariant holds of a new guard.                           *)
LEMMA InitInv == Init => IInv
<1> SUFFICES ASSUME Init PROVE IInv
  OBVIOUS
<1>1. FlagsGrounded
  BY EmptyTyped DEF Init
<1>2. CalmIsUnflagged
  BY DEF Init
<1>3. WarningsFlagged
  BY DEF Init
<1> QED BY <1>1, <1>2, <1>3

(* Recording a call fills the windows and moves no flag.                   *)
LEMMA RecordInv ==
  ASSUME IInv, NEW i \in Invocations, NEW a \in Actions, RecordAction(i, a)
  PROVE  IInv'
<1>1. actions' \in Seq(Actions) /\ actions' # <<>>
  BY PushGrows, GuardAssumption DEF RecordAction
<1>2. keys' \in Seq({KeyOf[b] : b \in Actions}) /\ (keys # <<>> => keys' # <<>>)
  <2>1. CASE KeyOf[a] = NoKey
    BY <2>1 DEF RecordAction
  <2>2. CASE KeyOf[a] # NoKey
    <3>1. KeyOf[a] \in {KeyOf[b] : b \in Actions}
      OBVIOUS
    <3> QED BY <2>2, <3>1, PushGrows, GuardAssumption DEF RecordAction
  <2> QED BY <2>1, <2>2
<1>3. UNCHANGED <<warned, keyWarned, verdict, warnings>>
  BY DEF RecordAction, flags
<1> QED BY <1>1, <1>2, <1>3

(* The step property of StopsAreWarned.                                     *)
StopIsWarned == verdict' = "STOP" /\ verdict # "STOP" => verdict = "WARN"

(* A check warns no fourth time, stops only with a flag up, and leaves the *)
(* flags as the next one needs them.                                       *)
LEMMA CheckInv ==
  ASSUME IInv, NEW i \in Invocations, Check(i)
  PROVE  IInv' /\ StopIsWarned
<1>1. UNCHANGED <<actions, keys>>
  BY DEF Check, windows
<1>2. KeyCycles => keys # <<>>
  BY EmptyWindow DEF KeyCycles
<1>3. Stalled => actions # <<>>
  BY EmptyWindow DEF Stalled
<1>4. CASE CapVerdict
  BY <1>1, <1>4 DEF CapVerdict, flags, StopIsWarned
<1>5. CASE KeyVerdict
  <2>1. CASE keyWarned
    BY <1>1, <1>2, <1>5, <2>1 DEF KeyVerdict, Says, StopIsWarned
  <2>2. CASE ~keyWarned
    BY <1>1, <1>2, <1>5, <2>2 DEF KeyVerdict, Says, StopIsWarned
  <2> QED BY <2>1, <2>2
<1>6. CASE StallVerdict
  <2>1. ~(keyWarned /\ keys = <<>>)
    OBVIOUS
  <2>2. keyWarned' = FALSE
    BY <1>6, <2>1 DEF StallVerdict
  <2>3. CASE warned
    BY <1>1, <1>3, <1>6, <2>2, <2>3 DEF StallVerdict, Says, StopIsWarned
  <2>4. CASE ~warned
    BY <1>1, <1>3, <1>6, <2>2, <2>4 DEF StallVerdict, Says, StopIsWarned
  <2> QED BY <2>3, <2>4
<1>7. CASE ClearVerdict
  <2>1. ~(keyWarned /\ keys = <<>>) /\ ~(warned /\ actions = <<>>)
    OBVIOUS
  <2>2. keyWarned' = FALSE /\ warned' = FALSE
    BY <1>7, <2>1 DEF ClearVerdict
  <2>3. verdict' = "OK" /\ warnings' = 0
    BY <1>7 DEF ClearVerdict, Says
  <2>4. FlagsGrounded'
    BY <1>1, <2>2
  <2>5. CalmIsUnflagged'
    BY <2>2, <2>3
  <2>6. WarningsFlagged'
    BY <2>3
  <2> QED BY <2>3, <2>4, <2>5, <2>6 DEF StopIsWarned
<1> QED BY <1>4, <1>5, <1>6, <1>7 DEF Check

(* An invocation that makes room for the next leaves the guard alone, and  *)
(* a reset guard is as good as new.                                        *)
LEMMA OtherInv ==
  ASSUME IInv, (\E i \in Invocations : NextInvocation(i)) \/ Reset \/ UNCHANGED vars
  PROVE  IInv' /\ StopIsWarned
<1>1. CASE \E i \in Invocations : NextInvocation(i)
  BY <1>1 DEF NextInvocation, windows, flags, StopIsWarned
<1>2. CASE Reset
  <2>1. FlagsGrounded'
    BY <1>2, EmptyTyped DEF Reset
  <2>2. CalmIsUnflagged'
    BY <1>2 DEF Reset
  <2>3. WarningsFlagged'
    BY <1>2 DEF Reset
  <2> QED BY <1>2, <2>1, <2>2, <2>3 DEF Reset, StopIsWarned
<1>3. CASE UNCHANGED vars
  BY <1>3 DEF vars, windows, flags, StopIsWarned
<1> QED BY <1>1, <1>2, <1>3

(* Every step preserves the invariant, and a STOP it brings is a warned one.*)
LEMMA NextInv == IInv /\ [Next]_vars => IInv' /\ StopIsWarned
<1> SUFFICES ASSUME IInv, [Next]_vars PROVE IInv' /\ StopIsWarned
  OBVIOUS
<1>1. CASE \E i \in Invocations : Check(i)
  BY <1>1, CheckInv
<1>2. CASE \E i \in Invocations, a \in Actions : RecordAction(i, a)
  <2>1. IInv'
    BY <1>2, RecordInv
  <2>2. StopIsWarned
    BY <1>2 DEF RecordAction, StopIsWarned
  <2> QED BY <2>1, <2>2
<1>3. CASE (\E i \in Invocations : NextInvocation(i)) \/ Reset \/ UNCHANGED vars
  BY <1>3, OtherInv
<1> QED BY <1>1, <1>2, <1>3 DEF Next

(* The flags agree with the windows, the latest verdict and the warnings in*)
(* a row in every reachable state.                                         *)
THEOREM Invariance == Spec => []IInv
<1>1. Init => IInv
  BY InitInv
<1>2. IInv /\ [Next]_vars => IInv'
  BY NextInv
<1> QED BY <1>1, <1>2, PTL DEF Spec

(* However many invocations share the guard, it says WARN at most three    *)
(* times in a row (check).                                                 *)
THEOREM WarningsTheorem == Spec => []WarningsAreFew
<1>1. IInv => WarningsAreFew
  BY DEF WarningsAreFew
<1> QED BY <1>1, Invariance, PTL

(* A STOP of either detector has been announced by a WARN with no OK and   *)
(* no reset in between (check, reset).                                     *)
THEOREM StopsTheorem == Spec => StopsAreWarned
<1>1. IInv /\ [Next]_vars => [verdict' = "STOP" /\ verdict # "STOP" => verdict = "WARN"]_vars
  BY NextInv DEF StopIsWarned
<1> QED BY <1>1, Invariance, PTL DEF Spec, StopsAreWarned
=============================================================================
