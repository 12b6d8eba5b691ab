--------------------------- MODULE ProgressGuard ---------------------------
(***************************************************************************)
(* ProgressGuard of resilience/progress_guard.py, the detector of repeated *)
(* tool calls, as the role loops of Orchestrator drive it: one guard is    *)
(* shared by all invocations under a policy, whose checks and records mix  *)
(* at every await.  The loops drop the verdict; it is kept here as history.*)
(***************************************************************************)
EXTENDS Naturals, Sequences, FiniteSets

CONSTANTS
  Invocations,         \* invocations under way at the same time
  Actions,             \* (tool_name, args_hash) pairs
  KeyOf,               \* KeyOf[a]: what key_extractor makes of a, or NoKey
  NoKey,
  WindowSize,          \* window_size
  StallThreshold,      \* stall_threshold
  KeyWindowSize,       \* secondary_window_size
  KeyRepeatThreshold,  \* secondary_repeat_threshold
  MaxIterations,       \* max_iterations of the guard
  RoleIterations       \* max_iterations of the roles

ASSUME GuardAssumption ==
  /\ WindowSize \in Nat \ {0} /\ KeyWindowSize \in Nat \ {0}
  /\ StallThreshold \in Nat \ {0} /\ KeyRepeatThreshold \in Nat \ {0}
  /\ MaxIterations \in Nat /\ RoleIterations \in Nat
  /\ DOMAIN KeyOf = Actions

VARIABLES
  actions,    \* _action_history, the oldest first
  keys,       \* _secondary_history
  warned,     \* _warn_issued
  keyWarned,  \* _secondary_warn_issued
  iteration,  \* iteration[i]: the iteration invocation i has reached
  verdict,    \* latest verdict below max_iterations since reset  (history)
  warnings    \* WARNs in a row up to that verdict                (history)

windows == <<actions, keys>>
flags   == <<warned, keyWarned>>
vars    == <<windows, flags, iteration, verdict, warnings>>

Init ==
  /\ actions = <<>> /\ keys = <<>>
  /\ warned = FALSE /\ keyWarned = FALSE
  /\ iteration = [i \in Invocations |-> 0]
  /\ verdict = "none" /\ warnings = 0

-----------------------------------------------------------------------------
(* A deque of the given maxlen drops its oldest entry.                     *)
Push(window, x, size) ==
  IF Len(window) < size THEN Append(window, x) ELSE Tail(Append(window, x))

(* The most common entry of the window occurs at least n times.            *)
Repeats(window, n) ==
  \E j \in DOMAIN window :
    Cardinality({i \in DOMAIN window : window[i] = window[j]}) >= n

Stalled   == Repeats(actions, StallThreshold)
KeyCycles == Repeats(keys, KeyRepeatThreshold)

(* record_action: _invoke_loop records a call before it is dispatched.     *)
RecordAction(i, a) ==
  /\ iteration[i] > 0
  /\ actions' = Push(actions, a, WindowSize)
  /\ keys' = IF KeyOf[a] = NoKey THEN keys ELSE Push(keys, KeyOf[a], KeyWindowSize)
  /\ UNCHANGED <<flags, iteration, verdict, warnings>>

Says(v) ==
  /\ verdict' = v
  /\ warnings' = IF v = "WARN" THEN warnings + 1 ELSE 0

(* Mutant: the key's warning is not remembered.                            *)
KeyVerdictForgets ==
  /\ KeyCycles
  /\ Says(IF keyWarned THEN "STOP" ELSE "WARN")
  /\ UNCHANGED flags

(* check, in the order of its tests: the cap on iterations ...             *)
CapVerdict == UNCHANGED <<flags, verdict, warnings>>

(* ... a repeated key, which hides whatever the other window holds ...     *)
KeyVerdict ==
  /\ KeyCycles
  /\ keyWarned' = TRUE
  /\ Says(IF keyWarned THEN "STOP" ELSE "WARN")
  /\ UNCHANGED warned

(* ... a stall ...                                                         *)
StallVerdict ==
  /\ ~KeyCycles /\ Stalled
  /\ keyWarned' = (keyWarned /\ keys = <<>>)
  /\ warned' = TRUE
  /\ Says(IF warned THEN "STOP" ELSE "WARN")

(* ... or neither.                                                         *)
ClearVerdict ==
  /\ ~KeyCycles /\ ~Stalled
  /\ keyWarned' = (keyWarned /\ keys = <<>>)
  /\ warned' = (warned /\ actions = <<>>)
  /\ Says("OK")

(* The head of an iteration of _invoke_loop.                               *)
Check(i) ==
  /\ iteration[i] < RoleIterations
  /\ iteration' = [iteration EXCEPT ![i] = @ + 1]
  /\ \/ iteration[i] + 1 >= MaxIterations /\ CapVerdict
     \/ /\ iteration[i] + 1 < MaxIterations
        /\ KeyVerdict \/ StallVerdict \/ ClearVerdict
  /\ UNCHANGED windows

(* The invocation ends, in any way, and another one takes its place; the   *)
(* guard keeps what it knows.                                              *)
NextInvocation(i) ==
  /\ iteration[i] > 0
  /\ iteration' = [iteration EXCEPT ![i] = 0]
  /\ UNCHANGED <<windows, flags, verdict, warnings>>

(* Mutant: the flags survive reset.                                        *)
ResetWindows ==
  /\ actions' = <<>> /\ keys' = <<>>
  /\ verdict' = "none" /\ warnings' = 0
  /\ UNCHANGED <<flags, iteration>>

(* reset, called by the application at any time.                           *)
Reset ==
  /\ actions' = <<>> /\ keys' = <<>>
  /\ warned' = FALSE /\ keyWarned' = FALSE
  /\ verdict' = "none" /\ warnings' = 0
  /\ UNCHANGED iteration

Next ==
  \/ \E i \in Invocations :
       Check(i) \/ NextInvocation(i) \/ \E a \in Actions : RecordAction(i, a)
  \/ Reset

Spec == Init /\ [][Next]_vars

-----------------------------------------------------------------------------
(* Types; the deques keep their maxlen.                                    *)
TypeOK ==
  /\ actions \in Seq(Actions) /\ Len(actions) <= WindowSize
  /\ keys \in Seq({KeyOf[a] : a \in Actions} \ {NoKey}) /\ Len(keys) <= KeyWindowSize
  /\ warned \in BOOLEAN /\ keyWarned \in BOOLEAN
  /\ iteration \in [Invocations -> 0..RoleIterations]
  /\ verdict \in {"none", "OK", "WARN", "STOP"} /\ warnings \in Nat

(* The two detectors have a flag each, and the first one's early return    *)
(* leaves the second one's as it is; still no repetition is met by more    *)
(* than three warnings in a row before the guard says STOP, or OK (check). *)
WarningsAreFew == warnings <= 3

(* STOP never comes out of the blue: below the iteration cap it follows a  *)
(* WARN (or a STOP) with no OK and no reset in between, whichever detector *)
(* it comes from and however the invocations mix (check, reset).           *)
StopsAreWarned ==
  [][verdict' = "STOP" /\ verdict # "STOP" => verdict = "WARN"]_vars
=============================================================================
