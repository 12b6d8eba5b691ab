------------------------------ MODULE RowStore ------------------------------
(***************************************************************************)
(* What SqliteMemoryStore promises whoever shares it: one table of rows.   *)
(* Each write takes effect at one moment, whole, and after every write     *)
(* whose row it can see, or never.  One that returns has taken effect, one *)
(* that raises never will, and one that is cancelled still may, once.      *)
(* Reads may see a row before its write has taken effect, and though it    *)
(* never will: they promise no more than "read uncommitted".               *)
(***************************************************************************)
EXTENDS Naturals

CONSTANTS Writers, Keys, KeyOf

VARIABLES
  status,  \* status[w]: what has become of the write of w
  now,     \* now[w]: when it was called, 0 before
  rows,    \* rows[k]: when the write was called that made row k, 0 for none
  got      \* the row the latest read has returned

vars == <<status, now, rows, got>>

Pending == {"pending", "abandoned"}

Init ==
  /\ status = [w \in Writers |-> "idle"] /\ now = [w \in Writers |-> 0]
  /\ rows = [k \in Keys |-> 0] /\ got = 0

Call(w) ==
  /\ status[w] = "idle"
  /\ status' = [status EXCEPT ![w] = "pending"]
  /\ \A v \in Writers : now[v] < now'[w]
  /\ now' = [now EXCEPT ![w] = now'[w]]
  /\ UNCHANGED <<rows, got>>

(* The write takes effect: its row is newer than all there are.            *)
Effect(w) ==
  /\ status[w] \in Pending
  /\ \A k \in Keys : rows[k] < now[w]
  /\ rows' = [rows EXCEPT ![KeyOf[w]] = now[w]]
  /\ status' = [status EXCEPT ![w] = IF @ = "pending" THEN "written" ELSE "gone"]
  /\ UNCHANGED <<now, got>>

Fail(w) ==
  /\ status[w] \in Pending
  /\ status' = [status EXCEPT ![w] = IF @ = "pending" THEN "failed" ELSE "gone"]
  /\ UNCHANGED <<now, rows, got>>

Return(w) ==
  /\ \/ status[w] = "written" /\ status' = [status EXCEPT ![w] = "returned"]
     \/ status[w] = "failed" /\ status' = [status EXCEPT ![w] = "raised"]
  /\ UNCHANGED <<now, rows, got>>

Cancel(w) ==
  /\ \/ /\ status[w] = "pending"
        /\ \E s \in {"abandoned", "gone"} : status' = [status EXCEPT ![w] = s]
     \/ /\ status[w] \in {"written", "failed"}
        /\ status' = [status EXCEPT ![w] = "gone"]
  /\ UNCHANGED <<now, rows, got>>

Read(k) ==
  /\ got' \in {rows[k]} \cup {now[w] : w \in {v \in Writers : /\ KeyOf[v] = k
                                                             /\ status[v] \in Pending}}
  /\ UNCHANGED <<status, now, rows>>

(* What has taken effect stays, and nothing else ever will.                *)
Crash ==
  /\ status' = [w \in Writers |->
                  IF status[w] \in {"pending", "abandoned", "written", "failed"}
                  THEN "gone" ELSE status[w]]
  /\ UNCHANGED <<now, rows, got>>

Next ==
  \/ \E w \in Writers : Call(w) \/ Effect(w) \/ Fail(w) \/ Return(w) \/ Cancel(w)
  \/ \E k \in Keys : Read(k)
  \/ Crash
=============================================================================
