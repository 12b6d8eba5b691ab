----------------------------- MODULE MemoryStore -----------------------------
(***************************************************************************)
(* SqliteMemoryStore of memory/store.py: writes take an asyncio lock and   *)
(* run in a worker thread, reads run in worker threads without the lock,   *)
(* and all of them share one SQLite connection, so that they share its     *)
(* open transaction too.  A cancelled write gives the lock back at once;   *)
(* its thread runs on.                                                     *)
(*                                                                         *)
(* Each task writes one row once.  A row is known by the moment "now" of   *)
(* the write that made it, which orders all writes; 0 is no row.           *)
(***************************************************************************)
EXTENDS Naturals, Sequences, FiniteSets, SequencesExt

CONSTANTS
  Writers,  \* tasks that call write
  Keys,     \* (tier, scope, key) triples
  KeyOf     \* KeyOf[w]: the key task w writes

ASSUME StoreAssumption ==
  /\ IsFiniteSet(Writers)
  /\ KeyOf \in [Writers -> Keys]
  /\ "nothing" \notin Keys

VARIABLES
  task,       \* task[w]: the await of write that w is parked at
  thread,     \* thread[w]: the worker thread that runs its _write_sync
  line,       \* the lock: its holder and those who wait for it, in order
  clock,      \* number of writes called so far
  now,        \* now[w]: when w called write, 0 before
  view,       \* the two tables as the connection shows them
  committed,  \* the two tables as of the latest commit
  reading,    \* what the reader waits for: a key, or "nothing"
  floor,      \* latest row acknowledged when the read began      (history)
  got,        \* the row the latest read has returned             (history)
  overtaken,  \* writes begun while a cancelled write ran on      (history)
  crashed     \* the process has been restarted

lock  == <<line, clock, now>>
reads == <<reading, floor, got>>
vars  == <<task, thread, lock, view, committed, reads, overtaken, crashed>>

Ended == {"returned", "raised", "cancelled"}

(* Threads whose task has been cancelled under them. *)
Orphans == {w \in Writers : task[w] = "cancelled" /\ thread[w] \in {"begun", "open"}}

(* Table memories and its full-text index: the row of each key.            *)
Empty == [memories |-> [k \in Keys |-> 0], memories_fts |-> [k \in Keys |-> 0]]

Init ==
  /\ task = [w \in Writers |-> "idle"] /\ thread = [w \in Writers |-> "none"]
  /\ line = <<>> /\ clock = 0 /\ now = [w \in Writers |-> 0]
  /\ view = Empty /\ committed = view
  /\ reading = "nothing" /\ floor = 0 /\ got = 0
  /\ overtaken = {} /\ crashed = FALSE

-----------------------------------------------------------------------------
(* Mutant: the latest caller is served first.                              *)
CallFirst(w) ==
  /\ task[w] = "idle"
  /\ task' = [task EXCEPT ![w] = "waiting"]
  /\ clock' = clock + 1
  /\ now' = [now EXCEPT ![w] = clock + 1]
  /\ line' = IF Len(line) < 2 THEN Append(line, w)
             ELSE << Head(line), w >> \o Tail(line)
  /\ UNCHANGED <<thread, view, committed, reads, overtaken, crashed>>

(* write takes the time and gets in line; there is no await in between.    *)
Call(w) ==
  /\ task[w] = "idle"
  /\ task' = [task EXCEPT ![w] = "waiting"]
  /\ clock' = clock + 1
  /\ now' = [now EXCEPT ![w] = clock + 1]
  /\ line' = Append(line, w)
  /\ UNCHANGED <<thread, view, committed, reads, overtaken, crashed>>

(* Mutant: the lock wakes a waiter only if it is the only one.             *)
AcquireAlone(w) ==
  /\ task[w] = "waiting"
  /\ line = <<w>>
  /\ task' = [task EXCEPT ![w] = "holding"]
  /\ thread' = [thread EXCEPT ![w] = "queued"]
  /\ overtaken' = IF Orphans = {} THEN overtaken ELSE overtaken \cup {w}
  /\ UNCHANGED <<lock, view, committed, reads, crashed>>

(* The lock is free: the first in line hands its write to a thread.        *)
Acquire(w) ==
  /\ task[w] = "waiting"
  /\ Head(line) = w
  /\ task' = [task EXCEPT ![w] = "holding"]
  /\ thread' = [thread EXCEPT ![w] = "queued"]
  /\ overtaken' = IF Orphans = {} THEN overtaken ELSE overtaken \cup {w}
  /\ UNCHANGED <<lock, view, committed, reads, crashed>>

Begin(w) ==
  /\ thread[w] = "queued"
  /\ thread' = [thread EXCEPT ![w] = "begun"]
  /\ UNCHANGED <<task, lock, view, committed, reads, overtaken, crashed>>

(* Mutant: the trigger on INSERT is missing.                               *)
IndexedOnUpdate(fts, w) ==
  [fts EXCEPT ![KeyOf[w]] = IF view.memories[KeyOf[w]] = 0 THEN @ ELSE now[w]]

(* The triggers: the index loses the old row, if any, and gets the new.    *)
Indexed(fts, w) == [fts EXCEPT ![KeyOf[w]] = now[w]]

(* Mutant: a row that is there stays.                                      *)
UpsertNothing(w) ==
  /\ view' = [view EXCEPT !.memories[KeyOf[w]] = IF @ = 0 THEN now[w] ELSE @]
  /\ thread' = [thread EXCEPT ![w] = "open"]
  /\ UNCHANGED committed

(* A statement has raised: the open transaction is undone, all of it.      *)
Rollback(w) ==
  /\ view' = committed
  /\ thread' = [thread EXCEPT ![w] = "failed"]
  /\ UNCHANGED committed

(* INSERT ... ON CONFLICT DO UPDATE, in the connection's transaction.      *)
Upsert(w) ==
  /\ view' = [view EXCEPT !.memories[KeyOf[w]] = now[w],
                          !.memories_fts = Indexed(@, w)]
  /\ thread' = [thread EXCEPT ![w] = "open"]
  /\ UNCHANGED committed

(* The commit, whatever the transaction holds by now.                      *)
CommitAll(w) ==
  /\ committed' = view
  /\ thread' = [thread EXCEPT ![w] = "written"]
  /\ UNCHANGED view

(* _write_sync: each of its two calls may raise a sqlite3.Error.           *)
Execute(w) ==
  /\ \/ thread[w] = "begun" /\ (Upsert(w) \/ Rollback(w))
     \/ thread[w] = "open" /\ (CommitAll(w) \/ Rollback(w))
  /\ UNCHANGED <<task, lock, reads, overtaken, crashed>>

(* The thread is over: write lets go of the lock, and returns or raises.   *)
Return(w) ==
  /\ task[w] = "holding"
  /\ \/ thread[w] = "written" /\ task' = [task EXCEPT ![w] = "returned"]
     \/ thread[w] = "failed" /\ task' = [task EXCEPT ![w] = "raised"]
  /\ line' = Tail(line)
  /\ UNCHANGED <<thread, clock, now, view, committed, reads, overtaken, crashed>>

(* The writer is cancelled: it leaves the line and the lock.  A thread     *)
(* that has not begun never will; one that has runs on.                    *)
Cancel(w) ==
  /\ task[w] \in {"waiting", "holding"}
  /\ task' = [task EXCEPT ![w] = "cancelled"]
  /\ thread' = IF thread[w] = "queued" THEN [thread EXCEPT ![w] = "none"] ELSE thread
  /\ line' = RemoveFirst(line, w)
  /\ UNCHANGED <<clock, now, view, committed, reads, overtaken, crashed>>

-----------------------------------------------------------------------------
(* The latest row of k whose write has returned.                           *)
Acknowledged(k) ==
  Max({0} \cup {now[w] : w \in {v \in Writers \ overtaken :
                                  KeyOf[v] = k /\ task[v] = "returned"}})

(* read, search and the lists go to a thread without the lock.             *)
CallRead ==
  /\ reading = "nothing"
  /\ \E k \in Keys : reading' = k /\ floor' = Acknowledged(k)
  /\ UNCHANGED <<task, thread, lock, view, committed, got, overtaken, crashed>>

(* search for a word all rows of k have: it is the index that knows them,  *)
(* and the table that holds them.                                          *)
Found(k) == IF view.memories_fts[k] = 0 THEN 0 ELSE view.memories[k]

(* The SELECT, on the shared connection: it sees the open transaction.     *)
Select ==
  /\ reading # "nothing"
  /\ got' \in {view.memories[reading], Found(reading)}
  /\ reading' = "nothing"
  /\ UNCHANGED <<task, thread, lock, view, committed, floor, overtaken, crashed>>

(* The process dies and is started again: what was not committed is gone,  *)
(* and so are its tasks and threads.                                       *)
Crash ==
  /\ ~crashed
  /\ crashed' = TRUE
  /\ task' = [w \in Writers |->
                IF task[w] \in {"waiting", "holding"} THEN "cancelled" ELSE task[w]]
  /\ thread' = [w \in Writers |-> "none"]
  /\ line' = <<>>
  /\ view' = committed
  /\ reading' = "nothing" /\ floor' = 0
  /\ UNCHANGED <<clock, now, committed, got, overtaken>>

Write(w) == Call(w) \/ Acquire(w) \/ Return(w) \/ Cancel(w)
Thread(w) == Begin(w) \/ Execute(w)

Next ==
  \/ \E w \in Writers : Write(w) \/ Thread(w)
  \/ CallRead \/ Select
  \/ Crash

(* Fair: the event loop and the worker threads.                            *)
Fairness ==
  \A w \in Writers : WF_vars(Acquire(w) \/ Return(w)) /\ WF_vars(Thread(w))

Spec == Init /\ [][Next]_vars /\ Fairness

-----------------------------------------------------------------------------
(* Types; who waits for the lock or holds it is in line, the holder first. *)
TypeOK ==
  /\ task \in [Writers -> {"idle", "waiting", "holding"} \cup Ended]
  /\ thread \in [Writers -> {"none", "queued", "begun", "open", "written", "failed"}]
  /\ line \in Seq(Writers) /\ IsInjective(line)
  /\ \A w \in Writers :
       /\ w \in ToSet(line) <=> task[w] \in {"waiting", "holding"}
       /\ task[w] = "holding" => Head(line) = w
       /\ thread[w] = "queued" => task[w] = "holding"
  /\ clock \in 0..Cardinality(Writers) /\ now \in [Writers -> 0..clock]
  /\ {view, committed} \subseteq [{"memories", "memories_fts"} -> [Keys -> 0..clock]]
  /\ reading \in Keys \cup {"nothing"} /\ floor \in 0..clock /\ got \in 0..clock
  /\ overtaken \subseteq Writers /\ crashed \in BOOLEAN

(* A write that has returned is durable, restarts included: its row or a   *)
(* later one is committed.  This is promised only to writes that began     *)
(* while no cancelled write ran on; another's rollback can undo the rest.  *)
AcknowledgedIsDurable ==
  \A w \in Writers \ overtaken :
    task[w] = "returned" => committed.memories[KeyOf[w]] >= now[w]

(* A row is never replaced by an older one (updated_at does not go back),  *)
(* although the time is taken before the lock: the lock serves in order.   *)
(* A cancelled write that runs on may break this for writes it overtakes.  *)
NewerRowsWin ==
  [][overtaken = {} => \A k \in Keys : committed.memories[k] <= committed'.memories[k]]_vars

(* The write of w as RowStore sees it. *)
Status(w) ==
  IF task[w] \in {"waiting", "holding"}
  THEN IF thread[w] \in {"written", "failed"} THEN thread[w] ELSE "pending"
  ELSE IF task[w] = "cancelled"
  THEN IF thread[w] \in {"begun", "open"} THEN "abandoned" ELSE "gone"
  ELSE task[w]

Rows == INSTANCE RowStore WITH
  status <- [w \in Writers |-> Status(w)],
  rows <- committed.memories

(* The store is that of RowStore: a write takes effect at one moment, in   *)
(* the order of the calls, or never, though its statement and its commit   *)
(* are two steps on a connection that others use, roll back and lose.      *)
(* A write that overtakes a cancelled one puts an end to that.             *)
WritesAreAtomic ==
  /\ Rows!Init
  /\ [][overtaken = {} => Rows!Next \/ UNCHANGED Rows!vars]_vars

(* A read returns no row older than the latest one acknowledged when it    *)
(* was called, whatever is written, rolled back or cancelled meanwhile,    *)
(* and a search does not miss it: the index follows every insert, update,  *)
(* rollback and restart.                                                   *)
ReadsAreCurrent == reading = "nothing" => got >= floor

(* A write comes to an end: the lock is passed on by writers that return,  *)
(* raise or are cancelled.                                                 *)
WritesEnd == \A w \in Writers : task[w] = "waiting" ~> task[w] \in Ended
=============================================================================
