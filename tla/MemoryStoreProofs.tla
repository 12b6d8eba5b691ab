------------------------- MODULE MemoryStoreProofs -------------------------
(* Proofs about MemoryStore for every set of writers and keys, whatever is *)
(* cancelled, rolled back or lost in a crash.                              *)
EXTENDS MemoryStore, SequenceTheorems, FiniteSetTheorems, WellFoundedInduction,
        TLAPS

-----------------------------------------------------------------------------
(* The line: what it is to lose one element, or to get one more.           *)

Shortened(s, t, i) ==
  /\ Len(t) = Len(s) - 1
  /\ \A j \in 1..Len(t) : t[j] = s[IF j < i THEN j ELSE j + 1]

(* The head goes.                                                          *)
LEMMA HeadLeaves ==
  ASSUME NEW S, NEW s \in Seq(S), s # <<>>
  PROVE  Tail(s) \in Seq(S) /\ Shortened(s, Tail(s), 1) /\ 1 \in 1..Len(s)
BY DEF Shortened

(* Whoever is in the line once is removed from where it stands.            *)
LEMMA OneLeaves ==
  ASSUME NEW S, NEW s \in Seq(S), IsInjective(s), NEW i \in 1..Len(s)
  PROVE  RemoveFirst(s, s[i]) \in Seq(S) /\ Shortened(s, RemoveFirst(s, s[i]), i)
<1> DEFINE a == SubSeq(s, 1, i - 1)
           b == SubSeq(s, i + 1, Len(s))
<1>1. SelectInSeq(s, LAMBDA v : v = s[i]) = i
  <2>1. {j \in 1..Len(s) : s[j] = s[i]} = {i}
    BY DEF IsInjective
  <2>2. Min({i}) = i
    BY DEF Min
  <2> QED BY <2>1, <2>2 DEF SelectInSeq
<1>2. RemoveFirst(s, s[i]) = a \o b
  BY <1>1 DEF RemoveFirst, RemoveAt
<1>3. /\ a \in Seq(S) /\ Len(a) = i - 1 /\ \A j \in 1..i - 1 : a[j] = s[j]
  OBVIOUS
<1>4. /\ b \in Seq(S) /\ Len(b) = Len(s) - i /\ \A j \in 1..Len(s) - i : b[j] = s[i + j]
  OBVIOUS
<1> HIDE DEF a, b
<1>5. /\ a \o b \in Seq(S) /\ Len(a \o b) = Len(a) + Len(b)
      /\ \A j \in 1..Len(a) + Len(b) :
           (a \o b)[j] = IF j <= Len(a) THEN a[j] ELSE b[j - Len(a)]
  BY <1>3, <1>4, ConcatProperties
<1>6. Len(a \o b) = Len(s) - 1 /\ Len(s) \in Nat /\ i \in Nat
  BY <1>3, <1>4, <1>5
<1>7. ASSUME NEW j \in 1..Len(s) - 1
      PROVE  (a \o b)[j] = s[IF j < i THEN j ELSE j + 1]
  <2>0. (a \o b)[j] = IF j <= i - 1 THEN a[j] ELSE b[j - (i - 1)]
    BY <1>3, <1>4, <1>5, <1>6
  <2>1. CASE j < i
    BY <1>3, <1>6, <2>0, <2>1
  <2>2. CASE ~(j < i)
    <3>1. j - (i - 1) \in 1..Len(s) - i /\ i + (j - (i - 1)) = j + 1
      BY <1>6, <2>2
    <3>2. b[j - (i - 1)] = s[i + (j - (i - 1))]
      BY <1>4, <3>1
    <3> QED BY <1>6, <2>0, <2>2, <3>1, <3>2
  <2> QED BY <2>1, <2>2
<1> QED BY <1>2, <1>5, <1>6, <1>7 DEF Shortened

(* What is left is the rest, in its order.                                 *)
LEMMA Shrunk ==
  ASSUME NEW S, NEW s \in Seq(S), NEW t \in Seq(S), NEW i \in 1..Len(s),
         IsInjective(s), Shortened(s, t, i)
  PROVE  /\ IsInjective(t)
         /\ ToSet(t) = ToSet(s) \ {s[i]}
         /\ i # 1 => Head(t) = Head(s)
         /\ \A j, k \in DOMAIN t : j < k =>
              \E m, n \in DOMAIN s : m < n /\ t[j] = s[m] /\ t[k] = s[n]
<1> DEFINE f(j) == IF j < i THEN j ELSE j + 1
<1>1. DOMAIN s = 1..Len(s) /\ DOMAIN t = 1..Len(t) /\ Len(t) = Len(s) - 1
  BY DEF Shortened
<1>2. \A j \in DOMAIN t : f(j) \in DOMAIN s /\ f(j) # i /\ t[j] = s[f(j)]
  BY <1>1 DEF Shortened
<1>3. \A j, k \in DOMAIN t : j < k => f(j) < f(k)
  BY <1>1
<1>4. \A j, k \in DOMAIN t : f(j) = f(k) => j = k
  BY <1>1
<1>5. \A m \in DOMAIN s : m # i => \E j \in DOMAIN t : f(j) = m
  <2> SUFFICES ASSUME NEW m \in DOMAIN s, m # i PROVE \E j \in DOMAIN t : f(j) = m
    OBVIOUS
  <2>1. CASE m < i
    BY <1>1, <2>1
  <2>2. CASE m > i
    <3>1. m - 1 \in DOMAIN t /\ f(m - 1) = m
      BY <1>1, <2>2
    <3> QED BY <3>1
  <2> QED BY <1>1, <2>1, <2>2
<1> HIDE DEF f
<1>6. IsInjective(t)
  BY <1>2, <1>4 DEF IsInjective
<1>7. ToSet(t) = ToSet(s) \ {s[i]}
  <2>1. ASSUME NEW x \in ToSet(t) PROVE x \in ToSet(s) \ {s[i]}
    BY <1>1, <1>2, <2>1 DEF ToSet, IsInjective
  <2>2. ASSUME NEW x \in ToSet(s) \ {s[i]} PROVE x \in ToSet(t)
    <3>1. PICK m \in DOMAIN s : x = s[m] /\ m # i
      BY <2>2 DEF ToSet
    <3>2. PICK j \in DOMAIN t : f(j) = m
      BY <1>5, <3>1
    <3> QED BY <1>2, <3>1, <3>2 DEF ToSet
  <2> QED BY <2>1, <2>2
<1>8. i # 1 => Head(t) = Head(s)
  <2> SUFFICES ASSUME i # 1 PROVE Head(t) = Head(s)
    OBVIOUS
  <2>1. 1 \in DOMAIN t /\ 1 < i /\ t # <<>> /\ s # <<>>
    BY <1>1
  <2>2. f(1) = 1
    BY <2>1 DEF f
  <2> QED BY <1>2, <2>1, <2>2
<1> QED BY <1>2, <1>3, <1>6, <1>7, <1>8

(* A newcomer stands at the end.                                           *)
LEMMA Grown ==
  ASSUME NEW S, NEW s \in Seq(S), NEW e \in S, IsInjective(s), e \notin ToSet(s)
  PROVE  /\ Append(s, e) \in Seq(S)
         /\ IsInjective(Append(s, e))
         /\ ToSet(Append(s, e)) = ToSet(s) \cup {e}
         /\ s # <<>> => Head(Append(s, e)) = Head(s)
         /\ \A j, k \in DOMAIN Append(s, e) : j < k =>
              /\ j \in DOMAIN s /\ Append(s, e)[j] = s[j]
              /\ \/ k \in DOMAIN s /\ Append(s, e)[k] = s[k]
                 \/ Append(s, e)[k] = e
<1> DEFINE t == Append(s, e)
<1>1. /\ t \in Seq(S) /\ Len(t) = Len(s) + 1 /\ t[Len(s) + 1] = e
      /\ \A j \in 1..Len(s) : t[j] = s[j]
      /\ DOMAIN t = 1..Len(s) + 1 /\ DOMAIN s = 1..Len(s)
  OBVIOUS
<1> HIDE DEF t
<1>2. \A j \in DOMAIN t : j = Len(s) + 1 \/ j \in DOMAIN s
  BY <1>1
<1>3. IsInjective(t)
  BY <1>1, <1>2 DEF IsInjective, ToSet
<1>4. ToSet(t) = ToSet(s) \cup {e}
  <2>1. \A j \in DOMAIN s : j \in DOMAIN t
    BY <1>1
  <2>2. Len(s) + 1 \in DOMAIN t
    BY <1>1
  <2> QED BY <1>1, <1>2, <2>1, <2>2 DEF ToSet
<1>5. s # <<>> => Head(t) = Head(s)
  BY <1>1
<1>6. ASSUME NEW j \in DOMAIN t, NEW k \in DOMAIN t, j < k
      PROVE  j \in DOMAIN s /\ (k \in DOMAIN s \/ k = Len(s) + 1)
  BY <1>1, <1>6
<1> QED BY <1>1, <1>3, <1>4, <1>5, <1>6 DEF t

-----------------------------------------------------------------------------
(* Writes whose thread may still change the tables. *)
Executing(w) == thread[w] \in {"queued", "begun", "open"}

(* The inductive invariant, part by part.                                  *)

(* The line is in the order of the calls, behind whoever has left it for a *)
(* thread.                                                                 *)
Ordered == \A i, j \in DOMAIN line : i < j => now[line[i]] < now[line[j]]

Behind ==
  \A v, w \in Writers :
    task[v] = "waiting" /\ (task[w] \in {"holding", "returned"} \/ Executing(w))
      => now[w] < now[v]

(* A thread runs for the holder of the lock or for a cancelled write.      *)
Owned ==
  \A w \in Writers :
    /\ Executing(w) => task[w] \in {"holding", "cancelled"}
    /\ task[w] \in {"idle", "waiting"} => thread[w] = "none"

(* The clock counts the calls. *)
Called == {w \in Writers : task[w] # "idle"}
Counted == clock = Cardinality(Called)

(* The index is the table's.                                               *)
Tabled ==
  /\ view.memories_fts = view.memories
  /\ committed.memories_fts = committed.memories

(* A write that overtook nobody has the connection to itself as long as it *)
(* holds the lock, and finds its row there; what writes after it is newer. *)
Alone ==
  \A w \in Writers \ overtaken :
    task[w] = "holding" => \A v \in Writers \ {w} : ~Executing(v)

Opened ==
  \A w \in Writers \ overtaken :
    task[w] = "holding" /\ thread[w] = "open" => view.memories[KeyOf[w]] >= now[w]

Safe ==
  \A w \in Writers \ overtaken :
    task[w] = "returned" \/ (task[w] = "holding" /\ thread[w] = "written") =>
      /\ committed.memories[KeyOf[w]] >= now[w]
      /\ view.memories[KeyOf[w]] >= now[w]
      /\ \A v \in Writers : Executing(v) => now[w] < now[v]

(* The floor of a read is a row that was acknowledged.                     *)
Witnessed ==
  reading # "nothing" =>
    \/ floor = 0
    \/ \E w \in Writers \ overtaken :
         task[w] = "returned" /\ KeyOf[w] = reading /\ now[w] = floor

(* As long as no write has overtaken a cancelled one, one thread executes  *)
(* at a time, and whatever is yet to be written is newer than all rows.    *)
Forward ==
  overtaken = {} =>
    /\ \A v, w \in Writers : Executing(v) /\ Executing(w) => v = w
    /\ \A k \in Keys : committed.memories[k] <= view.memories[k]
    /\ \A v \in Writers :
         task[v] = "waiting" \/ thread[v] \in {"queued", "begun"}
           => \A k \in Keys : view.memories[k] < now[v]

StoreInv ==
  /\ TypeOK /\ Counted /\ Ordered /\ Behind /\ Owned /\ Tabled
  /\ Alone /\ Opened /\ Safe /\ Witnessed /\ ReadsAreCurrent /\ Forward

-----------------------------------------------------------------------------
(* Consequences of the types, and what the statements do to the tables.    *)

Tables(n) == [{"memories", "memories_fts"} -> [Keys -> 0..n]]

USE StoreAssumption DEF Ended, lock, reads

(* Moments are numbers.                                                    *)
LEMMA Moments ==
  ASSUME TypeOK
  PROVE  /\ clock \in Nat
         /\ \A w \in Writers : now[w] \in Nat /\ now[w] <= clock
         /\ view \in Tables(clock) /\ committed \in Tables(clock)
         /\ \A k \in Keys :
              /\ view.memories[k] \in Nat /\ view.memories[k] <= clock
              /\ committed.memories[k] \in Nat /\ committed.memories[k] <= clock
<1>1. Cardinality(Writers) \in Nat
  BY FS_CardinalityType
<1>2. clock \in Nat
  BY <1>1 DEF TypeOK
<1>3. view \in Tables(clock) /\ committed \in Tables(clock)
  BY DEF TypeOK, Tables
<1>4. view.memories \in [Keys -> 0..clock] /\ committed.memories \in [Keys -> 0..clock]
  BY <1>3 DEF Tables
<1> QED BY <1>2, <1>3, <1>4 DEF TypeOK

(* What an upsert does to the table and to its index.                      *)
LEMMA UpsertShape ==
  ASSUME TypeOK, NEW w \in Writers, Upsert(w)
  PROVE  /\ view' \in Tables(clock)
         /\ view'.memories = [view.memories EXCEPT ![KeyOf[w]] = now[w]]
         /\ view'.memories_fts = [view.memories_fts EXCEPT ![KeyOf[w]] = now[w]]
<1>1. view \in Tables(clock) /\ now[w] \in 0..clock
  BY Moments DEF TypeOK
<1>2. view' = [view EXCEPT !.memories[KeyOf[w]] = now[w],
                           !.memories_fts = Indexed(@, w)]
  BY DEF Upsert
<1>3. /\ view'.memories = [view.memories EXCEPT ![KeyOf[w]] = now[w]]
      /\ view'.memories_fts = [view.memories_fts EXCEPT ![KeyOf[w]] = now[w]]
  BY <1>1, <1>2 DEF Tables, Indexed
<1>4. view' \in Tables(clock)
  BY <1>1, <1>2 DEF Tables, Indexed
<1> QED BY <1>3, <1>4

(* The invariant holds in a store that was just opened.                    *)
LEMMA InitInv == Init => StoreInv
<1> SUFFICES ASSUME Init PROVE StoreInv
  OBVIOUS
<1>1. Called = {} /\ Counted
  BY FS_EmptySet DEF Init, Called, Counted
<1>2. line \in Seq(Writers) /\ IsInjective(line) /\ ToSet(line) = {} /\ Ordered
  BY DEF Init, IsInjective, ToSet, Ordered
<1>3. clock \in 0..Cardinality(Writers)
  BY FS_CardinalityType DEF Init
<1>4. TypeOK
  <2>1. Empty \in [{"memories", "memories_fts"} -> [Keys -> 0..0]]
    <3>1. \A e \in [Keys -> 0..0] :
            [memories |-> e, memories_fts |-> e] \in [{"memories", "memories_fts"} -> [Keys -> 0..0]]
      OBVIOUS
    <3> QED BY <3>1 DEF Empty
  <2>2. {view, committed} \subseteq [{"memories", "memories_fts"} -> [Keys -> 0..clock]]
    BY <2>1 DEF Init
  <2>3. /\ task \in [Writers -> {"idle", "waiting", "holding"} \cup Ended]
        /\ thread \in [Writers -> {"none", "queued", "begun", "open", "written", "failed"}]
        /\ \A w \in Writers : task[w] = "idle" /\ thread[w] = "none"
    BY DEF Init
  <2>4. /\ now \in [Writers -> 0..clock] /\ floor \in 0..clock /\ got \in 0..clock
        /\ reading \in Keys \cup {"nothing"} /\ overtaken \subseteq Writers
    BY DEF Init
  <2>5. crashed \in BOOLEAN
    BY DEF Init
  <2> QED BY <1>2, <1>3, <2>2, <2>3, <2>4, <2>5 DEF TypeOK
<1>5. Behind /\ Owned /\ Tabled /\ Alone /\ Opened /\ Safe
  BY DEF Init, Behind, Owned, Tabled, Alone, Opened, Safe, Executing, Empty
<1>6. Witnessed /\ ReadsAreCurrent /\ Forward
  BY DEF Init, Witnessed, ReadsAreCurrent, Forward, Executing, Empty
<1> QED BY <1>1, <1>2, <1>4, <1>5, <1>6 DEF StoreInv

-----------------------------------------------------------------------------
(* The parts that speak of the tables do not mind a step that leaves the   *)
(* tables alone and starts and acknowledges no write.                      *)
LEMMA Undisturbed ==
  ASSUME StoreInv, UNCHANGED <<view, committed, reads, overtaken>>,
         \A w \in Writers :
           /\ task'[w] = "returned" => task[w] = "returned" /\ thread'[w] = thread[w]
           /\ task[w] = "returned" => task'[w] = "returned"
           /\ task'[w] = "holding" => task[w] = "holding"
           /\ Executing(w)' => Executing(w)
           /\ thread'[w] = "open" => thread[w] = "open"
           /\ thread'[w] = "written" => thread[w] = "written"
           /\ \/ now'[w] = now[w]
              \/ task[w] = "idle" /\ task'[w] = "waiting"
  PROVE  Tabled' /\ Alone' /\ Opened' /\ Safe' /\ Witnessed' /\ ReadsAreCurrent'
<1>0. /\ \A w \in Writers : Executing(w) => task[w] \in {"holding", "cancelled"}
      /\ \A w \in Writers : task'[w] = "waiting" => task'[w] \notin {"holding", "returned"}
  BY DEF StoreInv, Owned
<1>1. Tabled' /\ ReadsAreCurrent'
  BY DEF StoreInv, Tabled, ReadsAreCurrent
<1>2. Alone'
  BY DEF StoreInv, Alone
<1>3. Opened'
  BY <1>0 DEF StoreInv, Opened
<1>4. Safe'
  BY <1>0 DEF StoreInv, Safe
<1>5. Witnessed'
  BY <1>0 DEF StoreInv, Witnessed
<1> QED BY <1>1, <1>2, <1>3, <1>4, <1>5

(* A write is called: it is the newest, and last in line.                  *)
LEMMA CallInv ==
  ASSUME StoreInv, NEW w \in Writers, Call(w)
  PROVE  StoreInv'
<1>0. /\ TypeOK /\ Owned /\ clock \in Nat /\ task[w] = "idle" /\ thread[w] = "none"
      /\ \A v \in Writers : now[v] \in Nat /\ now[v] <= clock
  BY Moments DEF StoreInv, Owned, Call
<1>1. /\ \A v \in Writers : task'[v] = IF v = w THEN "waiting" ELSE task[v]
      /\ \A v \in Writers : now'[v] = IF v = w THEN clock + 1 ELSE now[v]
      /\ line' = Append(line, w) /\ clock' = clock + 1
      /\ UNCHANGED <<thread, view, committed, reading, floor, got, overtaken, crashed>>
  BY <1>0 DEF Call, TypeOK
<1>2. /\ line \in Seq(Writers) /\ IsInjective(line)
      /\ \A v \in Writers : v \in ToSet(line) <=> task[v] \in {"waiting", "holding"}
  BY <1>0 DEF TypeOK
<1>3. /\ line' \in Seq(Writers) /\ IsInjective(line')
      /\ ToSet(line') = ToSet(line) \cup {w}
      /\ line # <<>> => Head(line') = Head(line)
      /\ \A j, k \in DOMAIN line' : j < k =>
           /\ j \in DOMAIN line /\ line'[j] = line[j]
           /\ \/ k \in DOMAIN line /\ line'[k] = line[k]
              \/ line'[k] = w
  BY <1>0, <1>1, <1>2, Grown
<1>4. Counted' /\ clock' \in 0..Cardinality(Writers)
  <2>1. Called' = Called \cup {w} /\ w \notin Called /\ Called' \subseteq Writers
    BY <1>0, <1>1 DEF Called
  <2>2. IsFiniteSet(Called)
    BY FS_Subset DEF Called
  <2>3. Cardinality(Called') = Cardinality(Called) + 1
    BY <2>1, <2>2, FS_AddElement
  <2>4. Cardinality(Called') <= Cardinality(Writers)
    BY <2>1, FS_Subset
  <2>5. Cardinality(Called) \in Nat /\ Cardinality(Writers) \in Nat
    BY <2>2, FS_CardinalityType
  <2> QED BY <1>1, <2>3, <2>4, <2>5 DEF StoreInv, Counted
<1>5. TypeOK'
  <2>1. \A v \in Writers : task[v] = "holding" => line # <<>>
    BY <1>2 DEF ToSet
  <2>2. \A v \in Writers :
          /\ v \in ToSet(line') <=> task'[v] \in {"waiting", "holding"}
          /\ task'[v] = "holding" => Head(line') = v
          /\ thread'[v] = "queued" => task'[v] = "holding"
    <3>1. \A v \in Writers : v \in ToSet(line') <=> task'[v] \in {"waiting", "holding"}
      BY <1>1, <1>2, <1>3
    <3>2. \A v \in Writers :
            /\ task'[v] = "holding" => Head(line') = v
            /\ thread'[v] = "queued" => task'[v] = "holding"
      <4>1. /\ \A v \in Writers : v # w => task'[v] = task[v]
            /\ task'[w] = "waiting" /\ thread' = thread /\ thread[w] = "none"
        BY <1>0, <1>1
      <4>2. \A v \in Writers : task[v] = "holding" => Head(line) = v
        BY <1>0 DEF TypeOK
      <4>3. \A v \in Writers : thread[v] = "queued" => task[v] = "holding"
        BY <1>0 DEF TypeOK
      <4>4. line # <<>> => Head(line') = Head(line)
        BY <1>3
      <4> QED BY <2>1, <4>1, <4>2, <4>3, <4>4
    <3> QED BY <3>1, <3>2
  <2>3. /\ task' \in [Writers -> {"idle", "waiting", "holding"} \cup Ended]
        /\ now' = [now EXCEPT ![w] = clock + 1]
    BY <1>0 DEF Call, TypeOK
  <2>4. now' \in [Writers -> 0..clock']
    BY <1>0, <1>1, <2>3 DEF TypeOK
  <2>5. {view, committed} \subseteq [{"memories", "memories_fts"} -> [Keys -> 0..clock']]
    <3>1. \A f \in [Keys -> 0..clock] : f \in [Keys -> 0..clock']
      BY <1>0, <1>1
    <3> QED BY <1>0, <3>1 DEF TypeOK
  <2>6. floor \in 0..clock' /\ got \in 0..clock'
    BY <1>0, <1>1 DEF TypeOK
  <2> QED BY <1>0, <1>1, <1>3, <1>4, <2>2, <2>3, <2>4, <2>5, <2>6 DEF TypeOK
<1>6. Ordered'
  <2> SUFFICES ASSUME NEW j \in DOMAIN line', NEW k \in DOMAIN line', j < k
               PROVE  now'[line'[j]] < now'[line'[k]]
    BY DEF Ordered
  <2>1. j \in DOMAIN line /\ line'[j] = line[j] /\ line[j] \in Writers /\ line[j] # w
    BY <1>0, <1>2, <1>3 DEF ToSet
  <2>2. CASE k \in DOMAIN line /\ line'[k] = line[k]
    <3>1. line[k] \in Writers /\ line[k] # w
      BY <1>0, <1>2, <2>2 DEF ToSet
    <3> QED BY <1>1, <2>1, <2>2, <3>1 DEF StoreInv, Ordered
  <2>3. CASE line'[k] = w
    BY <1>0, <1>1, <2>1, <2>3
  <2> QED BY <1>3, <2>2, <2>3
<1>7. Behind' /\ Owned'
  BY <1>0, <1>1 DEF StoreInv, Behind, Owned, Executing
<1>8. Tabled' /\ Alone' /\ Opened' /\ Safe' /\ Witnessed' /\ ReadsAreCurrent'
  BY <1>0, <1>1, Undisturbed DEF Executing
<1>9. Forward'
  <2>1. \A k \in Keys : view.memories[k] \in Nat /\ view.memories[k] <= clock
    BY Moments DEF StoreInv
  <2> QED BY <1>0, <1>1, <2>1 DEF StoreInv, Forward, Executing
<1> QED BY <1>4, <1>5, <1>6, <1>7, <1>8, <1>9 DEF StoreInv

(* The lock is taken: by the oldest that waits, and while a cancelled      *)
(* write runs on only by one that is from then on known to overtake it.    *)
LEMMA AcquireInv ==
  ASSUME StoreInv, NEW w \in Writers, Acquire(w)
  PROVE  StoreInv'
<1>0. /\ TypeOK /\ Owned /\ task[w] = "waiting" /\ thread[w] = "none" /\ Head(line) = w
      /\ \A v \in Writers : now[v] \in Nat
  BY Moments DEF StoreInv, Owned, Acquire
<1>1. /\ \A v \in Writers : task'[v] = IF v = w THEN "holding" ELSE task[v]
      /\ \A v \in Writers : thread'[v] = IF v = w THEN "queued" ELSE thread[v]
      /\ overtaken \subseteq overtaken' /\ overtaken' \subseteq overtaken \cup {w}
      /\ w \notin overtaken' => Orphans = {}
      /\ UNCHANGED <<line, clock, now, view, committed, reading, floor, got, crashed>>
  BY <1>0 DEF Acquire, TypeOK
<1>2. \A v \in Writers : task[v] # "holding"
  BY <1>0 DEF TypeOK
<1>3. Orphans = {} => \A v \in Writers : ~Executing(v)
  BY <1>0, <1>2 DEF Orphans, Executing, Owned, TypeOK
<1>4. TypeOK'
  <2>1. /\ task' \in [Writers -> {"idle", "waiting", "holding"} \cup Ended]
        /\ thread' \in [Writers -> {"none", "queued", "begun", "open", "written", "failed"}]
    BY <1>0 DEF Acquire, TypeOK
  <2>2. \A v \in Writers :
          /\ v \in ToSet(line) <=> task'[v] \in {"waiting", "holding"}
          /\ task'[v] = "holding" => Head(line) = v
          /\ thread'[v] = "queued" => task'[v] = "holding"
    BY <1>0, <1>1, <1>2 DEF TypeOK
  <2> QED BY <1>0, <1>1, <2>1, <2>2 DEF TypeOK
<1>5. Counted' /\ Ordered'
  <2>1. Called' = Called
    BY <1>0, <1>1 DEF Called
  <2> QED BY <1>1, <2>1 DEF StoreInv, Counted, Ordered
<1>6. Behind'
  <2> SUFFICES ASSUME NEW v \in Writers, NEW u \in Writers, task'[v] = "waiting",
                      task'[u] \in {"holding", "returned"} \/ Executing(u)'
               PROVE  now[u] < now[v]
    BY <1>1 DEF Behind
  <2>1. CASE u = w
    <3>1. line \in Seq(Writers) /\ v \in ToSet(line) /\ v # w
      BY <1>0, <1>1 DEF TypeOK
    <3>2. PICK i \in DOMAIN line : line[i] = v
      BY <3>1 DEF ToSet
    <3>3. DOMAIN line = 1..Len(line) /\ 1 \in DOMAIN line /\ line[1] = w /\ 1 < i
      BY <1>0, <3>1, <3>2
    <3> QED BY <2>1, <3>2, <3>3 DEF StoreInv, Ordered
  <2>2. CASE u # w
    BY <1>1, <2>2 DEF StoreInv, Behind, Executing
  <2> QED BY <2>1, <2>2
<1>7. Owned' /\ Tabled' /\ ReadsAreCurrent'
  BY <1>0, <1>1 DEF StoreInv, Owned, Executing, Tabled, ReadsAreCurrent
<1>8. Alone' /\ Opened'
  BY <1>0, <1>1, <1>2, <1>3 DEF Alone, Opened, Executing
<1>9. Safe'
  <2> SUFFICES ASSUME NEW u \in Writers \ overtaken', NEW v \in Writers,
                      task'[u] = "returned" \/ (task'[u] = "holding" /\ thread'[u] = "written")
               PROVE  /\ committed.memories[KeyOf[u]] >= now[u]
                      /\ view.memories[KeyOf[u]] >= now[u]
                      /\ Executing(v)' => now[u] < now[v]
    BY <1>1 DEF Safe
  <2>1. task[u] = "returned" /\ u \in Writers \ overtaken
    BY <1>1, <1>2
  <2>2. CASE v = w
    BY <1>0, <1>1, <2>1, <2>2 DEF StoreInv, Safe, Behind
  <2>3. CASE v # w
    BY <1>1, <2>1, <2>3 DEF StoreInv, Safe, Executing
  <2> QED BY <2>2, <2>3
<1>10. Witnessed'
  BY <1>0, <1>1 DEF StoreInv, Witnessed
<1>11. Forward'
  BY <1>0, <1>1, <1>3 DEF StoreInv, Forward, Executing
<1> QED BY <1>4, <1>5, <1>6, <1>7, <1>8, <1>9, <1>10, <1>11 DEF StoreInv

(* A worker thread takes up the write.                                     *)
LEMMA BeginInv ==
  ASSUME StoreInv, NEW w \in Writers, Begin(w)
  PROVE  StoreInv'
<1>0. TypeOK /\ thread[w] = "queued" /\ task[w] = "holding"
  BY DEF StoreInv, TypeOK, Begin
<1>1. /\ \A v \in Writers : thread'[v] = IF v = w THEN "begun" ELSE thread[v]
      /\ UNCHANGED <<task, line, clock, now, view, committed, reading, floor, got,
                     overtaken, crashed>>
  BY <1>0 DEF Begin, TypeOK
<1>2. \A v \in Writers : Executing(v)' <=> Executing(v)
  BY <1>0, <1>1 DEF Executing
<1>3. TypeOK'
  <2>1. thread' \in [Writers -> {"none", "queued", "begun", "open", "written", "failed"}]
    BY <1>0 DEF Begin, TypeOK
  <2> QED BY <1>0, <1>1, <2>1 DEF TypeOK
<1>4. Counted' /\ Ordered' /\ Behind' /\ Owned'
  BY <1>0, <1>1, <1>2 DEF StoreInv, Counted, Called, Ordered, Behind, Owned
<1>5. Tabled' /\ Alone' /\ Opened' /\ Safe' /\ Witnessed' /\ ReadsAreCurrent'
  BY <1>0, <1>1, <1>2, Undisturbed
<1>6. Forward'
  BY <1>0, <1>1, <1>2 DEF StoreInv, Forward
<1> QED BY <1>3, <1>4, <1>5, <1>6 DEF StoreInv

(* The statements of a write.  Those that still count are of the holder of *)
(* the lock, alone, or newer than every row that was acknowledged.         *)
LEMMA ExecuteInv ==
  ASSUME StoreInv, NEW w \in Writers, Execute(w)
  PROVE  StoreInv'
<1>0. /\ TypeOK /\ Executing(w) /\ thread[w] \in {"begun", "open"}
      /\ task[w] \in {"holding", "cancelled"} /\ KeyOf[w] \in Keys
      /\ UNCHANGED <<task, line, clock, now, reading, floor, got, overtaken, crashed>>
  BY DEF StoreInv, Owned, Execute, Executing
<1>1. /\ clock \in Nat /\ \A v \in Writers : now[v] \in Nat
      /\ view \in Tables(clock) /\ committed \in Tables(clock)
      /\ \A k \in Keys : view.memories[k] \in Nat /\ committed.memories[k] \in Nat
  BY Moments DEF StoreInv
<1>2. PICK after \in {"open", "written", "failed"} :
        /\ thread' = [thread EXCEPT ![w] = after]
        /\ after = "open" => thread[w] = "begun" /\ Upsert(w)
        /\ after = "written" => thread[w] = "open" /\ CommitAll(w)
        /\ after = "failed" => Rollback(w)
  BY DEF Execute, Upsert, CommitAll, Rollback
<1>3. /\ \A v \in Writers : thread'[v] = IF v = w THEN after ELSE thread[v]
      /\ \A v \in Writers : Executing(v)' => Executing(v)
  BY <1>0, <1>2 DEF TypeOK, Executing
<1>4. /\ after = "open" =>
           /\ \A k \in Keys : view'.memories[k] = IF k = KeyOf[w] THEN now[w] ELSE view.memories[k]
           /\ view'.memories_fts = view'.memories /\ view' \in Tables(clock)
           /\ committed' = committed
      /\ after = "written" => committed' = view /\ view' = view
      /\ after = "failed" => view' = committed /\ committed' = committed
  <2>1. ASSUME after = "open"
        PROVE  /\ \A k \in Keys : view'.memories[k] = IF k = KeyOf[w] THEN now[w] ELSE view.memories[k]
               /\ view'.memories_fts = view'.memories /\ view' \in Tables(clock)
               /\ committed' = committed
    <3>1. /\ view' \in Tables(clock)
          /\ view'.memories = [view.memories EXCEPT ![KeyOf[w]] = now[w]]
          /\ view'.memories_fts = [view.memories_fts EXCEPT ![KeyOf[w]] = now[w]]
      BY <1>0, <1>2, <2>1, UpsertShape
    <3>2. view.memories_fts = view.memories /\ view.memories \in [Keys -> 0..clock]
      BY <1>1 DEF StoreInv, Tabled, Tables
    <3> QED BY <1>2, <2>1, <3>1, <3>2 DEF Upsert
  <2> QED BY <1>2, <2>1 DEF CommitAll, Rollback
<1>5. TypeOK' /\ Tabled'
  <2>1. view' \in Tables(clock) /\ committed' \in Tables(clock)
    BY <1>1, <1>2, <1>4
  <2>2. thread' \in [Writers -> {"none", "queued", "begun", "open", "written", "failed"}]
    BY <1>0, <1>2 DEF TypeOK
  <2>3. \A v \in Writers : thread'[v] = "queued" => task[v] = "holding"
    BY <1>0, <1>3 DEF TypeOK
  <2>4. {view', committed'} \subseteq [{"memories", "memories_fts"} -> [Keys -> 0..clock]]
    BY <2>1 DEF Tables
  <2>5. TypeOK'
    BY <1>0, <2>2, <2>3, <2>4 DEF TypeOK
  <2>6. Tabled'
    BY <1>2, <1>4 DEF StoreInv, Tabled
  <2> QED BY <2>5, <2>6
<1>6. Counted' /\ Ordered' /\ Behind' /\ Owned'
  BY <1>0, <1>3 DEF StoreInv, Counted, Called, Ordered, Behind, Owned
<1>7. Alone'
  BY <1>0, <1>3 DEF StoreInv, Alone
<1>8. ASSUME NEW u \in Writers \ overtaken
      PROVE  /\ task[u] = "holding" /\ thread'[u] = "open" => view'.memories[KeyOf[u]] >= now[u]
             /\ task[u] = "returned" \/ (task[u] = "holding" /\ thread'[u] = "written") =>
                  /\ committed'.memories[KeyOf[u]] >= now[u]
                  /\ view'.memories[KeyOf[u]] >= now[u]
                  /\ \A v \in Writers : Executing(v)' => now[u] < now[v]
  <2>0. KeyOf[u] \in Keys /\ now[u] \in Nat /\ u \in Writers
    BY <1>1
  <2>1. CASE u = w
    <3>1. CASE task[w] = "holding"
      <4>1. \A v \in Writers : ~Executing(v)' \/ v = w
        BY <1>3, <2>1, <3>1 DEF StoreInv, Alone
      <4>2. after = "open" => view'.memories[KeyOf[u]] = now[u]
        BY <1>4, <2>0, <2>1
      <4>3. after = "written" => /\ committed'.memories[KeyOf[u]] >= now[u]
                                 /\ view'.memories[KeyOf[u]] >= now[u]
                                 /\ ~Executing(w)'
        BY <1>2, <1>3, <1>4, <2>1, <3>1 DEF StoreInv, Opened, Executing
      <4> QED BY <1>3, <2>0, <2>1, <3>1, <4>1, <4>2, <4>3
    <3>2. CASE task[w] # "holding"
      BY <1>0, <2>1, <3>2
    <3> QED BY <3>1, <3>2
  <2>2. CASE u # w
    <3>1. task[u] # "holding"
      BY <1>0, <2>2 DEF StoreInv, Alone
    <3>2. ASSUME task[u] = "returned"
          PROVE  /\ committed.memories[KeyOf[u]] >= now[u]
                 /\ view.memories[KeyOf[u]] >= now[u]
                 /\ \A v \in Writers : Executing(v) => now[u] < now[v]
      BY <3>2 DEF StoreInv, Safe
    <3>3. ASSUME task[u] = "returned"
          PROVE  /\ committed'.memories[KeyOf[u]] >= now[u]
                 /\ view'.memories[KeyOf[u]] >= now[u]
      <4>1. now[u] < now[w]
        BY <1>0, <3>2, <3>3
      <4> QED BY <1>1, <1>2, <1>4, <2>0, <3>2, <3>3, <4>1
    <3> QED BY <1>3, <3>1, <3>2, <3>3
  <2> QED BY <2>1, <2>2
<1>9. Opened' /\ Safe'
  BY <1>0, <1>8 DEF Opened, Safe
<1>10. Witnessed' /\ ReadsAreCurrent'
  BY <1>0 DEF StoreInv, Witnessed, ReadsAreCurrent
<1>11. Forward'
  <2> SUFFICES ASSUME overtaken = {}
               PROVE  /\ \A v, u \in Writers : Executing(v)' /\ Executing(u)' => v = u
                      /\ \A k \in Keys : committed'.memories[k] <= view'.memories[k]
                      /\ \A v \in Writers :
                           task[v] = "waiting" \/ thread'[v] \in {"queued", "begun"}
                             => \A k \in Keys : view'.memories[k] < now[v]
    BY <1>0 DEF Forward
  <2>1. /\ \A v, u \in Writers : Executing(v) /\ Executing(u) => v = u
        /\ \A k \in Keys : committed.memories[k] <= view.memories[k]
        /\ \A v \in Writers :
             task[v] = "waiting" \/ thread[v] \in {"queued", "begun"}
               => \A k \in Keys : view.memories[k] < now[v]
    BY DEF StoreInv, Forward
  <2>2. \A v, u \in Writers : Executing(v)' /\ Executing(u)' => v = u
    BY <1>3, <2>1
  <2>3. ASSUME NEW k \in Keys PROVE committed'.memories[k] <= view'.memories[k]
    <3>1. after = "open" => view.memories[k] < now[w]
      BY <1>2, <2>1
    <3> QED BY <1>1, <1>2, <1>4, <2>1, <3>1
  <2>4. ASSUME NEW v \in Writers, NEW k \in Keys,
               task[v] = "waiting" \/ thread'[v] \in {"queued", "begun"}
        PROVE  view'.memories[k] < now[v]
    <3>1. v # w
      BY <1>0, <1>2, <1>3, <2>4
    <3>2. task[v] = "waiting" \/ thread[v] \in {"queued", "begun"}
      BY <1>3, <2>4, <3>1
    <3>3. task[v] = "waiting"
      BY <1>0, <2>1, <3>1, <3>2 DEF Executing
    <3>4. now[w] < now[v]
      BY <1>0, <3>3 DEF StoreInv, Behind
    <3> QED BY <1>1, <1>2, <1>4, <2>1, <3>2, <3>4
  <2> QED BY <2>2, <2>3, <2>4
<1> QED BY <1>5, <1>6, <1>7, <1>9, <1>10, <1>11 DEF StoreInv

(* Leaving the line, from its head or from within, keeps its order.        *)
LEMMA LeaveInv ==
  ASSUME StoreInv, NEW w \in Writers, task[w] \in {"waiting", "holding"},
         task'[w] \notin {"idle", "waiting", "holding"},
         thread' \in [Writers -> {"none", "queued", "begun", "open", "written", "failed"}],
         thread'[w] # "queued",
         \E s \in Ended : task' = [task EXCEPT ![w] = s],
         \A v \in Writers : v # w => thread'[v] = thread[v],
         (line' = Tail(line) /\ Head(line) = w) \/ line' = RemoveFirst(line, w),
         UNCHANGED <<clock, now, view, committed, reading, floor, got, overtaken, crashed>>
  PROVE  TypeOK' /\ Counted' /\ Ordered'
<1>0. TypeOK /\ line \in Seq(Writers) /\ IsInjective(line) /\ w \in ToSet(line)
  BY DEF StoreInv, TypeOK
<1>1. \A v \in Writers : v # w => task'[v] = task[v]
  BY <1>0 DEF TypeOK
<1>2. PICK i \in 1..Len(line) : /\ line[i] = w /\ line' \in Seq(Writers)
                                /\ Shortened(line, line', i)
  <2>1. CASE line' = Tail(line) /\ Head(line) = w
    <3>1. line # <<>>
      BY <1>0 DEF ToSet
    <3>2. line[1] = w
      BY <1>0, <2>1, <3>1
    <3> QED BY <1>0, <2>1, <3>1, <3>2, HeadLeaves
  <2>2. CASE line' = RemoveFirst(line, w)
    <3>1. PICK i \in 1..Len(line) : line[i] = w
      BY <1>0 DEF ToSet
    <3> QED BY <1>0, <2>2, <3>1, OneLeaves
  <2> QED BY <2>1, <2>2
<1>3. /\ IsInjective(line') /\ ToSet(line') = ToSet(line) \ {w}
      /\ i # 1 => Head(line') = Head(line)
      /\ \A j, k \in DOMAIN line' : j < k =>
           \E m, n \in DOMAIN line : m < n /\ line'[j] = line[m] /\ line'[k] = line[n]
  BY <1>0, <1>2, Shrunk
<1>4. ASSUME NEW v \in Writers
      PROVE  /\ v \in ToSet(line') <=> task'[v] \in {"waiting", "holding"}
             /\ task'[v] = "holding" => Head(line') = v
             /\ thread'[v] = "queued" => task'[v] = "holding"
  <2>1. CASE v = w
    BY <1>3, <2>1
  <2>2. CASE v # w
    <3>1. /\ v \in ToSet(line) <=> task[v] \in {"waiting", "holding"}
          /\ task[v] = "holding" => Head(line) = v
          /\ thread[v] = "queued" => task[v] = "holding"
      BY <1>0 DEF TypeOK
    <3>2. i = 1 => Head(line) = w
      BY <1>0, <1>2
    <3> QED BY <1>1, <1>3, <2>2, <3>1, <3>2
  <2> QED BY <2>1, <2>2
<1>5. task' \in [Writers -> {"idle", "waiting", "holding"} \cup Ended]
  BY <1>0 DEF TypeOK
<1>6. TypeOK'
  BY <1>0, <1>2, <1>3, <1>4, <1>5 DEF TypeOK
<1>7. Called' = Called
  BY <1>1 DEF Called
<1>8. Ordered'
  BY <1>3 DEF StoreInv, Ordered
<1> QED BY <1>6, <1>7, <1>8 DEF StoreInv, Counted

(* A write returns or raises.                                              *)
LEMMA ReturnInv ==
  ASSUME StoreInv, NEW w \in Writers, Return(w)
  PROVE  StoreInv'
<1>0. /\ TypeOK /\ task[w] = "holding" /\ Head(line) = w /\ thread[w] \in {"written", "failed"}
      /\ line' = Tail(line)
      /\ UNCHANGED <<thread, clock, now, view, committed, reading, floor, got,
                     overtaken, crashed>>
  BY DEF StoreInv, TypeOK, Return
<1>1. PICK s \in {"returned", "raised"} :
        /\ task' = [task EXCEPT ![w] = s]
        /\ s = "returned" => thread[w] = "written"
  BY DEF Return
<1>2. \A v \in Writers : task'[v] = IF v = w THEN s ELSE task[v]
  BY <1>0, <1>1 DEF TypeOK
<1>3. \A v \in Writers : Executing(v)' <=> Executing(v)
  BY <1>0 DEF Executing
<1>4. ~Executing(w)
  BY <1>0 DEF Executing
<1>5. TypeOK' /\ Counted' /\ Ordered'
  BY <1>0, <1>1, <1>2, LeaveInv DEF TypeOK
<1>6. Behind' /\ Owned'
  BY <1>0, <1>2, <1>3, <1>4 DEF StoreInv, Behind, Owned
<1>7. Tabled' /\ Alone' /\ Opened' /\ Witnessed' /\ ReadsAreCurrent'
  BY <1>0, <1>2, <1>3 DEF StoreInv, Tabled, Alone, Opened, Witnessed, ReadsAreCurrent
<1>8. Safe'
  BY <1>0, <1>1, <1>2, <1>3 DEF StoreInv, Safe
<1>9. Forward'
  BY <1>0, <1>2, <1>3 DEF StoreInv, Forward
<1> QED BY <1>5, <1>6, <1>7, <1>8, <1>9 DEF StoreInv

(* A writer is cancelled; its thread, if it has begun, runs on.            *)
LEMMA CancelInv ==
  ASSUME StoreInv, NEW w \in Writers, Cancel(w)
  PROVE  StoreInv'
<1>0. /\ TypeOK /\ task[w] \in {"waiting", "holding"} /\ line' = RemoveFirst(line, w)
      /\ task' = [task EXCEPT ![w] = "cancelled"]
      /\ UNCHANGED <<clock, now, view, committed, reading, floor, got, overtaken, crashed>>
  BY DEF StoreInv, Cancel
<1>1. \A v \in Writers : task'[v] = IF v = w THEN "cancelled" ELSE task[v]
  BY <1>0 DEF TypeOK
<1>2. /\ thread' \in [Writers -> {"none", "queued", "begun", "open", "written", "failed"}]
      /\ \A v \in Writers : v # w => thread'[v] = thread[v]
      /\ thread'[w] = "none" \/ (thread'[w] = thread[w] /\ thread[w] # "queued")
  BY <1>0 DEF Cancel, TypeOK
<1>3. \A v \in Writers : Executing(v)' => Executing(v) /\ thread'[v] = thread[v]
  BY <1>2 DEF Executing
<1>4. TypeOK' /\ Counted' /\ Ordered'
  <2>1. \E s \in Ended : task' = [task EXCEPT ![w] = s]
    BY <1>0
  <2>2. task'[w] \notin {"idle", "waiting", "holding"} /\ thread'[w] # "queued"
    BY <1>1, <1>2
  <2> QED BY <1>0, <1>2, <2>1, <2>2, LeaveInv
<1>5. Behind' /\ Owned'
  BY <1>0, <1>1, <1>2, <1>3 DEF StoreInv, Behind, Owned
<1>6. Tabled' /\ Alone' /\ Opened' /\ Safe' /\ Witnessed' /\ ReadsAreCurrent'
  <2>1. \A v \in Writers :
          /\ task'[v] = "returned" => task[v] = "returned" /\ thread'[v] = thread[v]
          /\ task[v] = "returned" => task'[v] = "returned"
          /\ task'[v] = "holding" => task[v] = "holding"
          /\ thread'[v] = "open" => thread[v] = "open"
          /\ thread'[v] = "written" => thread[v] = "written"
    BY <1>0, <1>1, <1>2
  <2> QED BY <1>0, <1>3, <2>1, Undisturbed
<1>7. Forward'
  BY <1>0, <1>1, <1>2, <1>3 DEF StoreInv, Forward
<1> QED BY <1>4, <1>5, <1>6, <1>7 DEF StoreInv

(* A nonempty set of natural numbers up to some bound has a largest one.   *)
LEMMA MaxType ==
  ASSUME NEW n \in Nat, NEW S, S \subseteq 0..n, S # {}
  PROVE  Max(S) \in S /\ \A y \in S : y <= Max(S)
<1> DEFINE R == {ss \in Nat \X Nat : ss[1] < ss[2]}
           T == {n - x : x \in S}
<1>1. T \subseteq Nat /\ T # {}
  <2>1. \A x \in S : x \in Nat /\ n - x \in Nat
    OBVIOUS
  <2>2. PICK x : x \in S
    OBVIOUS
  <2>3. n - x \in T
    BY <2>2
  <2> QED BY <2>1, <2>3
<1>0. IsWellFoundedOn(R, Nat)
  BY NatLessThanWellFounded DEF OpToRel
<1>2. PICK t \in T : \A y \in T : ~(<<y, t>> \in R)
  <2> HIDE DEF R, T
  <2> QED BY <1>0, <1>1, WFMin
<1>3. \A y \in T : ~(y < t)
  BY <1>1, <1>2
<1>4. PICK x \in S : t = n - x
  OBVIOUS
<1>5. \A y \in S : x >= y
  BY <1>3, <1>4
<1> QED BY <1>5 DEF Max

(* A read is called: the floor is a row that was acknowledged.             *)
LEMMA FloorIsWitnessed ==
  ASSUME TypeOK, NEW k \in Keys
  PROVE  /\ Acknowledged(k) \in 0..clock
         /\ \/ Acknowledged(k) = 0
            \/ \E w \in Writers \ overtaken :
                 task[w] = "returned" /\ KeyOf[w] = k /\ now[w] = Acknowledged(k)
<1> DEFINE S == {0} \cup {now[w] : w \in {v \in Writers \ overtaken :
                                            KeyOf[v] = k /\ task[v] = "returned"}}
<1>1. clock \in Nat /\ S \subseteq 0..clock /\ S # {}
  BY Moments
<1>2. Max(S) \in S
  <2> HIDE DEF S
  <2> QED BY <1>1, MaxType
<1>3. Acknowledged(k) = Max(S)
  BY DEF Acknowledged
<1> HIDE DEF S
<1>4. Acknowledged(k) \in S
  BY <1>2, <1>3
<1> QED BY <1>1, <1>4 DEF S

(* Reads change no table, and a read that returns has seen its floor.      *)
LEMMA ReadInv ==
  ASSUME StoreInv, CallRead \/ Select
  PROVE  StoreInv'
<1>0. UNCHANGED <<task, thread, line, clock, now, view, committed, overtaken, crashed>>
  BY DEF CallRead, Select
<1>1. /\ Counted' /\ Ordered' /\ Behind' /\ Owned' /\ Tabled' /\ Alone' /\ Opened'
      /\ Safe' /\ Forward'
  BY <1>0 DEF StoreInv, Counted, Called, Ordered, Behind, Owned, Tabled, Alone, Opened,
     Safe, Forward, Executing
<1>2. TypeOK
  BY DEF StoreInv
<1>3. CASE CallRead
  <2>1. PICK k \in Keys : reading' = k /\ floor' = Acknowledged(k) /\ got' = got
    BY <1>3 DEF CallRead
  <2>2. floor' \in 0..clock /\ reading' \in Keys /\ reading' # "nothing"
    BY <1>2, <2>1, FloorIsWitnessed
  <2>3. TypeOK'
    BY <1>0, <1>2, <2>1, <2>2 DEF TypeOK
  <2>4. Witnessed'
    BY <1>0, <1>2, <2>1, FloorIsWitnessed DEF Witnessed
  <2>5. ReadsAreCurrent'
    BY <2>2 DEF ReadsAreCurrent
  <2> QED BY <1>1, <2>3, <2>4, <2>5 DEF StoreInv
<1>4. CASE Select
  <2>1. /\ reading \in Keys /\ reading # "nothing" /\ reading' = "nothing" /\ floor' = floor
        /\ got' \in {view.memories[reading], Found(reading)}
    BY <1>2, <1>4 DEF Select, TypeOK
  <2>2. /\ view.memories[reading] \in Nat /\ view.memories[reading] <= clock /\ clock \in Nat
        /\ \A w \in Writers : now[w] \in Nat
    BY <1>2, <2>1, Moments
  <2>3. got' = view.memories[reading]
    BY <2>1, <2>2 DEF Found, StoreInv, Tabled
  <2>4. TypeOK'
    BY <1>0, <1>2, <2>1, <2>2, <2>3 DEF TypeOK
  <2>5. Witnessed'
    BY <2>1 DEF Witnessed
  <2>6. floor <= view.memories[reading]
    BY <2>1, <2>2 DEF StoreInv, Witnessed, Safe
  <2>7. ReadsAreCurrent'
    BY <2>1, <2>2, <2>3, <2>6 DEF ReadsAreCurrent, TypeOK
  <2> QED BY <1>1, <2>4, <2>5, <2>7 DEF StoreInv
<1> QED BY <1>3, <1>4

(* A restart: what is committed stays, and nobody waits or writes.         *)
LEMMA CrashInv ==
  ASSUME StoreInv, Crash
  PROVE  StoreInv'
<1>0. /\ TypeOK /\ line' = <<>> /\ view' = committed /\ reading' = "nothing" /\ floor' = 0
      /\ UNCHANGED <<clock, now, committed, got, overtaken>>
      /\ \A v \in Writers : thread'[v] = "none"
      /\ \A v \in Writers :
           task'[v] = IF task[v] \in {"waiting", "holding"} THEN "cancelled" ELSE task[v]
  BY DEF StoreInv, Crash
<1>1. /\ \A v \in Writers : ~Executing(v)' /\ task'[v] \notin {"waiting", "holding"}
      /\ \A v \in Writers : task'[v] = "returned" => task[v] = "returned"
  BY <1>0 DEF Executing
<1>2. /\ clock \in Nat /\ got \in 0..clock
      /\ \A k \in Keys : committed.memories[k] \in Nat
      /\ \A w \in Writers : now[w] \in Nat
  BY <1>0, Moments DEF TypeOK
<1>3. TypeOK'
  <2>1. line' \in Seq(Writers) /\ IsInjective(line') /\ ToSet(line') = {}
    BY <1>0 DEF IsInjective, ToSet
  <2>2. /\ task' \in [Writers -> {"idle", "waiting", "holding"} \cup Ended]
        /\ thread' \in [Writers -> {"none", "queued", "begun", "open", "written", "failed"}]
    BY <1>0 DEF Crash, TypeOK
  <2>3. {view', committed'} \subseteq [{"memories", "memories_fts"} -> [Keys -> 0..clock]]
    BY <1>0 DEF TypeOK
  <2>4. floor' \in 0..clock
    BY <1>0, <1>2
  <2>5. crashed' \in BOOLEAN
    BY DEF Crash
  <2>6. \A v \in Writers :
          /\ v \in ToSet(line') <=> task'[v] \in {"waiting", "holding"}
          /\ task'[v] = "holding" => Head(line') = v
          /\ thread'[v] = "queued" => task'[v] = "holding"
    BY <1>0, <1>1, <2>1
  <2>7. /\ clock' \in 0..Cardinality(Writers) /\ now' \in [Writers -> 0..clock']
        /\ reading' \in Keys \cup {"nothing"} /\ got' \in 0..clock'
        /\ overtaken' \subseteq Writers /\ clock' = clock
    BY <1>0 DEF TypeOK
  <2> QED BY <2>1, <2>2, <2>3, <2>4, <2>5, <2>6, <2>7 DEF TypeOK
<1>4. Counted' /\ Ordered' /\ Behind' /\ Owned'
  <2>1. Called' = Called
    BY <1>0 DEF Called
  <2> QED BY <1>0, <1>1, <2>1 DEF StoreInv, Counted, Ordered, Behind, Owned
<1>5. Tabled' /\ Alone' /\ Opened' /\ Witnessed'
  BY <1>0, <1>1 DEF StoreInv, Tabled, Alone, Opened, Witnessed
<1>6. Safe'
  BY <1>0, <1>1 DEF StoreInv, Safe
<1>7. ReadsAreCurrent' /\ Forward'
  BY <1>0, <1>1, <1>2 DEF ReadsAreCurrent, Forward, Executing
<1> QED BY <1>3, <1>4, <1>5, <1>6, <1>7 DEF StoreInv

(* Every step of the store keeps the invariant.                            *)
LEMMA NextInv == StoreInv /\ [Next]_vars => StoreInv'
<1> SUFFICES ASSUME StoreInv, [Next]_vars PROVE StoreInv'
  OBVIOUS
<1>1. ASSUME NEW w \in Writers, Write(w) \/ Thread(w) PROVE StoreInv'
  BY <1>1, CallInv, AcquireInv, ReturnInv, CancelInv, BeginInv, ExecuteInv DEF Write, Thread
<1>2. CASE CallRead \/ Select
  BY <1>2, ReadInv
<1>3. CASE Crash
  BY <1>3, CrashInv
<1>4. CASE UNCHANGED vars
  BY <1>4 DEF vars, StoreInv, TypeOK, Counted, Called, Ordered, Behind, Owned, Tabled, Alone,
     Opened, Safe, Witnessed, ReadsAreCurrent, Forward, Executing
<1> QED BY <1>1, <1>2, <1>3, <1>4 DEF Next

-----------------------------------------------------------------------------
(* The store keeps its inductive invariant.                                *)
THEOREM Invariance == Spec => []StoreInv
BY InitInv, NextInv, PTL DEF Spec

(* The store's variables keep their types; in particular the lock's holder *)
(* is always the first in line.                                            *)
THEOREM TypeCorrect == Spec => []TypeOK
<1>1. StoreInv => TypeOK
  BY DEF StoreInv
<1> QED BY <1>1, Invariance, PTL

(* A write that has returned is never lost, whoever rolls back, is         *)
(* cancelled or crashes after it, unless it overtook a cancelled write.    *)
THEOREM DurableTheorem == Spec => []AcknowledgedIsDurable
<1>1. StoreInv => AcknowledgedIsDurable
  BY DEF StoreInv, Safe, AcknowledgedIsDurable
<1> QED BY <1>1, Invariance, PTL

(* A read or a search finds what was acknowledged when it was called.      *)
THEOREM CurrentTheorem == Spec => []ReadsAreCurrent
<1>1. StoreInv => ReadsAreCurrent
  BY DEF StoreInv
<1> QED BY <1>1, Invariance, PTL

(* Until a write overtakes a cancelled one no commit puts an older row in  *)
(* the place of a newer one, in whatever order the writes were called.     *)
THEOREM NewerRowsTheorem == Spec => NewerRowsWin
<1>1. StoreInv /\ [Next]_vars =>
        [overtaken = {} => \A k \in Keys : committed.memories[k] <= committed'.memories[k]]_vars
  <2> SUFFICES ASSUME StoreInv, Next, overtaken = {}, NEW k \in Keys
               PROVE  committed.memories[k] <= committed'.memories[k]
    OBVIOUS
  <2>1. committed.memories[k] \in Nat /\ committed.memories[k] <= view.memories[k]
    BY Moments DEF StoreInv, Forward
  <2>2. committed' \in {committed, view}
    BY DEF Next, Write, Thread, Call, Acquire, Return, Cancel, Begin, Execute, Upsert,
       Rollback, CommitAll, CallRead, Select, Crash
  <2> QED BY <2>1, <2>2
<1> QED BY <1>1, Invariance, PTL DEF Spec, NewerRowsWin
-----------------------------------------------------------------------------
(* As long as no write has overtaken a cancelled one, the open transaction *)
(* is that of the one thread at work, and holds its row and nothing else.  *)
OneTransaction ==
  overtaken = {} =>
    /\ (\A w \in Writers : thread[w] # "open") => view.memories = committed.memories
    /\ \A w \in Writers : thread[w] = "open" =>
         /\ view.memories = [committed.memories EXCEPT ![KeyOf[w]] = now[w]]
         /\ \A k \in Keys : committed.memories[k] < now[w]

(* It stays so: whoever opens a transaction finds none open, and commits,  *)
(* rollbacks and restarts leave nothing of it behind.                      *)
LEMMA OneTransactionInv ==
  StoreInv /\ OneTransaction /\ [Next]_vars => OneTransaction'
<1> SUFFICES ASSUME StoreInv, OneTransaction, [Next]_vars, overtaken' = {}
             PROVE  OneTransaction'
  BY DEF OneTransaction
<1>0. TypeOK /\ overtaken = {}
  BY DEF StoreInv, Next, Write, Thread, Call, Acquire, Return, Cancel, Begin,
     Execute, CallRead, Select, Crash, vars
<1>1. ASSUME NEW w \in Writers, Execute(w) PROVE OneTransaction'
  <2>1. /\ thread[w] \in {"begun", "open"} /\ now' = now
        /\ \A v \in Writers : v # w => thread[v] # "open" /\ thread'[v] = thread[v]
    <3>1. \A v \in Writers : v # w => thread'[v] = thread[v]
      BY <1>0, <1>1 DEF Execute, Upsert, Rollback, CommitAll, TypeOK
    <3>2. thread[w] \in {"begun", "open"} /\ now' = now
      BY <1>1 DEF Execute
    <3>3. \A v \in Writers : v # w => thread[v] # "open"
      BY <1>0, <3>2 DEF StoreInv, Forward, Executing
    <3> QED BY <3>1, <3>2, <3>3
  <2>2. CASE thread[w] = "begun" /\ Upsert(w)
    <3>1. /\ thread'[w] = "open" /\ committed' = committed
          /\ view.memories = committed.memories
      BY <1>0, <2>1, <2>2 DEF Upsert, TypeOK, OneTransaction
    <3>2. view'.memories = [committed.memories EXCEPT ![KeyOf[w]] = now[w]]
      BY <1>0, <2>2, <3>1, UpsertShape
    <3>3. \A k \in Keys : committed.memories[k] < now[w]
      BY <1>0, <2>2, <3>1 DEF StoreInv, Forward
    <3> QED BY <2>1, <3>1, <3>2, <3>3 DEF OneTransaction
  <2>3. CASE CommitAll(w) \/ Rollback(w)
    <3>1. view' = committed' /\ thread'[w] # "open"
      BY <1>0, <2>3 DEF CommitAll, Rollback, TypeOK
    <3> QED BY <2>1, <3>1 DEF OneTransaction
  <2> QED BY <1>1, <2>2, <2>3 DEF Execute
<1>2. CASE Crash
  <2>1. view' = committed' /\ \A w \in Writers : thread'[w] # "open"
    BY <1>2 DEF Crash
  <2> QED BY <2>1 DEF OneTransaction
<1>3. CASE ~Crash /\ \A w \in Writers : ~Execute(w)
  <2>1. UNCHANGED <<view, committed>>
    BY <1>3 DEF Next, Write, Thread, Call, Acquire, Return, Cancel, Begin, CallRead,
       Select, vars
  <2>2. ASSUME NEW w \in Writers
        PROVE  /\ thread'[w] = "open" <=> thread[w] = "open"
               /\ thread[w] = "open" => now'[w] = now[w]
    <3>1. thread[w] = "open" => task[w] \in {"holding", "cancelled"}
      BY DEF StoreInv, Owned, Executing
    <3>2. \/ UNCHANGED <<thread, now>>
          \/ \E v \in Writers : Call(v) \/ Acquire(v) \/ Begin(v) \/ Cancel(v)
      BY <1>3 DEF Next, Write, Thread, Return, CallRead, Select, vars
    <3>3. CASE UNCHANGED <<thread, now>>
      BY <3>3
    <3>4. ASSUME NEW v \in Writers, Call(v)
          PROVE  /\ thread'[w] = "open" <=> thread[w] = "open"
                 /\ thread[w] = "open" => now'[w] = now[w]
      BY <1>0, <3>1, <3>4 DEF Call, TypeOK
    <3>5. ASSUME NEW v \in Writers, Acquire(v) \/ Begin(v) \/ Cancel(v)
          PROVE  /\ thread'[w] = "open" <=> thread[w] = "open"
                 /\ thread[w] = "open" => now'[w] = now[w]
      <4>1. Acquire(v) => thread[v] = "none"
        BY DEF Acquire, StoreInv, Owned
      <4> QED BY <1>0, <3>5, <4>1 DEF Acquire, Begin, Cancel, TypeOK
    <3> QED BY <3>2, <3>3, <3>4, <3>5
  <2> QED BY <1>0, <2>1, <2>2 DEF OneTransaction
<1> QED BY <1>1, <1>2, <1>3

(* What RowStore sees of the writes.                                       *)
Statuses == [w \in Writers |-> Status(w)]

(* A step that moves one write only moves one status only.                 *)
LEMMA OneMoves ==
  ASSUME NEW w \in Writers,
         \A v \in Writers : v # w => task'[v] = task[v] /\ thread'[v] = thread[v]
  PROVE  \A s : Status(w)' = s => Statuses' = [Statuses EXCEPT ![w] = s]
<1>1. \A v \in Writers : v # w => Status(v)' = Status(v)
  BY DEF Status
<1> QED BY <1>1 DEF Statuses

(* The steps of one write, of its task or of its thread.                   *)
LEMMA WriteIsAtomic ==
  ASSUME StoreInv, OneTransaction, overtaken = {}, NEW w \in Writers,
         Write(w) \/ Thread(w)
  PROVE  Rows!Next \/ UNCHANGED Rows!vars
<1>0. TypeOK /\ Statuses[w] = Status(w) /\ got' = got
  BY DEF StoreInv, Statuses, Write, Thread, Call, Acquire, Return, Cancel, Begin, Execute
<1>1. \A v \in Writers : v # w => task'[v] = task[v] /\ thread'[v] = thread[v]
  BY <1>0 DEF TypeOK, Write, Thread, Call, Acquire, Return, Cancel, Begin, Execute,
     Upsert, Rollback, CommitAll
<1>2. \A s : Status(w)' = s => Statuses' = [Statuses EXCEPT ![w] = s]
  BY <1>1, OneMoves
<1>3. Status(w)' = Status(w) => Statuses' = Statuses
  <2>1. \A v \in Writers : v # w => Status(v)' = Status(v)
    BY <1>1 DEF Status
  <2> QED BY <2>1 DEF Statuses
<1>4. /\ Executing(w) => task[w] \in {"holding", "cancelled"}
      /\ task[w] \in {"idle", "waiting"} => thread[w] = "none"
  BY DEF StoreInv, Owned
<1>5. CASE Call(w)
  <2>1. Status(w) = "idle" /\ Status(w)' = "pending"
    BY <1>0, <1>4, <1>5 DEF Call, Status, TypeOK
  <2>2. /\ now' = [now EXCEPT ![w] = now'[w]]
        /\ \A v \in Writers : now[v] < now'[w]
    BY <1>0, <1>5, Moments DEF Call, TypeOK
  <2>3. committed' = committed
    BY <1>5 DEF Call
  <2>4. Rows!Call(w)
    BY <1>0, <1>2, <2>1, <2>2, <2>3 DEF Rows!Call, Statuses
  <2> QED BY <2>4 DEF Rows!Next
<1>6. CASE Acquire(w) \/ Begin(w)
  <2>1. Status(w)' = Status(w) /\ UNCHANGED <<now, committed>>
    BY <1>0, <1>4, <1>6 DEF Acquire, Begin, Status, TypeOK
  <2> QED BY <1>0, <1>3, <2>1 DEF Rows!vars, Statuses
<1>7. CASE Return(w)
  <2>1. \/ Status(w) = "written" /\ Status(w)' = "returned"
        \/ Status(w) = "failed" /\ Status(w)' = "raised"
    BY <1>0, <1>7 DEF Return, Status, TypeOK
  <2>2. UNCHANGED <<now, committed>>
    BY <1>7 DEF Return
  <2>3. Rows!Return(w)
    BY <1>0, <1>2, <2>1, <2>2 DEF Rows!Return, Statuses
  <2> QED BY <2>3 DEF Rows!Next
<1>8. CASE Cancel(w)
  <2>1. \/ Status(w) = "pending" /\ Status(w)' \in {"abandoned", "gone"}
        \/ Status(w) \in {"written", "failed"} /\ Status(w)' = "gone"
    BY <1>0, <1>8 DEF Cancel, Status, TypeOK
  <2>2. UNCHANGED <<now, committed>>
    BY <1>8 DEF Cancel
  <2>3. Rows!Cancel(w)
    BY <1>0, <1>2, <2>1, <2>2 DEF Rows!Cancel, Statuses
  <2> QED BY <2>3 DEF Rows!Next
<1>9. CASE Execute(w)
  <2>1. /\ Status(w) \in {"pending", "abandoned"}
        /\ task' = task /\ now' = now /\ task[w] \in {"holding", "cancelled"}
    BY <1>4, <1>9 DEF Execute, Status, Executing
  <2>2. CASE Upsert(w) /\ thread[w] = "begun"
    <3>1. Status(w)' = Status(w) /\ committed' = committed
      BY <1>0, <2>1, <2>2 DEF Upsert, Status, TypeOK
    <3> QED BY <1>0, <1>3, <2>1, <3>1 DEF Rows!vars, Statuses
  <2>3. CASE Rollback(w)
    <3>1. Status(w)' = IF Status(w) = "pending" THEN "failed" ELSE "gone"
      BY <1>0, <1>9, <2>1, <2>3 DEF Execute, Rollback, Status, TypeOK
    <3>2. committed' = committed
      BY <2>3 DEF Rollback
    <3>3. Rows!Fail(w)
      BY <1>0, <1>2, <2>1, <3>1, <3>2 DEF Rows!Fail, Rows!Pending, Statuses
    <3> QED BY <3>3 DEF Rows!Next
  <2>4. CASE CommitAll(w) /\ thread[w] = "open"
    <3>1. Status(w)' = IF Status(w) = "pending" THEN "written" ELSE "gone"
      BY <1>0, <2>1, <2>4 DEF CommitAll, Status, TypeOK
    <3>2. /\ committed'.memories = [committed.memories EXCEPT ![KeyOf[w]] = now[w]]
          /\ \A k \in Keys : committed.memories[k] < now[w]
      BY <2>4 DEF CommitAll, OneTransaction
    <3>3. Rows!Effect(w)
      BY <1>0, <1>2, <2>1, <3>1, <3>2 DEF Rows!Effect, Rows!Pending, Statuses
    <3> QED BY <3>3 DEF Rows!Next
  <2> QED BY <1>9, <2>2, <2>3, <2>4 DEF Execute
<1> QED BY <1>5, <1>6, <1>7, <1>8, <1>9 DEF Write, Thread

(* A read sees the rows in effect and those under way.                     *)
LEMMA ReadIsAtomic ==
  ASSUME StoreInv, OneTransaction, overtaken = {}, Select
  PROVE  Rows!Next
<1>1. reading \in Keys /\ got' = view.memories[reading]
  <2>1. TypeOK /\ view.memories_fts = view.memories
    BY DEF StoreInv, Tabled
  <2> QED BY <2>1 DEF Select, Found, TypeOK
<1>2. UNCHANGED <<task, thread, now, committed>>
  BY DEF Select
<1>3. \/ got' = committed.memories[reading]
      \/ \E w \in Writers : /\ KeyOf[w] = reading /\ Status(w) \in {"pending", "abandoned"}
                            /\ got' = now[w]
  <2>1. CASE \A w \in Writers : thread[w] # "open"
    BY <1>1, <2>1 DEF OneTransaction
  <2>2. CASE \E w \in Writers : thread[w] = "open"
    <3>1. PICK w \in Writers : thread[w] = "open"
      BY <2>2
    <3>2. view.memories = [committed.memories EXCEPT ![KeyOf[w]] = now[w]]
      BY <3>1 DEF OneTransaction
    <3>3. committed.memories \in [Keys -> 0..clock]
      BY Moments DEF StoreInv, Tables
    <3>4. Status(w) \in {"pending", "abandoned"}
      BY <3>1 DEF StoreInv, Owned, Executing, Status
    <3>5. got' = IF KeyOf[w] = reading THEN now[w] ELSE committed.memories[reading]
      BY <1>1, <3>2, <3>3
    <3> QED BY <3>4, <3>5
  <2> QED BY <2>1, <2>2
<1>4. Statuses' = Statuses
  BY <1>2 DEF Statuses, Status
<1>5. Rows!Read(reading)
  BY <1>1, <1>2, <1>3, <1>4 DEF Rows!Read, Rows!Pending, Statuses
<1> QED BY <1>1, <1>5 DEF Rows!Next

(* Until a write overtakes a cancelled one the store is RowStore: each     *)
(* write takes effect at one moment, behind all those called before it     *)
(* that ever do, or never.                                                 *)
THEOREM RowsTheorem == Spec => WritesAreAtomic
<1>1. Init => OneTransaction /\ Rows!Init
  BY DEF Init, OneTransaction, Rows!Init, Status, Empty
<1>2. StoreInv /\ OneTransaction /\ [Next]_vars =>
        [overtaken = {} => Rows!Next \/ UNCHANGED Rows!vars]_vars
  <2> SUFFICES ASSUME StoreInv, OneTransaction, Next, overtaken = {}
               PROVE  Rows!Next \/ UNCHANGED Rows!vars
    OBVIOUS
  <2>1. CASE \E w \in Writers : Write(w) \/ Thread(w)
    BY <2>1, WriteIsAtomic
  <2>2. CASE Select
    BY <2>2, ReadIsAtomic
  <2>3. CASE CallRead
    <3>1. UNCHANGED <<task, thread, now, committed, got>>
      BY <2>3 DEF CallRead
    <3> QED BY <3>1 DEF Rows!vars, Status
  <2>4. CASE Crash
    <3>1. UNCHANGED <<now, committed, got>>
      BY <2>4 DEF Crash
    <3>2. ASSUME NEW w \in Writers
          PROVE  Status(w)' = IF Status(w) \in {"pending", "abandoned", "written", "failed"}
                              THEN "gone" ELSE Status(w)
      BY <2>4 DEF Crash, Status, StoreInv, TypeOK
    <3>3. Rows!Crash
      BY <3>1, <3>2 DEF Rows!Crash
    <3> QED BY <3>3 DEF Rows!Next
  <2> QED BY <2>1, <2>2, <2>3, <2>4 DEF Next
<1> QED
  BY <1>1, <1>2, OneTransactionInv, Invariance, PTL DEF Spec, WritesAreAtomic
=============================================================================
