------------------------ MODULE ContextManagerProofs ------------------------
(* Proofs about ContextManager, for every number of sessions, slice sizes, *)
(* windows and failure limit, and histories of any length.                 *)
EXTENDS ContextManager, SequenceTheorems, FiniteSetTheorems,
        WellFoundedInduction, TLAPS

-----------------------------------------------------------------------------
(* A nonempty set of natural numbers up to some bound has a largest one.   *)
LEMMA MaxType ==
  ASSUME NEW n \in Nat, NEW S, S \subseteq 0..n, S # {}
  PROVE  Max(S) \in S /\ \A y \in S : y <= Max(S)
<1> DEFINE R == {ss \in Nat \X Nat : ss[1] < ss[2]}
           T == {n - x : x \in S}
<1>1. T \subseteq Nat /\ T # {}
  <2>1. \A x \in S : x \in Nat /\ n - x \in Nat
    OBVIOUS
  <2>2. PICK x : x \in S
    OBVIOUS
  <2>3. n - x \in T
    BY <2>2
  <2> QED BY <2>1, <2>3
<1>0. IsWellFoundedOn(R, Nat)
  BY NatLessThanWellFounded DEF OpToRel
<1>2. PICK t \in T : \A y \in T : ~(<<y, t>> \in R)
  <2> HIDE DEF R, T
  <2> QED BY <1>0, <1>1, WFMin
<1>3. \A y \in T : ~(y < t)
  BY <1>1, <1>2
<1>4. PICK x \in S : t = n - x
  OBVIOUS
<1>5. \A y \in S : x >= y
  BY <1>3, <1>4
<1> QED BY <1>5 DEF Max

-----------------------------------------------------------------------------
(* What a message list keeps.                                              *)
Messages(n) == [kind : Kinds, ids : SUBSET (1..n), of : SUBSET (1..n)]

(* A tool result comes after the AI message that asked for it, with        *)
(* nothing but tool results in between; each call asked for has a result,  *)
(* and each result is there once.                                          *)
Paired(ms) ==
  /\ \A j \in DOMAIN ms : ms[j].kind = "tool" =>
       \E i \in 1..j - 1 :
         /\ ms[i].kind = "ai" /\ ms[j].ids \subseteq ms[i].ids
         /\ \A k \in i + 1..j : ms[k].kind = "tool"
  /\ \A i \in DOMAIN ms : ms[i].kind = "ai" =>
       \A c \in ms[i].ids :
         \E j \in i + 1..Len(ms) : ms[j].kind = "tool" /\ c \in ms[j].ids
  /\ \A i, j \in DOMAIN ms :
       ms[i].kind = "tool" /\ ms[j].kind = "tool" /\ ms[i].ids \cap ms[j].ids # {}
         => i = j

(* The list opens as the session did, and ends in messages as they were.   *)
Framed(ms) ==
  /\ HeadSize <= Len(ms)
  /\ \A i \in 1..HeadSize : ms[i] = Opening[i]
  /\ \A i \in DOMAIN ms :
       i > Len(ms) - TailSize => ms[i].kind \notin {"boundary", "summary"}

(* The list stands for messages 1 to n, each once and in order.            *)
Covers(ms, n) ==
  /\ \A a \in 1..n : \E i \in DOMAIN ms : a \in ms[i].of
  /\ \A i, j \in DOMAIN ms : i < j => \A a \in ms[i].of, b \in ms[j].of : a < b

History(ms, n) ==
  /\ ms \in Seq(Messages(n))
  /\ Framed(ms)
  /\ Covers(ms, n)
  /\ Paired(ms)

USE DEF Kinds

(* The first messages of every session.                                    *)
LEMMA OpeningHistory == History(Opening, 2)
<1>1. /\ Opening \in Seq(Messages(2)) /\ Len(Opening) = 2 /\ DOMAIN Opening = 1..2
      /\ Opening[1].kind = "system" /\ Opening[2].kind = "human"
      /\ Opening[1].of = {1} /\ Opening[2].of = {2}
  BY DEF Opening, Message, Messages
<1>2. Framed(Opening)
  BY <1>1, ContextAssumption DEF Framed
<1>3. Covers(Opening, 2)
  BY <1>1 DEF Covers
<1>4. Paired(Opening)
  BY <1>1 DEF Paired
<1> QED BY <1>1, <1>2, <1>3, <1>4 DEF History

-----------------------------------------------------------------------------
(* The middle is cut out at the end of an exchange: the tail, if there is  *)
(* one, does not begin with a tool result.                                 *)
LEMMA CutIsClean ==
  ASSUME NEW n \in Nat, NEW ms, History(ms, n), Middle(ms) # <<>>
  PROVE  /\ Cut(ms) \in HeadSize + 1..Len(ms) /\ Cut(ms) <= Len(ms) - TailSize
         /\ Cut(ms) < Len(ms) => ms[Cut(ms) + 1].kind # "tool"
<1> DEFINE last == Len(ms) - TailSize
           asked == {i \in HeadSize + 1..last :
                       ms[i].kind = "ai" /\ ms[last + 1].ids \subseteq ms[i].ids}
<1> USE ContextAssumption
<1>1. Len(ms) \in Nat /\ DOMAIN ms = 1..Len(ms)
  BY DEF History
<1>2. Cut(ms) \in Int => Cut(ms) >= HeadSize + 1
  <2> SUFFICES ASSUME Cut(ms) \in Int, Cut(ms) < HeadSize + 1 PROVE FALSE
    OBVIOUS
  <2>1. Middle(ms) = <<>>
    BY SubSeqEmpty DEF Middle
  <2> QED BY <2>1
<1>3. HeadSize + TailSize < Len(ms)
  <2> SUFFICES ASSUME HeadSize + TailSize >= Len(ms) PROVE FALSE
    BY <1>1
  <2> QED BY <1>2 DEF Cut
<1>4. last \in HeadSize + 1..Len(ms) /\ last <= Len(ms)
  BY <1>1, <1>3
<1>5. CASE TailSize > 0 /\ ms[last + 1].kind = "tool"
  <2>1. last + 1 \in DOMAIN ms
    BY <1>1, <1>4, <1>5
  <2>2. PICK i \in 1..last : ms[i].kind = "ai" /\ ms[last + 1].ids \subseteq ms[i].ids
    <3>1. \E i \in 1..(last + 1) - 1 :
            ms[i].kind = "ai" /\ ms[last + 1].ids \subseteq ms[i].ids
      BY <1>5, <2>1 DEF History, Paired
    <3> QED BY <1>4, <3>1
  <2>3. i \notin 1..HeadSize
    BY <2>2 DEF History, Framed, Opening, Message
  <2>4. asked # {} /\ asked \subseteq 0..last /\ last \in Nat
    <3>1. i \in HeadSize + 1..last
      BY <1>1, <1>4, <2>2, <2>3
    <3>2. i \in asked
      BY <2>2, <3>1
    <3> QED BY <1>1, <1>4, <3>2
  <2>5. Max(asked) \in asked
    <3> HIDE DEF asked, last
    <3> QED BY <2>4, MaxType
  <2>6. Cut(ms) = Max(asked) - 1
    BY <1>3, <1>5, <2>4 DEF Cut
  <2> QED BY <1>1, <1>2, <1>4, <2>5, <2>6
<1>6. CASE ~(TailSize > 0 /\ ms[last + 1].kind = "tool")
  <2>1. Cut(ms) = last
    BY <1>1, <1>3, <1>6 DEF Cut
  <2> QED BY <1>1, <1>4, <1>6, <2>1
<1> QED BY <1>5, <1>6

(* A slice of a sequence.                                                  *)
LEMMA Slice ==
  ASSUME NEW S, NEW s \in Seq(S),
         NEW m \in 1..Len(s) + 1, NEW b \in m - 1..Len(s)
  PROVE  /\ SubSeq(s, m, b) \in Seq(S)
         /\ Len(SubSeq(s, m, b)) = b - (m - 1)
         /\ \A i \in 1..b - (m - 1) : SubSeq(s, m, b)[i] = s[(m - 1) + i]
<1> DEFINE slice == SubSeq(s, m, b)
<1>1. \A i \in m..b : s[i] \in S
  OBVIOUS
<1>2. /\ slice \in Seq(S)
      /\ Len(slice) = IF m <= b THEN b - m + 1 ELSE 0
      /\ \A i \in 1..b - m + 1 : slice[i] = s[m + i - 1]
  BY <1>1, SubSeqProperties
<1>3. \A i \in 1..b - (m - 1) : i \in 1..b - m + 1 /\ m + i - 1 = (m - 1) + i
  OBVIOUS
<1>4. b - (m - 1) = IF m <= b THEN b - m + 1 ELSE 0
  OBVIOUS
<1> HIDE DEF slice
<1>5. /\ slice \in Seq(S) /\ Len(slice) = b - (m - 1)
      /\ \A i \in 1..b - (m - 1) : slice[i] = s[(m - 1) + i]
  BY <1>2, <1>3, <1>4
<1> QED BY <1>5 DEF slice

(* The new list, message by message: the head as it is, the boundary, the  *)
(* summary of the middle, the tail as it is.                               *)
LEMMA CompactedShape ==
  ASSUME NEW n \in Nat, NEW ms \in Seq(Messages(n)), HeadSize <= Len(ms),
         Cut(ms) \in HeadSize + 1..Len(ms)
  PROVE  LET h == HeadSize
             new == Compacted(ms)
         IN  /\ new \in Seq(Messages(n))
             /\ Len(new) = h + 2 + Len(ms) - Cut(ms)
             /\ \A i \in 1..h : new[i] = ms[i]
             /\ new[h + 1] = Boundary
             /\ new[h + 2].kind = "summary"
             /\ \A a : a \in new[h + 2].of <=>
                         \E i \in h + 1..Cut(ms) : a \in ms[i].of
             /\ \A i \in h + 3..Len(new) : new[i] = ms[i - h - 2 + Cut(ms)]
<1> DEFINE h == HeadSize
           c == Cut(ms)
           head == SubSeq(ms, 1, h)
           tail == SubSeq(ms, c + 1, Len(ms))
           two == << Boundary, Summary(Middle(ms)) >>
           M == Messages(n)
<1>0. h \in 0..Len(ms) /\ Len(ms) \in Nat /\ c \in h + 1..Len(ms)
      /\ c \in h..Len(ms) /\ c \in 0..Len(ms) /\ Len(ms) \in c..Len(ms)
      /\ ms \in Seq(M)
      /\ DOMAIN ms = 1..Len(ms) /\ \A i \in 1..Len(ms) : ms[i] \in M
  BY ContextAssumption
<1>1. /\ head \in Seq(M) /\ Len(head) = h /\ \A i \in 1..h : head[i] = ms[i]
  <2> HIDE DEF h, c, M
  <2>1. 1 \in 1..Len(ms) + 1 /\ h \in 1 - 1..Len(ms)
    BY <1>0
  <2> QED BY <1>0, <2>1, Slice
<1>2. /\ tail \in Seq(M) /\ Len(tail) = Len(ms) - c
      /\ \A i \in 1..Len(ms) - c : tail[i] = ms[c + i]
  <2> HIDE DEF h, c, M
  <2>1. c + 1 \in 1..Len(ms) + 1 /\ Len(ms) \in (c + 1) - 1..Len(ms) /\ (c + 1) - 1 = c
    BY <1>0
  <2>2. /\ tail \in Seq(M) /\ Len(tail) = Len(ms) - ((c + 1) - 1)
        /\ \A i \in 1..Len(ms) - ((c + 1) - 1) : tail[i] = ms[((c + 1) - 1) + i]
    BY <1>0, <2>1, Slice
  <2> HIDE DEF tail
  <2> QED BY <2>1, <2>2
<1>3. /\ Middle(ms) \in Seq(M) /\ Len(Middle(ms)) = c - h
      /\ \A i \in 1..c - h : Middle(ms)[i] = ms[h + i]
  <2>1. Middle(ms) = SubSeq(ms, h + 1, c)
    BY DEF Middle
  <2> HIDE DEF h, c, M
  <2>2. h + 1 \in 1..Len(ms) + 1 /\ c \in (h + 1) - 1..Len(ms) /\ (h + 1) - 1 = h
    BY <1>0
  <2> QED BY <1>0, <2>1, <2>2, Slice
<1>4. \A a : a \in Told(Middle(ms)) <=> \E i \in h + 1..c : a \in ms[i].of
  <2>1. \A a : a \in Told(Middle(ms)) <=> \E i \in 1..c - h : a \in Middle(ms)[i].of
    <3>1. DOMAIN Middle(ms) = 1..c - h
      BY <1>3
    <3> QED BY <3>1 DEF Told, ToSet
  <2>2. \A i \in h + 1..c : i - h \in 1..c - h /\ ms[i] = Middle(ms)[i - h]
    <3> HIDE DEF h, c
    <3> QED BY <1>0, <1>3
  <2>3. \A i \in 1..c - h : h + i \in h + 1..c /\ ms[h + i] = Middle(ms)[i]
    <3> HIDE DEF h, c
    <3> QED BY <1>0, <1>3
  <2> HIDE DEF h, c
  <2> QED BY <2>1, <2>2, <2>3
<1>5. /\ two \in Seq(M) /\ Len(two) = 2 /\ two[1] = Boundary
      /\ two[2] = Summary(Middle(ms))
  <2>1. Told(Middle(ms)) \subseteq 1..n
    BY <1>0, <1>4 DEF Messages
  <2>2. Boundary \in M /\ Summary(Middle(ms)) \in M
    BY <2>1 DEF Boundary, Summary, Messages
  <2> QED BY <2>2
<1>6. /\ head \o two \in Seq(M) /\ Len(head \o two) = h + 2
      /\ \A i \in 1..h + 2 :
           (head \o two)[i] = IF i <= h THEN head[i] ELSE two[i - h]
  <2> HIDE DEF h, c, M, head, two
  <2>1. /\ head \o two \in Seq(M) /\ Len(head \o two) = Len(head) + Len(two)
        /\ \A i \in 1..Len(head) + Len(two) : (head \o two)[i] =
             IF i <= Len(head) THEN head[i] ELSE two[i - Len(head)]
    BY <1>1, <1>5, ConcatProperties
  <2> QED BY <1>0, <1>1, <1>5, <2>1
<1>7. /\ (head \o two) \o tail \in Seq(M)
      /\ Len((head \o two) \o tail) = h + 2 + Len(ms) - c
      /\ \A i \in 1..h + 2 + Len(ms) - c :
           ((head \o two) \o tail)[i] =
              IF i <= h + 2 THEN (head \o two)[i] ELSE tail[i - (h + 2)]
  <2> DEFINE front == head \o two
  <2> HIDE DEF h, c, M, head, two, tail
  <2>1. /\ front \in Seq(M) /\ Len(front) = h + 2
    BY <1>6
  <2> HIDE DEF front
  <2>2. /\ front \o tail \in Seq(M) /\ Len(front \o tail) = Len(front) + Len(tail)
        /\ \A i \in 1..Len(front) + Len(tail) : (front \o tail)[i] =
             IF i <= Len(front) THEN front[i] ELSE tail[i - Len(front)]
    BY <1>2, <2>1, ConcatProperties
  <2>3. Len(front) + Len(tail) = h + 2 + Len(ms) - c
    BY <1>0, <1>2, <2>1
  <2>4. /\ front \o tail \in Seq(M)
        /\ Len(front \o tail) = h + 2 + Len(ms) - c
        /\ \A i \in 1..h + 2 + Len(ms) - c :
             (front \o tail)[i] = IF i <= h + 2 THEN front[i] ELSE tail[i - (h + 2)]
    BY <2>1, <2>2, <2>3
  <2> QED BY <2>4 DEF front
<1>8. Compacted(ms) = (head \o two) \o tail
  BY DEF Compacted, PostCompact
<1>9. \A a : a \in two[2].of <=> \E i \in h + 1..c : a \in ms[i].of
  BY <1>4, <1>5 DEF Summary
<1>10. two[2].kind = "summary"
  BY <1>5 DEF Summary
<1>11. \A i \in h + 3..h + 2 + Len(ms) - c :
         /\ i \in 1..h + 2 + Len(ms) - c /\ ~(i <= h + 2)
         /\ i - (h + 2) \in 1..Len(ms) - c
         /\ c + (i - (h + 2)) = i - h - 2 + c
  <2> HIDE DEF h, c
  <2> QED BY <1>0
<1> HIDE DEF h, c, M, head, two, tail
<1>12. \A i \in h + 3..h + 2 + Len(ms) - c :
         ((head \o two) \o tail)[i] = ms[i - h - 2 + c]
  BY <1>2, <1>7, <1>11
<1>13. /\ \A i \in 1..h : ((head \o two) \o tail)[i] = ms[i]
       /\ ((head \o two) \o tail)[h + 1] = Boundary
       /\ ((head \o two) \o tail)[h + 2] = two[2]
  <2> DEFINE front == head \o two
             new == front \o tail
  <2>1. \A i \in 1..h + 2 : new[i] = front[i]
    <3>1. \A i \in 1..h + 2 : i \in 1..h + 2 + Len(ms) - c /\ i <= h + 2
      BY <1>0
    <3> QED BY <1>7, <3>1
  <2>2. \A i \in 1..h : front[i] = ms[i]
    BY <1>0, <1>1, <1>6
  <2>3. front[h + 1] = two[1] /\ front[h + 2] = two[2]
    <3>1. (h + 1) - h = 1 /\ (h + 2) - h = 2 /\ ~(h + 1 <= h) /\ ~(h + 2 <= h)
          /\ h + 1 \in 1..h + 2 /\ h + 2 \in 1..h + 2
      BY <1>0
    <3> QED BY <1>6, <3>1
  <2> HIDE DEF front, new
  <2>4. new[h + 1] = Boundary /\ new[h + 2] = two[2] /\ \A i \in 1..h : new[i] = ms[i]
    BY <1>0, <1>5, <2>1, <2>2, <2>3
  <2> QED BY <2>4 DEF front, new
<1> QED BY <1>7, <1>8, <1>9, <1>10, <1>12, <1>13 DEF h, c, M

(* A compaction keeps the history: nothing is lost, and no exchange is cut *)
(* in two.  What is behind the summary moves by d.                         *)
LEMMA CompactHistory ==
  ASSUME NEW n \in Nat, NEW ms, History(ms, n), Middle(ms) # <<>>
  PROVE  History(Compacted(ms), n)
<1> DEFINE h == HeadSize
           c == Cut(ms)
           L == Len(ms)
           d == c - h - 2
           new == Compacted(ms)
<1>0. /\ ms \in Seq(Messages(n)) /\ Framed(ms) /\ Covers(ms, n) /\ Paired(ms)
      /\ DOMAIN ms = 1..L
  BY DEF History
<1>1. /\ L \in Nat /\ h \in Nat /\ c \in Nat /\ TailSize \in Nat
      /\ h < c /\ c <= L /\ c <= L - TailSize /\ d \in Int /\ c = d + h + 2
  <2>1. c \in h + 1..L /\ c <= L - TailSize
    BY CutIsClean
  <2>2. L \in Nat /\ h \in Nat /\ TailSize \in Nat
    BY <1>0, ContextAssumption
  <2> HIDE DEF c, h, L
  <2> QED BY <2>1, <2>2
<1>2. c < L => ms[c + 1].kind # "tool"
  BY CutIsClean
<1>3. /\ new \in Seq(Messages(n))
      /\ Len(new) = L - d
      /\ \A i \in 1..h : new[i] = ms[i]
      /\ new[h + 1] = Boundary
      /\ new[h + 2].kind = "summary"
      /\ \A a : a \in new[h + 2].of <=> \E i \in h + 1..c : a \in ms[i].of
      /\ \A i \in h + 3..Len(new) : new[i] = ms[i - h - 2 + c]
  <2>1. HeadSize <= Len(ms)
    BY <1>0 DEF Framed
  <2>2. Cut(ms) \in HeadSize + 1..Len(ms)
    BY CutIsClean
  <2>3. h + 2 + L - c = L - d
    <3> HIDE DEF h, c, L
    <3> QED BY <1>1
  <2> QED BY <1>0, <2>1, <2>2, <2>3, CompactedShape
<1>4. \A i \in 1..h : ms[i] = Opening[i] /\ ms[i].kind \in {"system", "human"}
  <2>1. \A i \in 1..h : i \in {1, 2} /\ ms[i] = Opening[i]
    <3>1. \A i \in 1..h : ms[i] = Opening[i]
      BY <1>0 DEF Framed
    <3>2. h = 1 \/ h = 2
      BY ContextAssumption
    <3> HIDE DEF h
    <3>3. \A i \in 1..h : i \in {1, 2}
      BY <3>2
    <3> QED BY <3>1, <3>3
  <2>2. Opening[1].kind = "system" /\ Opening[2].kind = "human"
    BY DEF Opening, Message
  <2> QED BY <2>1, <2>2
<1> HIDE DEF h, c, L, d, new
<1>5. DOMAIN new = 1..L - d
  BY <1>3
<1>6. \A i \in h + 3..L - d : new[i] = ms[i + d] /\ i + d \in c + 1..L
  <2> SUFFICES ASSUME NEW i \in h + 3..L - d
               PROVE  new[i] = ms[i + d] /\ i + d \in c + 1..L
    OBVIOUS
  <2>1. i \in Int /\ h + 3 <= i /\ i <= L - d /\ i - h - 2 + c = i + d
    BY <1>1
  <2>2. new[i] = ms[i - h - 2 + c]
    BY <1>3
  <2> QED BY <1>1, <2>1, <2>2
<1>7. \A o \in c + 1..L : o - d \in h + 3..L - d /\ new[o - d] = ms[o]
  <2> SUFFICES ASSUME NEW o \in c + 1..L
               PROVE  o - d \in h + 3..L - d /\ new[o - d] = ms[o]
    OBVIOUS
  <2>1. o \in Int /\ c + 1 <= o /\ o <= L
    BY <1>1
  <2>2. o - d \in h + 3..L - d /\ (o - d) + d = o
    BY <1>1, <2>1
  <2> QED BY <1>6, <2>2
<1>8. h + 3..L - d \subseteq DOMAIN new
  BY <1>1, <1>5
<1>9. \A i \in DOMAIN new :
        i \in 1..h \/ i = h + 1 \/ i = h + 2 \/ i \in h + 3..L - d
  BY <1>1, <1>5
<1>10. Framed(new)
  <2>1. h <= Len(new) /\ \A i \in 1..h : new[i] = Opening[i]
    BY <1>1, <1>3, <1>4
  <2>2. ASSUME NEW i \in DOMAIN new, i > Len(new) - TailSize
        PROVE  new[i].kind \notin {"boundary", "summary"}
    <3>1. i \in h + 3..L - d /\ i + d \in 1..L /\ i + d > L - TailSize
      <4>1. i \in Int /\ i <= L - d /\ i > L - d - TailSize
        BY <1>1, <1>3, <1>5, <2>2
      <4> QED BY <1>1, <4>1
    <3>2. ms[i + d].kind \notin {"boundary", "summary"}
      BY <1>0, <3>1 DEF Framed, L
    <3> QED BY <1>6, <3>1, <3>2
  <2> QED BY <2>1, <2>2 DEF Framed, h
<1>11. Covers(new, n)
  <2> DEFINE Place(i, o) == \/ i \in 1..h /\ o = i
                            \/ i = h + 2 /\ o \in h + 1..c
                            \/ i \in h + 3..L - d /\ o = i + d
  <2>1. ASSUME NEW a \in 1..n PROVE \E i \in DOMAIN new : a \in new[i].of
    <3>1. PICK o \in 1..L : a \in ms[o].of
      BY <1>0 DEF Covers
    <3>2. CASE o \in 1..h
      <4>1. o \in DOMAIN new BY <1>1, <1>5, <3>2
      <4> QED BY <1>3, <3>1, <3>2, <4>1
    <3>3. CASE o \in h + 1..c
      <4>1. h + 2 \in DOMAIN new BY <1>1, <1>5
      <4> QED BY <1>3, <3>1, <3>3, <4>1
    <3>4. CASE o \in c + 1..L BY <1>7, <1>8, <3>1, <3>4
    <3> QED BY <1>1, <3>2, <3>3, <3>4
  <2>2. ASSUME NEW i \in DOMAIN new, NEW a \in new[i].of
        PROVE  \E o \in 1..L : Place(i, o) /\ a \in ms[o].of
    <3>1. CASE i \in 1..h
      <4>1. i \in 1..L BY <1>1, <3>1
      <4> QED BY <1>3, <2>2, <3>1, <4>1
    <3>2. CASE i = h + 2
      <4>1. PICK o \in h + 1..c : a \in ms[o].of BY <1>3, <2>2, <3>2
      <4>2. o \in 1..L BY <1>1
      <4> QED BY <3>2, <4>1, <4>2
    <3>3. CASE i \in h + 3..L - d
      <4>1. new[i] = ms[i + d] /\ i + d \in c + 1..L
        BY <1>6, <3>3
      <4>2. i + d \in 1..L BY <1>1, <4>1
      <4> QED BY <2>2, <3>3, <4>1, <4>2
    <3>4. i # h + 1
      BY <1>3, <2>2 DEF Boundary
    <3> QED BY <1>9, <3>1, <3>2, <3>3, <3>4
  <2>3. ASSUME NEW i \in DOMAIN new, NEW j \in DOMAIN new, i < j,
               NEW o \in 1..L, NEW p \in 1..L, Place(i, o), Place(j, p)
        PROVE  o < p
    <3>1. i \in Int /\ j \in Int
      BY <1>5
    <3>2. CASE i \in 1..h /\ o = i
      BY <1>1, <2>3, <3>1, <3>2
    <3>3. CASE i = h + 2 /\ o \in h + 1..c
      <4>1. j \in h + 3..L - d /\ p = j + d
        BY <1>1, <2>3, <3>1, <3>3
      <4>2. p \in c + 1..L
        BY <1>6, <4>1
      <4> QED BY <1>1, <3>3, <4>2
    <3>4. CASE i \in h + 3..L - d /\ o = i + d
      <4>1. p = j + d
        BY <1>1, <2>3, <3>1, <3>4
      <4> QED BY <1>1, <2>3, <3>1, <3>4, <4>1
    <3> QED BY <2>3, <3>2, <3>3, <3>4
  <2> HIDE DEF Place
  <2>4. ASSUME NEW i \in DOMAIN new, NEW j \in DOMAIN new, i < j,
               NEW a \in new[i].of, NEW b \in new[j].of
        PROVE  a < b
    <3>1. PICK o \in 1..L : Place(i, o) /\ a \in ms[o].of BY <2>2
    <3>2. PICK p \in 1..L : Place(j, p) /\ b \in ms[p].of BY <2>2
    <3>3. o < p BY <2>3, <2>4, <3>1, <3>2
    <3> QED BY <1>0, <3>1, <3>2, <3>3 DEF Covers
  <2> QED BY <2>1, <2>4 DEF Covers
<1>12. \A i \in DOMAIN new : new[i].kind \in {"ai", "tool"} =>
         i \in h + 3..L - d /\ i + d \in c + 1..L /\ new[i] = ms[i + d]
  <2> SUFFICES ASSUME NEW i \in DOMAIN new, new[i].kind \in {"ai", "tool"}
               PROVE  i \in h + 3..L - d
    BY <1>6
  <2>1. i \notin 1..h BY <1>3, <1>4
  <2>2. i # h + 1 /\ i # h + 2 BY <1>3 DEF Boundary
  <2> QED BY <1>9, <2>1, <2>2
<1>13. Paired(new)
  <2>1. ASSUME NEW j \in DOMAIN new, new[j].kind = "tool"
        PROVE  \E i \in 1..j - 1 :
                 /\ new[i].kind = "ai" /\ new[j].ids \subseteq new[i].ids
                 /\ \A k \in i + 1..j : new[k].kind = "tool"
    <3>1. j + d \in c + 1..L /\ new[j] = ms[j + d] /\ j \in h + 3..L - d /\ j \in Int
      BY <1>5, <1>12, <2>1
    <3>2. j + d \in DOMAIN ms /\ j + d \in Int
      BY <1>0, <1>1, <3>1
    <3>3. PICK a \in 1..(j + d) - 1 :
            /\ ms[a].kind = "ai" /\ ms[j + d].ids \subseteq ms[a].ids
            /\ \A k \in a + 1..j + d : ms[k].kind = "tool"
      BY <1>0, <2>1, <3>1, <3>2 DEF Paired
    <3>4. a \in Int /\ a > c
      <4>1. ASSUME a <= c PROVE FALSE
        <5>1. c + 1 \in a + 1..j + d /\ c < L
          <6>1. a \in Nat /\ j + d \in c + 1..L /\ a <= c
            BY <3>1, <3>2, <3>3, <4>1
          <6> HIDE DEF c, d, h, L
          <6> QED BY <1>1, <6>1
        <5> QED BY <1>2, <3>3, <5>1
      <4> QED BY <1>1, <3>2, <4>1
    <3>5. a \in c + 1..L /\ a - d \in 1..j - 1
      <4>1. a <= (j + d) - 1 /\ j + d <= L
        BY <1>1, <3>1, <3>2
      <4> QED BY <1>1, <3>1, <3>4, <4>1
    <3>6. ASSUME NEW k \in (a - d) + 1..j PROVE new[k].kind = "tool"
      <4>1. k + d \in a + 1..j + d /\ k \in h + 3..L - d
        <5>1. k \in Int /\ a - d < k /\ k <= j /\ j <= L - d
          BY <1>1, <3>1, <3>4
        <5> QED BY <1>1, <3>1, <3>4, <5>1
      <4> QED BY <1>6, <3>3, <4>1
    <3> QED BY <1>7, <3>1, <3>3, <3>5, <3>6
  <2>2. ASSUME NEW i \in DOMAIN new, new[i].kind = "ai", NEW id \in new[i].ids
        PROVE  \E j \in i + 1..Len(new) : new[j].kind = "tool" /\ id \in new[j].ids
    <3>1. i + d \in c + 1..L /\ new[i] = ms[i + d] /\ i \in Int
      BY <1>5, <1>12, <2>2
    <3>2. i + d \in DOMAIN ms /\ i + d \in Int
      BY <1>0, <1>1, <3>1
    <3>3. PICK b \in (i + d) + 1..L : ms[b].kind = "tool" /\ id \in ms[b].ids
      BY <1>0, <2>2, <3>1, <3>2 DEF Paired, L
    <3>4. b \in Int /\ b > i + d /\ b <= L /\ i + d > c
      BY <1>1, <3>1, <3>2
    <3>5. b \in c + 1..L /\ b - d \in i + 1..L - d
      BY <1>1, <3>1, <3>4
    <3> QED BY <1>3, <1>7, <3>3, <3>5
  <2>3. ASSUME NEW i \in DOMAIN new, NEW j \in DOMAIN new,
               new[i].kind = "tool", new[j].kind = "tool",
               new[i].ids \cap new[j].ids # {}
        PROVE  i = j
    <3>1. /\ i + d \in c + 1..L /\ new[i] = ms[i + d] /\ i \in Int
          /\ j + d \in c + 1..L /\ new[j] = ms[j + d] /\ j \in Int
      BY <1>5, <1>12, <2>3
    <3>2. i + d \in DOMAIN ms /\ j + d \in DOMAIN ms
      BY <1>0, <1>1, <3>1
    <3>3. i + d = j + d
      BY <1>0, <2>3, <3>1, <3>2 DEF Paired
    <3> QED BY <1>1, <3>1, <3>3
  <2> QED BY <2>1, <2>2, <2>3 DEF Paired
<1> QED BY <1>3, <1>10, <1>11, <1>13 DEF History, new

-----------------------------------------------------------------------------
(* What one turn of the conversation adds to a session of n messages: what *)
(* the user says, or an answer of the AI with the results it asks for.     *)
Turn(turn, n) ==
  /\ turn \in Seq(Messages(n + Len(turn))) /\ Len(turn) >= 1
  /\ turn[1].kind \in {"human", "ai"} /\ turn[1].of = {n + 1}
  /\ turn[1].kind = "human" => Len(turn) = 1
  /\ turn[1].kind = "ai" => turn[1].ids = n + 2..n + Len(turn)
  /\ \A p \in 2..Len(turn) : turn[p] = Message("tool", {n + p}, n + p)

(* A message of the user is a turn.                                        *)
LEMMA HumanTurn ==
  ASSUME NEW n \in Nat
  PROVE  Turn(<< Message("human", {}, n + 1) >>, n)
<1> DEFINE turn == << Message("human", {}, n + 1) >>
<1>1. Len(turn) = 1 /\ turn[1] = Message("human", {}, n + 1)
  OBVIOUS
<1>2. Message("human", {}, n + 1) \in Messages(n + 1)
  BY DEF Message, Messages
<1>3. turn \in Seq(Messages(n + 1))
  BY <1>2
<1> QED BY <1>1, <1>3 DEF Turn, Message

(* An answer that asks for k tools, and their results, is a turn.          *)
LEMMA AnswerTurn ==
  ASSUME NEW n \in Nat, NEW k \in Nat
  PROVE  Turn(<< Message("ai", n + 2..n + 1 + k, n + 1) >>
                \o [i \in 1..k |-> Message("tool", {n + 1 + i}, n + 1 + i)], n)
<1> DEFINE answer == Message("ai", n + 2..n + 1 + k, n + 1)
           results == [i \in 1..k |-> Message("tool", {n + 1 + i}, n + 1 + i)]
           M == Messages(n + 1 + k)
           turn == << answer >> \o results
<1>1. answer \in M
  BY DEF Message, Messages
<1>2. results \in Seq(M) /\ Len(results) = k
  <2>1. \A i \in 1..k : Message("tool", {n + 1 + i}, n + 1 + i) \in M
    BY DEF Message, Messages
  <2> HIDE DEF M
  <2>2. results \in [1..k -> M]
    BY <2>1
  <2> HIDE DEF results
  <2> QED BY <2>2
<1>3. /\ turn \in Seq(M) /\ Len(turn) = 1 + k /\ turn[1] = answer
      /\ \A p \in 2..1 + k : turn[p] = results[p - 1]
  <2> HIDE DEF M, answer, results
  <2>1. << answer >> \in Seq(M) /\ Len(<< answer >>) = 1 /\ << answer >>[1] = answer
    BY <1>1
  <2> DEFINE first == << answer >>
  <2>2. /\ first \o results \in Seq(M)
        /\ Len(first \o results) = Len(first) + Len(results)
        /\ \A i \in 1..Len(first) + Len(results) : (first \o results)[i] =
             IF i <= Len(first) THEN first[i] ELSE results[i - Len(first)]
    BY <1>2, <2>1, ConcatProperties
  <2> QED BY <1>2, <2>1, <2>2
<1>4. \A p \in 2..1 + k : turn[p] = Message("tool", {n + p}, n + p)
  <2> SUFFICES ASSUME NEW p \in 2..1 + k
               PROVE  turn[p] = Message("tool", {n + p}, n + p)
    OBVIOUS
  <2>1. p - 1 \in 1..k /\ n + 1 + (p - 1) = n + p
    OBVIOUS
  <2>2. results[p - 1] = Message("tool", {n + p}, n + p)
    BY <2>1
  <2> QED BY <1>3, <2>2
<1>5. Len(turn) = 1 + k /\ n + (1 + k) = n + 1 + k
  BY <1>3
<1>6. answer.kind = "ai" /\ answer.of = {n + 1} /\ answer.ids = n + 2..n + 1 + k
  BY DEF Message
<1> HIDE DEF turn, answer, results
<1>7. turn \in Seq(Messages(n + Len(turn))) /\ n + Len(turn) = n + 1 + k
  BY <1>3, <1>5
<1>8. Turn(turn, n)
  <2>1. turn[1].kind = "ai" /\ turn[1].of = {n + 1} /\ Len(turn) >= 1
        /\ turn[1].ids = n + 2..n + Len(turn)
    BY <1>3, <1>5, <1>6, <1>7
  <2>2. \A p \in 2..Len(turn) : turn[p] = Message("tool", {n + p}, n + p)
    BY <1>4, <1>5
  <2> QED BY <1>7, <2>1, <2>2 DEF Turn
<1> QED BY <1>8 DEF turn, answer, results

(* What follows n messages is a turn.                                      *)
LEMMA TurnsAreTurns ==
  ASSUME NEW n \in Nat, NEW turn \in Turns(n)
  PROVE  Turn(turn, n) /\ Len(turn) \in Nat
<1>1. CASE turn = << Message("human", {}, n + 1) >>
  BY <1>1, HumanTurn
<1>2. ASSUME NEW k \in 0..MaxCalls,
             turn = << Message("ai", n + 2..n + 1 + k, n + 1) >>
                \o [i \in 1..k |-> Message("tool", {n + 1 + i}, n + 1 + i)]
      PROVE  Turn(turn, n)
  <2>1. k \in Nat
    BY ContextAssumption
  <2>2. Turn(<< Message("ai", n + 2..n + 1 + k, n + 1) >>
                \o [i \in 1..k |-> Message("tool", {n + 1 + i}, n + 1 + i)], n)
    BY <2>1, AnswerTurn
  <2> QED BY <1>2, <2>2
<1>3. Turn(turn, n)
  BY <1>1, <1>2 DEF Turns
<1>4. Len(turn) \in Nat
  <2> DEFINE M == Messages(n + Len(turn))
  <2>1. turn \in Seq(M)
    BY <1>3 DEF Turn
  <2> HIDE DEF M
  <2> QED BY <2>1
<1> QED BY <1>3, <1>4

(* A turn keeps the history: it stands for the next messages, and its      *)
(* exchange is whole.                                                      *)
LEMMA GrowHistory ==
  ASSUME NEW n \in Nat, NEW ms, History(ms, n), NEW turn, Turn(turn, n)
  PROVE  History(ms \o turn, n + Len(turn))
<1> DEFINE L == Len(ms)
           k == Len(turn)
           new == ms \o turn
           M == Messages(n + k)
<1>0. /\ ms \in Seq(Messages(n)) /\ Framed(ms) /\ Covers(ms, n) /\ Paired(ms)
      /\ DOMAIN ms = 1..L /\ L \in Nat
      /\ \A i \in 1..L : ms[i].ids \subseteq 1..n /\ ms[i].of \subseteq 1..n
  <2>1. ms \in Seq(Messages(n)) /\ Framed(ms) /\ Covers(ms, n) /\ Paired(ms)
    BY DEF History
  <2>2. L \in Nat /\ DOMAIN ms = 1..L /\ \A i \in 1..L : ms[i] \in Messages(n)
    <3> DEFINE N == Messages(n)
    <3> HIDE DEF N
    <3>1. ms \in Seq(N)
      BY <2>1 DEF N
    <3>2. L \in Nat /\ DOMAIN ms = 1..L /\ \A i \in 1..L : ms[i] \in N
      BY <3>1
    <3> QED BY <3>2 DEF N
  <2> HIDE DEF L
  <2>3. \A i \in 1..L : ms[i].ids \subseteq 1..n /\ ms[i].of \subseteq 1..n
    BY <2>2 DEF Messages
  <2> QED BY <2>1, <2>2, <2>3
<1>1. /\ turn \in Seq(M) /\ k \in Nat /\ k >= 1
      /\ turn[1].kind \in {"human", "ai"} /\ turn[1].of = {n + 1}
      /\ turn[1].kind = "human" => k = 1
      /\ turn[1].kind = "ai" => turn[1].ids = n + 2..n + k
  <2>1. turn \in Seq(M)
    BY DEF Turn
  <2>2. k \in Nat
    <3> HIDE DEF M
    <3> QED BY <2>1
  <2> QED BY <2>1, <2>2 DEF Turn
<1>2. \A p \in 2..k : turn[p].kind = "tool" /\ turn[p].ids = {n + p} /\ turn[p].of = {n + p}
  <2> SUFFICES ASSUME NEW p \in 2..k
               PROVE  /\ turn[p].kind = "tool" /\ turn[p].ids = {n + p}
                      /\ turn[p].of = {n + p}
    OBVIOUS
  <2>1. turn[p] = Message("tool", {n + p}, n + p)
    BY DEF Turn
  <2> DEFINE m == n + p
  <2>2. turn[p] = Message("tool", {m}, m)
    BY <2>1
  <2> HIDE DEF m
  <2>3. turn[p].kind = "tool" /\ turn[p].ids = {m} /\ turn[p].of = {m}
    BY <2>2 DEF Message
  <2> QED BY <2>3 DEF m
<1>3. \A p \in 1..k : turn[p].of = {n + p} /\ turn[p].kind \notin {"boundary", "summary"}
  BY <1>1, <1>2
<1>4. ms \in Seq(M)
  <2>1. Messages(n) \subseteq M
    BY <1>1 DEF Messages
  <2> QED BY <1>0, <2>1, SeqMonotonic
<1>5. /\ new \in Seq(M) /\ Len(new) = L + k
      /\ \A i \in 1..L : new[i] = ms[i]
      /\ \A p \in 1..k : new[L + p] = turn[p]
  <2> HIDE DEF M
  <2>1. /\ ms \o turn \in Seq(M) /\ Len(ms \o turn) = Len(ms) + Len(turn)
        /\ \A i \in 1..Len(ms) + Len(turn) : (ms \o turn)[i] =
             IF i <= Len(ms) THEN ms[i] ELSE turn[i - Len(ms)]
    BY <1>1, <1>4, ConcatProperties
  <2>2. \A i \in 1..L : i \in 1..L + k /\ i <= L
    BY <1>0, <1>1
  <2>3. \A p \in 1..k : L + p \in 1..L + k /\ ~(L + p <= L) /\ (L + p) - L = p
    BY <1>0, <1>1
  <2> QED BY <2>1, <2>2, <2>3
<1> HIDE DEF L, k, new, M
<1>6. DOMAIN new = 1..L + k
  BY <1>5
<1>7. \A i \in DOMAIN new : i \in 1..L \/ \E p \in 1..k : i = L + p
  <2> SUFFICES ASSUME NEW i \in 1..L + k, i \notin 1..L
               PROVE  \E p \in 1..k : i = L + p
    BY <1>6
  <2>1. i - L \in 1..k /\ i = L + (i - L)
    BY <1>0, <1>1
  <2> QED BY <2>1
<1>8. \A p \in 1..k : L + p \in DOMAIN new
  BY <1>0, <1>1, <1>6
<1>9. \A i \in 1..L : i \in DOMAIN new
  BY <1>0, <1>1, <1>6
<1>10. Framed(new)
  <2>1. HeadSize <= Len(new) /\ \A i \in 1..HeadSize : new[i] = Opening[i]
    <3>1. HeadSize \in Nat /\ HeadSize <= L
      BY <1>0, ContextAssumption DEF Framed, L
    <3>2. \A i \in 1..HeadSize : i \in 1..L
      BY <1>0, <3>1
    <3>3. HeadSize <= L + k
      BY <1>0, <1>1, <3>1
    <3> QED BY <1>0, <1>5, <3>2, <3>3 DEF Framed
  <2>2. ASSUME NEW i \in DOMAIN new, i > Len(new) - TailSize
        PROVE  new[i].kind \notin {"boundary", "summary"}
    <3>1. CASE i \in 1..L
      <4>1. i > L - TailSize
        <5>1. i > L + k - TailSize /\ TailSize \in Nat /\ i \in Int
          <6>1. TailSize \in Nat
            BY ContextAssumption
          <6>2. i \in Int
            BY <1>0, <3>1
          <6>3. i > L + k - TailSize
            BY <1>0, <1>1, <1>5, <2>2, <6>1, <6>2
          <6> QED BY <6>1, <6>2, <6>3
        <5> QED BY <1>0, <1>1, <5>1
      <4> QED BY <1>0, <1>5, <3>1, <4>1 DEF Framed, L
    <3>2. CASE \E p \in 1..k : i = L + p
      BY <1>3, <1>5, <3>2
    <3> QED BY <1>7, <3>1, <3>2
  <2> QED BY <2>1, <2>2 DEF Framed
<1>11. Covers(new, n + k)
  <2>1. ASSUME NEW a \in 1..n + k PROVE \E i \in DOMAIN new : a \in new[i].of
    <3>1. CASE a \in 1..n
      <4>1. PICK i \in 1..L : a \in ms[i].of
        BY <1>0, <3>1 DEF Covers
      <4> QED BY <1>5, <1>9, <4>1
    <3>2. CASE a \notin 1..n
      <4>1. a - n \in 1..k /\ n + (a - n) = a
        BY <1>1, <3>2
      <4>2. a \in new[L + (a - n)].of
        BY <1>3, <1>5, <4>1
      <4> QED BY <1>8, <4>1, <4>2
    <3> QED BY <3>1, <3>2
  <2>2. ASSUME NEW i \in DOMAIN new, NEW j \in DOMAIN new, i < j,
               NEW a \in new[i].of, NEW b \in new[j].of
        PROVE  a < b
    <3>0. i \in Int /\ j \in Int
      BY <1>6
    <3>1. CASE i \in 1..L /\ j \in 1..L
      BY <1>0, <1>5, <2>2, <3>1 DEF Covers
    <3>2. CASE i \in 1..L /\ \E q \in 1..k : j = L + q
      <4>1. PICK q \in 1..k : j = L + q
        BY <3>2
      <4>2. a \in 1..n /\ b = n + q
        BY <1>0, <1>3, <1>5, <3>2, <4>1
      <4> QED BY <4>2
    <3>3. CASE (\E p \in 1..k : i = L + p) /\ j \in 1..L
      <4>1. PICK p \in 1..k : i = L + p
        BY <3>3
      <4>2. i > L /\ j <= L
        BY <1>0, <3>3, <4>1
      <4> QED BY <1>0, <2>2, <3>0, <4>2
    <3>4. CASE (\E p \in 1..k : i = L + p) /\ \E q \in 1..k : j = L + q
      <4>1. PICK p \in 1..k : i = L + p
        BY <3>4
      <4>2. PICK q \in 1..k : j = L + q
        BY <3>4
      <4>3. a = n + p /\ b = n + q
        BY <1>3, <1>5, <4>1, <4>2
      <4> QED BY <1>0, <2>2, <4>1, <4>2, <4>3
    <3> QED BY <1>7, <3>1, <3>2, <3>3, <3>4
  <2> QED BY <2>1, <2>2 DEF Covers
<1>12. Paired(new)
  <2>1. ASSUME NEW j \in DOMAIN new, new[j].kind = "tool"
        PROVE  \E i \in 1..j - 1 :
                 /\ new[i].kind = "ai" /\ new[j].ids \subseteq new[i].ids
                 /\ \A m \in i + 1..j : new[m].kind = "tool"
    <3>1. CASE j \in 1..L
      <4>1. PICK i \in 1..j - 1 :
              /\ ms[i].kind = "ai" /\ ms[j].ids \subseteq ms[i].ids
              /\ \A m \in i + 1..j : ms[m].kind = "tool"
        BY <1>0, <1>5, <2>1, <3>1 DEF Paired
      <4>2. i \in 1..L /\ \A m \in i + 1..j : m \in 1..L
        BY <1>0, <3>1
      <4> QED BY <1>5, <3>1, <4>1, <4>2
    <3>2. CASE \E p \in 1..k : j = L + p
      <4>1. PICK p \in 1..k : j = L + p
        BY <3>2
      <4>2. new[j] = turn[p] /\ p # 1
        BY <1>1, <1>5, <2>1, <4>1
      <4>3. p \in 2..k /\ p \in Int
        BY <1>1, <4>2
      <4>4. new[L + 1] = turn[1] /\ turn[1].kind = "ai" /\ turn[1].ids = n + 2..n + k
        <5>1. 1 \in 1..k /\ k # 1
          BY <1>1, <4>3
        <5> QED BY <1>1, <1>5, <5>1
      <4>5. new[j].ids \subseteq new[L + 1].ids
        <5>1. n + p \in n + 2..n + k
          BY <1>1, <4>3
        <5> QED BY <1>2, <4>2, <4>3, <4>4, <5>1
      <4>6. ASSUME NEW m \in (L + 1) + 1..j PROVE new[m].kind = "tool"
        <5>1. m - L \in 2..k /\ m - L \in 1..k /\ m = L + (m - L)
          BY <1>0, <1>1, <4>1, <4>3
        <5> QED BY <1>2, <1>5, <5>1
      <4>7. L + 1 \in 1..j - 1
        BY <1>0, <4>1, <4>3
      <4> QED BY <4>4, <4>5, <4>6, <4>7
    <3> QED BY <1>7, <3>1, <3>2
  <2>2. ASSUME NEW i \in DOMAIN new, new[i].kind = "ai", NEW c \in new[i].ids
        PROVE  \E j \in i + 1..Len(new) : new[j].kind = "tool" /\ c \in new[j].ids
    <3>1. CASE i \in 1..L
      <4>1. PICK j \in i + 1..L : ms[j].kind = "tool" /\ c \in ms[j].ids
        BY <1>0, <1>5, <2>2, <3>1 DEF Paired, L
      <4>2. j \in 1..L /\ j \in i + 1..L + k
        BY <1>0, <1>1, <3>1
      <4> QED BY <1>5, <4>1, <4>2
    <3>2. CASE \E p \in 1..k : i = L + p
      <4>1. PICK p \in 1..k : i = L + p
        BY <3>2
      <4>2. p = 1
        <5>1. p \notin 2..k
          BY <1>2, <1>5, <2>2, <4>1
        <5> QED BY <1>1, <5>1
      <4>3. c \in n + 2..n + k
        BY <1>1, <1>5, <2>2, <4>1, <4>2
      <4>4. c - n \in 2..k /\ c - n \in 1..k /\ n + (c - n) = c
        BY <1>1, <4>3
      <4>5. new[L + (c - n)].kind = "tool" /\ c \in new[L + (c - n)].ids
        BY <1>2, <1>5, <4>4
      <4>6. L + (c - n) \in i + 1..L + k
        BY <1>0, <1>1, <4>1, <4>2, <4>4
      <4> QED BY <1>5, <4>5, <4>6
    <3> QED BY <1>7, <3>1, <3>2
  <2>3. ASSUME NEW i \in DOMAIN new, NEW j \in DOMAIN new,
               new[i].kind = "tool", new[j].kind = "tool",
               new[i].ids \cap new[j].ids # {}
        PROVE  i = j
    <3>1. ASSUME NEW m \in DOMAIN new, new[m].kind = "tool", m \notin 1..L
          PROVE  \E p \in 2..k : m = L + p /\ new[m].ids = {n + p}
      <4>1. PICK p \in 1..k : m = L + p
        BY <1>7, <3>1
      <4>2. p # 1
        BY <1>1, <1>5, <3>1, <4>1
      <4>3. p \in 2..k
        BY <4>2
      <4> QED BY <1>2, <1>5, <4>1, <4>3
    <3>2. ASSUME NEW m \in 1..L PROVE new[m].ids \subseteq 1..n
      BY <1>0, <1>5
    <3>3. ASSUME NEW p \in 2..k PROVE n + p \notin 1..n
      OBVIOUS
    <3>4. CASE i \in 1..L /\ j \in 1..L
      BY <1>0, <1>5, <2>3, <3>4 DEF Paired
    <3>5. CASE i \in 1..L /\ j \notin 1..L
      BY <2>3, <3>1, <3>2, <3>3, <3>5
    <3>6. CASE i \notin 1..L /\ j \in 1..L
      BY <2>3, <3>1, <3>2, <3>3, <3>6
    <3>7. CASE i \notin 1..L /\ j \notin 1..L
      <4>1. PICK p \in 2..k : i = L + p /\ new[i].ids = {n + p}
        BY <2>3, <3>1, <3>7
      <4>2. PICK q \in 2..k : j = L + q /\ new[j].ids = {n + q}
        BY <2>3, <3>1, <3>7
      <4>3. n + p = n + q
        BY <2>3, <4>1, <4>2
      <4> QED BY <4>1, <4>2, <4>3
    <3> QED BY <3>4, <3>5, <3>6, <3>7
  <2> QED BY <2>1, <2>2, <2>3 DEF Paired
<1> QED BY <1>5, <1>10, <1>11, <1>12 DEF History, new, k, M

-----------------------------------------------------------------------------
(* What such a history is to the application: NothingLost and PairsIntact  *)
(* for one list.                                                           *)
LEMMA HistoryWhole ==
  ASSUME NEW n \in Nat, NEW ms, History(ms, n)
  PROVE  /\ UNION {m.of : m \in ToSet(ms)} = 1..n
         /\ SubSeq(ms, 1, HeadSize) = SubSeq(Opening, 1, HeadSize)
<1> DEFINE M == Messages(n)
           N == Messages(2)
<1>0. ms \in Seq(M) /\ Opening \in Seq(N) /\ Len(Opening) = 2
  BY OpeningHistory DEF History, Opening
<1>1. \A i \in DOMAIN ms : ms[i].of \subseteq 1..n
  <2>1. \A i \in DOMAIN ms : ms[i] \in M
    <3> HIDE DEF M
    <3> QED BY <1>0
  <2> QED BY <2>1 DEF Messages
<1>2. \A a \in 1..n : \E i \in DOMAIN ms : a \in ms[i].of
  BY DEF History, Covers
<1>3. UNION {m.of : m \in ToSet(ms)} = 1..n
  <2>1. ToSet(ms) = {ms[i] : i \in DOMAIN ms}
    BY DEF ToSet
  <2> DEFINE dom == DOMAIN ms
             upto == 1..n
  <2>2. \A i \in dom : ms[i].of \subseteq upto
    BY <1>1
  <2>3. \A a \in upto : \E i \in dom : a \in ms[i].of
    BY <1>2
  <2>4. ToSet(ms) = {ms[i] : i \in dom}
    BY <2>1
  <2> HIDE DEF dom, upto
  <2>5. UNION {m.of : m \in ToSet(ms)} = upto
    BY <2>2, <2>3, <2>4
  <2> QED BY <2>5 DEF upto
<1>4. HeadSize \in Nat /\ HeadSize <= Len(ms) /\ HeadSize <= 2
      /\ \A i \in 1..HeadSize : ms[i] = Opening[i]
  <2>1. HeadSize \in Nat /\ HeadSize <= 2
    BY ContextAssumption
  <2> QED BY <2>1 DEF History, Framed
<1> DEFINE head == SubSeq(ms, 1, HeadSize)
           opening == SubSeq(Opening, 1, HeadSize)
<1> HIDE DEF M, N
<1>5. /\ head \in Seq(M) /\ Len(head) = HeadSize
      /\ \A i \in 1..HeadSize : head[i] = ms[i]
  <2>0. Len(ms) \in Nat
    BY <1>0
  <2>1. 1 \in 1..Len(ms) + 1 /\ HeadSize \in 1 - 1..Len(ms)
    BY <1>4, <2>0
  <2>2. /\ head \in Seq(M) /\ Len(head) = HeadSize - (1 - 1)
        /\ \A i \in 1..HeadSize - (1 - 1) : head[i] = ms[(1 - 1) + i]
    BY <1>0, <2>1, Slice
  <2> HIDE DEF head
  <2> QED BY <1>4, <2>2
<1>6. /\ opening \in Seq(N) /\ Len(opening) = HeadSize
      /\ \A i \in 1..HeadSize : opening[i] = Opening[i]
  <2>1. 1 \in 1..Len(Opening) + 1 /\ HeadSize \in 1 - 1..Len(Opening)
    BY <1>0, <1>4
  <2>2. /\ opening \in Seq(N) /\ Len(opening) = HeadSize - (1 - 1)
        /\ \A i \in 1..HeadSize - (1 - 1) : opening[i] = Opening[(1 - 1) + i]
    BY <1>0, <2>1, Slice
  <2> HIDE DEF opening
  <2> QED BY <1>4, <2>2
<1>7. head = opening
  <2> DEFINE B == M \cup N
  <2>1. head \in Seq(B) /\ opening \in Seq(B)
    <3>1. M \subseteq B /\ N \subseteq B
      OBVIOUS
    <3> HIDE DEF B, head, opening
    <3> QED BY <1>5, <1>6, <3>1, SeqMonotonic
  <2> HIDE DEF B, head, opening
  <2>2. Len(head) = Len(opening) /\ \A i \in 1..Len(head) : head[i] = opening[i]
    BY <1>4, <1>5, <1>6
  <2> QED BY <2>1, <2>2, SeqEqual
<1> QED BY <1>3, <1>7

-----------------------------------------------------------------------------
(* Conversations whose warning is still to go out, and those that await    *)
(* the emit of one that is out.                                            *)
Warners == {s \in Sessions : phase[s] = "warning"}
Undated == {s \in Sessions : phase[s] = "out"}

(* As long as no date is written, every warning that is out is awaited by  *)
(* its conversation or was cancelled; then nobody sets out any more, and   *)
(* those under way are the last.                                           *)
WarnedOnce ==
  /\ ~warned => warnings <= lost + Cardinality(Undated)
  /\ warned => warnings + Cardinality(Warners) <= lost + Cardinality(Sessions)

Histories ==
  /\ messages = [s \in Sessions |-> messages[s]]
  /\ \A s \in Sessions : History(messages[s], length[s])

IInv == TypeOK /\ Histories /\ BreakerHolds /\ WarnedOnce

(* Sizes of sets of conversations.                                         *)
LEMMA Sizes ==
  /\ Cardinality(Sessions) \in Nat
  /\ \A T \in SUBSET Sessions :
       /\ IsFiniteSet(T) /\ Cardinality(T) \in Nat
       /\ Cardinality(T) <= Cardinality(Sessions)
  /\ \A T \in SUBSET Sessions : \A U \in SUBSET T : Cardinality(U) <= Cardinality(T)
  /\ \A T \in SUBSET Sessions : \A s \in T : Cardinality(T \ {s}) = Cardinality(T) - 1
  /\ \A T \in SUBSET Sessions : \A s \in Sessions \ T :
       Cardinality(T \cup {s}) = Cardinality(T) + 1
<1>1. IsFiniteSet(Sessions)
  BY ContextAssumption
<1>2. \A T \in SUBSET Sessions : IsFiniteSet(T) /\ Cardinality(T) <= Cardinality(Sessions)
  BY <1>1, FS_Subset
<1>3. \A T : IsFiniteSet(T) => Cardinality(T) \in Nat
  BY FS_CardinalityType
<1>4. \A T \in SUBSET Sessions : \A U \in SUBSET T : Cardinality(U) <= Cardinality(T)
  BY <1>2, FS_Subset
<1>5. \A T \in SUBSET Sessions : \A s \in T : Cardinality(T \ {s}) = Cardinality(T) - 1
  BY <1>2, FS_RemoveElement
<1>6. \A T \in SUBSET Sessions : \A s \in Sessions \ T :
        Cardinality(T \cup {s}) = Cardinality(T) + 1
  BY <1>2, FS_AddElement
<1> QED BY <1>1, <1>2, <1>3, <1>4, <1>5, <1>6

(* The initial states.                                                     *)
LEMMA InitInv ==
  ASSUME Init
  PROVE  IInv
<1>1. Histories
  BY OpeningHistory DEF Init, Histories
<1>2. \A s \in Sessions : messages[s] \in Seq(Messages(length[s]))
  BY <1>1 DEF Histories, History
<1>3. TypeOK
  <2>1. \A s \in Sessions : messages[s] \in Seq(
          [kind : Kinds, ids : SUBSET (1..length[s]), of : SUBSET (1..length[s])])
    BY <1>2 DEF Messages
  <2>2. length \in [Sessions -> Nat] /\ failures = 0 /\ pushed = 0 /\ manual = {}
        /\ warned \in BOOLEAN /\ warnings \in Nat /\ lost \in Nat
        /\ phase = [s \in Sessions |-> "idle"]
    BY DEF Init
  <2> QED BY <2>1, <2>2 DEF TypeOK, Phases
<1>4. BreakerHolds
  BY ContextAssumption DEF Init, BreakerHolds
<1>5. WarnedOnce
  <2>1. Undated = {}
    BY DEF Init, Undated
  <2>2. Cardinality(Undated) = 0
    BY <2>1, FS_EmptySet
  <2> QED BY <2>2 DEF Init, WarnedOnce
<1> QED BY <1>1, <1>3, <1>4, <1>5 DEF IInv

(* A step changes a message list by a turn or by a compaction.             *)
LEMMA HistoriesInv ==
  ASSUME IInv, [Next]_vars
  PROVE  Histories'
<1>0. Histories /\ length \in [Sessions -> Nat]
  BY DEF IInv, TypeOK
<1>1. CASE UNCHANGED <<messages, length>>
  BY <1>0, <1>1 DEF Histories
<1>2. ASSUME NEW s \in Sessions, Grow(s) PROVE Histories'
  <2>1. PICK turn :
          /\ Turn(turn, length[s])
          /\ messages' = [messages EXCEPT ![s] = @ \o turn]
          /\ length' = [length EXCEPT ![s] = length[s] + Len(turn)]
    <3>1. length[s] \in Nat
      BY <1>0
    <3> QED BY <1>2, <3>1, TurnsAreTurns DEF Grow
  <2>2. History(messages[s] \o turn, length[s] + Len(turn))
    BY <1>0, <2>1, GrowHistory DEF Histories
  <2> DEFINE new == messages[s] \o turn
             n == length[s] + Len(turn)
  <2>3. messages' = [messages EXCEPT ![s] = new] /\ length' = [length EXCEPT ![s] = n]
        /\ History(new, n)
    BY <2>1, <2>2
  <2> HIDE DEF new, n
  <2> QED BY <1>0, <2>3 DEF Histories
<1>3. ASSUME NEW s \in Sessions, Returns(s) PROVE Histories'
  <2>1. History(messages[s], length[s]) /\ length[s] \in Nat
        /\ Middle(messages[s]) # <<>>
    BY <1>0, <1>3 DEF Returns, Histories, IInv, TypeOK
  <2>2. History(Compacted(messages[s]), length[s])
    BY <2>1, CompactHistory
  <2>3. messages' = [messages EXCEPT ![s] = Compacted(messages[s])] /\ length' = length
    BY <1>3 DEF Returns
  <2> QED BY <1>0, <2>2, <2>3 DEF Histories
<1>4. \/ UNCHANGED <<messages, length>>
      \/ \E s \in Sessions : Grow(s) \/ Returns(s)
  BY DEF Next, vars, Compact, Split, Succeeds, Fails, CompactIfNeeded, Warn,
         GoesOut, Dated, Skips, Cancelled, Midnight, Enter
<1> QED BY <1>1, <1>2, <1>3, <1>4

(* Types.                                                                  *)
LEMMA TypeInv ==
  ASSUME IInv, [Next]_vars, Histories'
  PROVE  TypeOK'
<1> DEFINE Asked == {s \in Sessions : phase[s] \in {"announced", "summarizing"}}
           Busy == {s \in Sessions : phase[s] \in {"summarizing", "shortened"}}
           Rest == /\ length \in [Sessions -> Nat]
                   /\ phase \in [Sessions -> Phases]
                   /\ manual \subseteq Asked
                   /\ failures \in Nat /\ pushed \in 0..failures
                   /\ warned \in BOOLEAN /\ warnings \in Nat /\ lost \in Nat
                   /\ \A s \in Busy : Middle(messages[s]) # <<>>
<1>0. Rest /\ messages = [s \in Sessions |-> messages[s]]
  BY DEF IInv, TypeOK, Histories
<1>1. \A s \in Sessions : messages'[s] \in Seq(Messages(length'[s]))
  BY DEF Histories, History
<1>2. ASSUME NEW s \in Sessions, Grow(s) PROVE Rest'
  <2>1. PICK turn : /\ messages' = [messages EXCEPT ![s] = @ \o turn]
                    /\ length' = [length EXCEPT ![s] = length[s] + Len(turn)]
                    /\ Len(turn) \in Nat
    <3>1. length[s] \in Nat
      BY <1>0
    <3> QED BY <1>2, <3>1, TurnsAreTurns DEF Grow
  <2>2. UNCHANGED <<phase, manual, failures, pushed, warned, warnings, lost>>
        /\ phase[s] = "idle"
    BY <1>2 DEF Grow, breaker, warning
  <2>3. length' \in [Sessions -> Nat]
    BY <1>0, <2>1
  <2>4. \A t \in Busy' : t \in Busy /\ messages'[t] = messages[t]
    BY <1>0, <2>1, <2>2
  <2> QED BY <1>0, <2>2, <2>3, <2>4
<1>3. ASSUME NEW s \in Sessions, Compact(s) PROVE Rest'
  BY <1>0, <1>3 DEF Compact, Enter, breaker, warning, Phases
<1>4. ASSUME NEW s \in Sessions, Split(s) PROVE Rest'
  BY <1>0, <1>4 DEF Split, Leave, breaker, warning, Phases
<1>5. ASSUME NEW s \in Sessions, Succeeds(s) PROVE Rest'
  BY <1>0, <1>5 DEF Succeeds, Leave, warning, Phases
<1>6. ASSUME NEW s \in Sessions, Fails(s) PROVE Rest'
  BY <1>0, <1>6 DEF Fails, Leave, warning, Phases
<1>7. ASSUME NEW s \in Sessions, CompactIfNeeded(s) PROVE Rest'
  BY <1>0, <1>7 DEF CompactIfNeeded, Enter, breaker, warning, Phases
<1>8. ASSUME NEW s \in Sessions, Warn(s) PROVE Rest'
  BY <1>0, <1>8 DEF Warn, breaker, warning, Phases
<1>9. ASSUME NEW s \in Sessions, GoesOut(s) PROVE Rest'
  BY <1>0, <1>9 DEF GoesOut, breaker, Phases
<1>10. ASSUME NEW s \in Sessions, Dated(s) PROVE Rest'
  BY <1>0, <1>10 DEF Dated, breaker, Phases
<1>11. ASSUME NEW s \in Sessions, Returns(s) PROVE Rest'
  <2>1. phase' = [phase EXCEPT ![s] = "idle"] /\ phase[s] = "shortened"
        /\ messages' = [messages EXCEPT ![s] = Compacted(@)]
        /\ UNCHANGED <<manual, failures, pushed, length, warned, warnings, lost>>
    BY <1>11 DEF Returns, breaker, warning
  <2>2. \A t \in Busy' : t \in Busy /\ messages'[t] = messages[t]
    BY <1>0, <2>1
  <2>3. phase' \in [Sessions -> Phases] /\ manual' \subseteq Asked'
    BY <1>0, <2>1 DEF Phases
  <2> QED BY <1>0, <2>1, <2>2, <2>3
<1>12. ASSUME NEW s \in Sessions, Cancelled(s) PROVE Rest'
  <2>1. phase' = [phase EXCEPT ![s] = "idle"] /\ manual' = manual \ {s}
        /\ UNCHANGED <<messages, failures, pushed, length, warned, warnings>>
    BY <1>12 DEF Cancelled, Leave, breaker
  <2>2. lost' \in Nat
    BY <1>0, <1>12 DEF Cancelled
  <2> QED BY <1>0, <2>1, <2>2 DEF Phases
<1>13. ASSUME Midnight PROVE Rest'
  BY <1>0, <1>13 DEF Midnight, breaker
<1>14. ASSUME UNCHANGED vars PROVE Rest'
  BY <1>0, <1>14 DEF vars, breaker, warning
<1>15. Rest'
  BY <1>2, <1>3, <1>4, <1>5, <1>6, <1>7, <1>8, <1>9, <1>10, <1>11, <1>12, <1>13,
     <1>14 DEF Next, Skips
<1> QED BY <1>1, <1>15 DEF TypeOK, Messages

-----------------------------------------------------------------------------
(* The breaker: a request enters only while it is closed, and leaves when  *)
(* it fails.                                                               *)
LEMMA BreakerInv ==
  ASSUME IInv, [Next]_vars, TypeOK'
  PROVE  BreakerHolds'
<1> DEFINE All == Cardinality(Sessions)
           Auto0 == Cardinality(Automatic)
           Auto1 == Cardinality(Automatic')
<1>0. /\ phase \in [Sessions -> Phases]
      /\ manual \subseteq Sessions
      /\ failures \in Nat /\ pushed \in Nat
      /\ MaxConsecutiveFailures \in Nat /\ MaxConsecutiveFailures > 0
  BY ContextAssumption DEF IInv, TypeOK
<1>1. BreakerHolds
  BY DEF IInv
<1>2. Automatic \subseteq Sessions /\ Automatic' \subseteq Sessions
  BY DEF Automatic
<1>3. All \in Nat /\ Auto0 \in Nat /\ Auto1 \in Nat
  BY <1>2, Sizes
<1>4. ASSUME Automatic' \subseteq Automatic, UNCHANGED breaker
      PROVE  BreakerHolds'
  <2>1. Auto1 <= Auto0
    BY <1>2, <1>4, Sizes
  <2>2. failures' = failures /\ pushed' = pushed
    BY <1>4 DEF breaker
  <2> HIDE DEF All, Auto0, Auto1
  <2>3. failures >= MaxConsecutiveFailures =>
          failures + Auto1 < MaxConsecutiveFailures + All + pushed
    BY <1>0, <1>1, <1>3, <2>1 DEF BreakerHolds, All, Auto0
  <2> QED BY <2>2, <2>3 DEF BreakerHolds, All, Auto1
<1>5. ASSUME NEW s \in Sessions, CompactIfNeeded(s) PROVE BreakerHolds'
  BY <1>0, <1>5 DEF CompactIfNeeded, Enter, breaker, BreakerHolds
<1>6. ASSUME NEW s \in Sessions, Succeeds(s) PROVE BreakerHolds'
  BY <1>0, <1>6 DEF Succeeds, Leave, BreakerHolds
<1>7. ASSUME NEW s \in Sessions, Fails(s) PROVE BreakerHolds'
  <2>0. /\ phase[s] = "summarizing"
        /\ phase' = [phase EXCEPT ![s] = "idle"] /\ manual' = manual \ {s}
        /\ failures' = failures + 1
        /\ pushed' = IF s \in manual THEN pushed + 1 ELSE pushed
    BY <1>7 DEF Fails, Leave
  <2>1. CASE s \in manual
    <3>1. Automatic' \subseteq Automatic /\ s \notin Automatic'
      BY <1>0, <2>0 DEF Automatic
    <3>2. Auto1 <= Auto0
      BY <1>2, <3>1, Sizes
    <3>3. Auto1 <= All - 1
      <4>1. Automatic' \in SUBSET (Sessions \ {s}) /\ Sessions \ {s} \in SUBSET Sessions
        BY <1>2, <3>1
      <4> QED BY <4>1, Sizes
    <3> HIDE DEF All, Auto0, Auto1
    <3>4. failures >= MaxConsecutiveFailures =>
            failures + Auto0 < MaxConsecutiveFailures + All + pushed
      BY <1>1 DEF BreakerHolds, All, Auto0
    <3>5. failures + 1 >= MaxConsecutiveFailures =>
            (failures + 1) + Auto1 < MaxConsecutiveFailures + All + (pushed + 1)
      BY <1>0, <1>3, <3>2, <3>3, <3>4
    <3> QED BY <2>0, <2>1, <3>5 DEF BreakerHolds, All, Auto1
  <2>2. CASE s \notin manual
    <3>1. s \in Automatic /\ Automatic' \subseteq Automatic \ {s}
      BY <1>0, <2>0, <2>2 DEF Automatic
    <3>2. Auto1 <= Auto0 - 1
      <4>1. Automatic \ {s} \in SUBSET Sessions
        BY <1>2
      <4>2. Auto1 <= Cardinality(Automatic \ {s})
        BY <3>1, <4>1, Sizes
      <4> QED BY <1>2, <3>1, <4>2, Sizes
    <3>3. Auto0 <= All
      BY <1>2, Sizes
    <3> HIDE DEF All, Auto0, Auto1
    <3>4. failures >= MaxConsecutiveFailures =>
            failures + Auto0 < MaxConsecutiveFailures + All + pushed
      BY <1>1 DEF BreakerHolds, All, Auto0
    <3>5. failures + 1 >= MaxConsecutiveFailures =>
            (failures + 1) + Auto1 < MaxConsecutiveFailures + All + pushed
      BY <1>0, <1>3, <3>2, <3>3, <3>4
    <3> QED BY <2>0, <2>2, <3>5 DEF BreakerHolds, All, Auto1
  <2> QED BY <2>1, <2>2
<1>8. \/ Automatic' \subseteq Automatic /\ UNCHANGED breaker
      \/ \E s \in Sessions : CompactIfNeeded(s) \/ Succeeds(s) \/ Fails(s)
  <2>1. ASSUME NEW s \in Sessions, Grow(s) \/ Skips(s)
        PROVE  Automatic' \subseteq Automatic /\ UNCHANGED breaker
    BY <2>1 DEF Grow, Skips, vars, Automatic
  <2>2. ASSUME NEW s \in Sessions, Compact(s)
        PROVE  Automatic' \subseteq Automatic /\ UNCHANGED breaker
    BY <1>0, <2>2 DEF Compact, Enter, Automatic
  <2>3. ASSUME NEW s \in Sessions, Split(s)
        PROVE  Automatic' \subseteq Automatic /\ UNCHANGED breaker
    BY <1>0, <2>3 DEF Split, Leave, Automatic
  <2>4. ASSUME NEW s \in Sessions, Warn(s) \/ GoesOut(s) \/ Dated(s) \/ Returns(s)
        PROVE  Automatic' \subseteq Automatic /\ UNCHANGED breaker
    BY <1>0, <2>4 DEF Warn, GoesOut, Dated, Returns, Automatic
  <2>5. ASSUME NEW s \in Sessions, Cancelled(s)
        PROVE  Automatic' \subseteq Automatic /\ UNCHANGED breaker
    BY <1>0, <2>5 DEF Cancelled, Leave, Automatic
  <2>6. CASE Midnight \/ UNCHANGED vars
    BY <2>6 DEF Midnight, vars, Automatic
  <2> QED BY <2>1, <2>2, <2>3, <2>4, <2>5, <2>6 DEF Next
<1> QED BY <1>4, <1>5, <1>6, <1>7, <1>8

(* The warnings: each one that is out is awaited, dated or cancelled, and  *)
(* nobody sets out once a date is written down.                            *)
LEMMA WarnInv ==
  ASSUME IInv, [Next]_vars, TypeOK'
  PROVE  WarnedOnce'
<1> DEFINE All == Cardinality(Sessions)
           On0 == Cardinality(Warners)
           On1 == Cardinality(Warners')
           Out0 == Cardinality(Undated)
           Out1 == Cardinality(Undated')
<1>0. /\ phase \in [Sessions -> Phases]
      /\ warned \in BOOLEAN /\ warnings \in Nat /\ lost \in Nat
      /\ Warners \subseteq Sessions /\ Warners' \subseteq Sessions
      /\ Undated \subseteq Sessions /\ Undated' \subseteq Sessions
  BY DEF IInv, TypeOK, Warners, Undated
<1>1. /\ ~warned => warnings <= lost + Out0
      /\ warned => warnings + On0 <= lost + All
  BY DEF IInv, WarnedOnce
<1>2. All \in Nat /\ On0 \in Nat /\ On1 \in Nat /\ Out0 \in Nat /\ Out1 \in Nat
  BY <1>0, Sizes
<1>3. ASSUME Warners' \subseteq Warners, Undated' = Undated, UNCHANGED warning
      PROVE  WarnedOnce'
  <2>1. On1 <= On0 /\ Out1 = Out0
    BY <1>0, <1>3, Sizes
  <2>2. warned' = warned /\ warnings' = warnings /\ lost' = lost
    BY <1>3 DEF warning
  <2> HIDE DEF All, On0, On1, Out0, Out1
  <2>3. warned => warnings + On1 <= lost + All
    BY <1>0, <1>1, <1>2, <2>1
  <2> QED BY <1>1, <2>1, <2>2, <2>3 DEF WarnedOnce, All, On1, Out1
<1>4. ASSUME NEW s \in Sessions, Warn(s) PROVE WarnedOnce'
  <2>1. /\ warned' = warned /\ warnings' = warnings /\ lost' = lost /\ ~warned
        /\ phase[s] = "idle" /\ phase' = [phase EXCEPT ![s] = "warning"]
    BY <1>4 DEF Warn, warning
  <2>2. Undated' = Undated
    BY <1>0, <2>1 DEF Undated
  <2> QED BY <1>1, <2>1, <2>2 DEF WarnedOnce
<1>5. ASSUME NEW s \in Sessions, GoesOut(s) PROVE WarnedOnce'
  <2>1. /\ phase[s] = "warning" /\ phase' = [phase EXCEPT ![s] = "out"]
        /\ warned' = warned /\ warnings' = warnings + 1 /\ lost' = lost
    BY <1>5 DEF GoesOut
  <2>2. s \in Warners /\ Warners' = Warners \ {s}
    BY <1>0, <2>1 DEF Warners
  <2>3. s \in Sessions \ Undated /\ Undated' = Undated \cup {s}
    BY <1>0, <2>1 DEF Undated
  <2>4. On1 = On0 - 1 /\ Out1 = Out0 + 1
    BY <1>0, <2>2, <2>3, Sizes
  <2> HIDE DEF All, On0, On1, Out0, Out1
  <2>5. ~warned => warnings + 1 <= lost + Out1
    BY <1>0, <1>1, <1>2, <2>4
  <2>6. warned => (warnings + 1) + On1 <= lost + All
    BY <1>0, <1>1, <1>2, <2>4
  <2> QED BY <2>1, <2>5, <2>6 DEF WarnedOnce, All, On1, Out1
<1>6. ASSUME NEW s \in Sessions, Dated(s) PROVE WarnedOnce'
  <2>1. /\ phase[s] = "out" /\ phase' = [phase EXCEPT ![s] = "idle"]
        /\ warned' = TRUE /\ warnings' = warnings /\ lost' = lost
    BY <1>6 DEF Dated
  <2>2. Warners' = Warners
    BY <1>0, <2>1 DEF Warners
  <2>3. On0 + Out0 <= All
    <3> DEFINE Others == Sessions \ Undated
    <3>1. Warners \subseteq Others
      BY DEF Warners, Undated
    <3>2. IsFiniteSet(Sessions)
      BY ContextAssumption
    <3>3. Cardinality(Others) = All - Out0
      <4>1. Sessions \cap Undated = Undated
        BY <1>0
      <4>2. Cardinality(Others) = All - Cardinality(Sessions \cap Undated)
        BY <3>2, FS_Difference
      <4> QED BY <4>1, <4>2
    <3>4. On0 <= Cardinality(Others)
      BY <3>1, Sizes
    <3> HIDE DEF All, On0, Out0
    <3> QED BY <1>2, <3>3, <3>4
  <2> HIDE DEF All, On0, On1, Out0, Out1
  <2>4. warnings + On0 <= lost + All
    BY <1>0, <1>1, <1>2, <2>3
  <2>5. On1 = On0
    BY <2>2 DEF On0, On1
  <2> QED BY <2>1, <2>4, <2>5 DEF WarnedOnce, All, On1
<1>7. ASSUME NEW s \in Sessions, Cancelled(s) PROVE WarnedOnce'
  <2>0. /\ phase' = [phase EXCEPT ![s] = "idle"]
        /\ warned' = warned /\ warnings' = warnings
    BY <1>7 DEF Cancelled, Leave
  <2>1. CASE phase[s] = "out"
    <3>1. s \in Undated /\ Undated' = Undated \ {s} /\ Warners' = Warners
      BY <1>0, <2>0, <2>1 DEF Warners, Undated
    <3>2. Out1 = Out0 - 1 /\ On1 = On0
      BY <1>0, <3>1, Sizes
    <3>3. (~warned => lost' = lost + 1) /\ (warned => lost' = lost)
      BY <1>7, <2>1 DEF Cancelled
    <3> HIDE DEF All, On0, On1, Out0, Out1
    <3>4. ~warned => warnings <= (lost + 1) + Out1
      BY <1>0, <1>1, <1>2, <3>2
    <3>5. warned => warnings + On1 <= lost + All
      BY <1>1, <3>2
    <3> QED BY <2>0, <3>3, <3>4, <3>5 DEF WarnedOnce, All, On1, Out1
  <2>2. CASE phase[s] # "out"
    <3>1. lost' = lost
      BY <1>7, <2>2 DEF Cancelled
    <3>2. Undated' = Undated /\ Warners' \subseteq Warners
      BY <1>0, <2>0, <2>2 DEF Warners, Undated
    <3> QED BY <1>3, <2>0, <3>1, <3>2 DEF warning
  <2> QED BY <2>1, <2>2
<1>8. CASE Midnight
  <2>1. warned' = FALSE /\ warnings' = 0 /\ lost' = 0
    BY <1>8 DEF Midnight
  <2> HIDE DEF Out1
  <2>2. 0 <= 0 + Out1
    BY <1>2
  <2> QED BY <2>1, <2>2 DEF WarnedOnce, Out1
<1>9. \/ Warners' \subseteq Warners /\ Undated' = Undated /\ UNCHANGED warning
      \/ Midnight
      \/ \E s \in Sessions : Warn(s) \/ GoesOut(s) \/ Dated(s) \/ Cancelled(s)
  <2> DEFINE Frame == Warners' \subseteq Warners /\ Undated' = Undated /\ UNCHANGED warning
  <2>1. ASSUME NEW s \in Sessions, Grow(s) \/ Skips(s)
        PROVE  Frame
    BY <2>1 DEF Grow, Skips, vars, Warners, Undated
  <2>2. ASSUME NEW s \in Sessions, Compact(s) \/ CompactIfNeeded(s)
        PROVE  Frame
    BY <1>0, <2>2 DEF Compact, CompactIfNeeded, Enter, Warners, Undated
  <2>3. ASSUME NEW s \in Sessions, Split(s) \/ Succeeds(s)
        PROVE  Frame
    BY <1>0, <2>3 DEF Split, Succeeds, Leave, Warners, Undated
  <2>4. ASSUME NEW s \in Sessions, Fails(s) \/ Returns(s)
        PROVE  Frame
    BY <1>0, <2>4 DEF Fails, Returns, Leave, Warners, Undated
  <2>5. CASE UNCHANGED vars
    BY <2>5 DEF vars, Warners, Undated
  <2> QED BY <2>1, <2>2, <2>3, <2>4, <2>5 DEF Next
<1> QED BY <1>3, <1>4, <1>5, <1>6, <1>7, <1>8, <1>9

-----------------------------------------------------------------------------
(* All of it holds in every state the manager can be in.                   *)
THEOREM Invariance == Spec => []IInv
<1>1. IInv /\ [Next]_vars => IInv'
  <2> SUFFICES ASSUME IInv, [Next]_vars PROVE IInv'
    OBVIOUS
  <2>1. Histories'
    BY HistoriesInv
  <2>2. TypeOK'
    BY <2>1, TypeInv
  <2>3. BreakerHolds' /\ WarnedOnce'
    BY <2>2, BreakerInv, WarnInv
  <2> QED BY <2>1, <2>2, <2>3 DEF IInv
<1> QED BY InitInv, <1>1, PTL DEF Spec

(* Type correctness: a summarizing session has something to summarize.     *)
THEOREM TypeCorrect == Spec => []TypeOK
<1>1. IInv => TypeOK
  BY DEF IInv
<1> QED BY Invariance, <1>1, PTL

(* After any number of compactions the list stands for every message the   *)
(* session had, each once and in order, and its ends are as they were.     *)
THEOREM NothingLostTheorem == Spec => []NothingLost
<1>1. IInv => NothingLost
  <2> SUFFICES ASSUME IInv, NEW s \in Sessions
      PROVE LET ms == messages[s] IN
        /\ UNION {m.of : m \in ToSet(ms)} = 1..length[s]
        /\ \A i, j \in DOMAIN ms : i < j => \A a \in ms[i].of, b \in ms[j].of : a < b
        /\ SubSeq(ms, 1, HeadSize) = SubSeq(Opening, 1, HeadSize)
        /\ \A i \in DOMAIN ms :
             i > Len(ms) - TailSize => ms[i].kind \notin {"boundary", "summary"}
    BY DEF NothingLost
  <2>1. History(messages[s], length[s]) /\ length[s] \in Nat
    BY DEF IInv, Histories, TypeOK
  <2>2. /\ UNION {m.of : m \in ToSet(messages[s])} = 1..length[s]
        /\ SubSeq(messages[s], 1, HeadSize) = SubSeq(Opening, 1, HeadSize)
    BY <2>1, HistoryWhole
  <2> QED BY <2>1, <2>2 DEF History, Framed, Covers
<1> QED BY Invariance, <1>1, PTL

(* No compaction cuts a tool exchange in two.                              *)
THEOREM PairsTheorem == Spec => []PairsIntact
<1>1. IInv => PairsIntact
  <2> SUFFICES ASSUME IInv, NEW s \in Sessions, NEW c \in 1..length[s]
      PROVE LET ms == messages[s]
                Asks == {i \in DOMAIN ms : ms[i].kind = "ai" /\ c \in ms[i].ids}
                Answers == {i \in DOMAIN ms : ms[i].kind = "tool" /\ c \in ms[i].ids}
            IN  /\ Asks = {} <=> Answers = {}
                /\ \A i \in Asks, j \in Answers : i < j
    BY DEF PairsIntact
  <2> DEFINE ms == messages[s]
             Asks == {i \in DOMAIN ms : ms[i].kind = "ai" /\ c \in ms[i].ids}
             Answers == {i \in DOMAIN ms : ms[i].kind = "tool" /\ c \in ms[i].ids}
  <2>1. History(ms, length[s])
    BY DEF IInv, Histories
  <2>2. Paired(ms) /\ DOMAIN ms = 1..Len(ms) /\ Len(ms) \in Nat
    <3> DEFINE M == Messages(length[s])
    <3> HIDE DEF M, ms
    <3>1. ms \in Seq(M)
      BY <2>1 DEF History, M
    <3> QED BY <2>1, <3>1 DEF History
  <2> HIDE DEF ms
  <2>3. ASSUME NEW i \in Asks
        PROVE  \E j \in Answers : i < j
    BY <2>2 DEF Paired
  <2>4. ASSUME NEW j \in Answers PROVE Asks # {}
    <3>1. PICK i \in 1..j - 1 : ms[i].kind = "ai" /\ ms[j].ids \subseteq ms[i].ids
      BY <2>2 DEF Paired
    <3>2. i \in DOMAIN ms
      BY <2>2
    <3> QED BY <3>1, <3>2
  <2>5. ASSUME NEW i \in Answers, NEW j \in Answers PROVE i = j
    BY <2>2 DEF Paired
  <2>6. (Asks = {} <=> Answers = {}) /\ \A i \in Asks, j \in Answers : i < j
    <3> HIDE DEF Asks, Answers
    <3> QED BY <2>3, <2>4, <2>5
  <2> QED BY <2>6 DEF ms
<1> QED BY Invariance, <1>1, PTL

(* The breaker stops automatic compactions, those already under way apart. *)
THEOREM BreakerTheorem == Spec => []BreakerHolds
<1>1. IInv => BreakerHolds
  BY DEF IInv
<1> QED BY Invariance, <1>1, PTL

(* A day sees at most one warning of each conversation, and one more for   *)
(* each that was cancelled between its going out and its date.             *)
THEOREM WarningTheorem == Spec => []WarnsRarely
<1>1. IInv => WarnsRarely
  <2> SUFFICES ASSUME IInv PROVE WarnsRarely
    OBVIOUS
  <2> DEFINE All == Cardinality(Sessions)
             On == Cardinality(Warners)
             Out == Cardinality(Undated)
  <2>1. /\ Warners \subseteq Sessions /\ Undated \subseteq Sessions
        /\ warned \in BOOLEAN /\ warnings \in Nat /\ lost \in Nat
    BY DEF IInv, TypeOK, Warners, Undated
  <2>2. All \in Nat /\ On \in Nat /\ Out \in Nat /\ Out <= All
    BY <2>1, Sizes
  <2>3. /\ ~warned => warnings <= lost + Out
        /\ warned => warnings + On <= lost + All
    BY DEF IInv, WarnedOnce
  <2> HIDE DEF All, On, Out
  <2>4. warnings <= All + lost
    <3>1. CASE warned
      BY <2>1, <2>2, <2>3, <3>1
    <3>2. CASE ~warned
      BY <2>1, <2>2, <2>3, <3>2
    <3> QED BY <3>1, <3>2
  <2> QED BY <2>4 DEF WarnsRarely, All
<1> QED BY Invariance, <1>1, PTL
=============================================================================
