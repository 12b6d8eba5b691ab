--------------------------- MODULE ContextManager ---------------------------
(***************************************************************************)
(* context/manager.py and compactor.py: ContextManager shortens a message  *)
(* history by having a model summarize its middle.  Several conversations  *)
(* share one manager and with it the circuit breaker that stops automatic  *)
(* compactions after repeated failures.                                    *)
(*                                                                         *)
(* A conversation is its message list.  Messages are numbered as they are  *)
(* added; "of" holds the numbers a message stands for: its own, or those   *)
(* a summary covers.  Tokens are counted in messages; each call is made    *)
(* for a model of its own, with a context window of its own.               *)
(***************************************************************************)
EXTENDS Naturals, Sequences, FiniteSets, SequencesExt

CONSTANTS
  Sessions,                \* conversations that share the manager
  HeadSize, TailSize,      \* ContextManager.head_size, tail_size
  MaxConsecutiveFailures,  \* CompactPolicy.max_consecutive_failures
  OutputReserve,           \* CompactPolicy.output_reserve_tokens
  AutoPercent,             \* CompactPolicy.auto_compact_ratio, in percent
  WarningPercent,          \* CompactPolicy.warning_ratio, in percent
  Windows,                 \* get_context_window of the models in use
  MaxCalls,                \* bound of the model: tool calls of one AI message
  MaxLength,               \* bound of the model: messages of each session
  MaxFailures,             \* bound of the model: failures of manual requests
  MaxLost                  \* bound of the model: warnings cancelled undated

ASSUME ContextAssumption ==
  /\ HeadSize \in {1, 2} /\ TailSize \in Nat
  /\ MaxConsecutiveFailures \in Nat \ {0}
  /\ OutputReserve \in Nat /\ AutoPercent \in Nat /\ WarningPercent \in Nat
  /\ Windows \subseteq Nat
  /\ MaxCalls \in Nat /\ MaxLength \in [Sessions -> Nat] /\ MaxFailures \in Nat
  /\ MaxLost \in Nat
  /\ IsFiniteSet(Sessions)

VARIABLES
  messages,    \* messages[s]: the message list of session s
  phase,       \* phase[s]: the await its compaction is parked at
  manual,      \* sessions whose compaction the application asked for
  failures,    \* consecutive_failures
  warned,      \* last_warning_emitted_at is today's date
  length,      \* length[s]: messages the session has had      (history)
  pushed,      \* manual failures since the last success       (history)
  warnings,    \* warnings that went out today                 (history)
  lost         \* those of them whose date was never written   (history)

warning == <<warned, warnings, lost>>
breaker == <<failures, pushed>>
vars    == <<messages, phase, manual, breaker, length, warning>>

Message(kind, ids, n) == [kind |-> kind, ids |-> ids, of |-> {n}]

(* head_size=2 is meant for a system and a first user message.             *)
Opening == << Message("system", {}, 1), Message("human", {}, 2) >>

Init ==
  /\ messages = [s \in Sessions |-> Opening]
  /\ phase = [s \in Sessions |-> "idle"]
  /\ manual = {} /\ failures = 0
  /\ length = [s \in Sessions |-> 2]
  /\ pushed = 0 /\ warned = FALSE /\ warnings = 0 /\ lost = 0

-----------------------------------------------------------------------------
(* Mutant: the tail may start between a call and its result.               *)
CutAnywhere(ms) ==
  IF HeadSize + TailSize >= Len(ms) THEN HeadSize ELSE Len(ms) - TailSize

(* Where the middle ends: in front of the tail or, if the tail begins with *)
(* a tool result, in front of the AI message of the middle that asked for  *)
(* it.  HeadSize if there is no middle.                                    *)
Cut(ms) ==
  LET last == Len(ms) - TailSize
      asked == {i \in HeadSize + 1..last :
                  ms[i].kind = "ai" /\ ms[last + 1].ids \subseteq ms[i].ids}
  IN  IF HeadSize + TailSize >= Len(ms) THEN HeadSize
      ELSE IF TailSize > 0 /\ ms[last + 1].kind = "tool" /\ asked # {}
      THEN Max(asked) - 1
      ELSE last

Middle(ms) == SubSeq(ms, HeadSize + 1, Cut(ms))

Boundary == [kind |-> "boundary", ids |-> {}, of |-> {}]

(* _serialize_messages_for_summary: what the model is told.                *)
Told(middle) == UNION {m.of : m \in ToSet(middle)}

(* Mutant: the last message of the middle is left out of the summary.      *)
SummaryShort(middle) ==
  [kind |-> "summary", ids |-> {}, of |-> Told(Front(middle))]

(* What it makes of that; the tag <summary> need not be there.             *)
Summary(middle) == [kind |-> "summary", ids |-> {}, of |-> Told(middle)]

PostCompact(head, summary, tail) == head \o << Boundary, summary >> \o tail

(* The new list, of the head and the tail as they are.                     *)
Compacted(ms) ==
  PostCompact(SubSeq(ms, 1, HeadSize), Summary(Middle(ms)),
              SubSeq(ms, Cut(ms) + 1, Len(ms)))

-----------------------------------------------------------------------------
(* What may follow n messages: the user speaks, or the AI answers, and     *)
(* asks for tools whose results follow.                                    *)
Turns(n) ==
  { << Message("human", {}, n + 1) >> } \cup
  { << Message("ai", n + 2..n + 1 + k, n + 1) >>
      \o [i \in 1..k |-> Message("tool", {n + 1 + i}, n + 1 + i)] :
    k \in 0..MaxCalls }

(* The conversation goes on between two calls of its model.                *)
Grow(s) ==
  /\ phase[s] = "idle"
  /\ \E turn \in Turns(length[s]) :
       /\ length[s] + Len(turn) <= MaxLength[s]
       /\ messages' = [messages EXCEPT ![s] = @ \o turn]
       /\ length' = [length EXCEPT ![s] = @ + Len(turn)]
  /\ UNCHANGED <<phase, manual, breaker, warning>>

Tokens(ms) == Len(ms)

(* The share of the window, less the room for the answer, that is full.    *)
Threshold(window, percent) ==
  IF window > OutputReserve THEN ((window - OutputReserve) * percent) \div 100
  ELSE 0

AutoThreshold(window)    == Threshold(window, AutoPercent)
WarningThreshold(window) == Threshold(window, WarningPercent)

Enter(s) ==
  /\ phase[s] = "idle"
  /\ phase' = [phase EXCEPT ![s] = "announced"]
  /\ UNCHANGED <<messages, breaker, length, warning>>

(* The compaction is decided.  Unless it shortened the list, what follows, *)
(* the emit of compact.end, changes nothing and is no phase of its own.    *)
Leave(s, p) ==
  /\ phase' = [phase EXCEPT ![s] = p]
  /\ manual' = manual \ {s}

(* Mutant: one failure too many. *)
CompactIfNeededLate(s) ==
  /\ failures <= MaxConsecutiveFailures
  /\ \E window \in Windows : Tokens(messages[s]) >= AutoThreshold(window)
  /\ Enter(s) /\ UNCHANGED manual

(* compact_if_needed with the breaker closed and the threshold reached ... *)
CompactIfNeeded(s) ==
  /\ failures < MaxConsecutiveFailures
  /\ \E window \in Windows : Tokens(messages[s]) >= AutoThreshold(window)
  /\ Enter(s) /\ UNCHANGED manual

(* ... or close, and nobody warned today: the warning is emitted ...       *)
Warn(s) ==
  /\ phase[s] = "idle"
  /\ failures < MaxConsecutiveFailures
  /\ ~warned
  /\ \E window \in Windows :
       Tokens(messages[s]) \in WarningThreshold(window)..AutoThreshold(window) - 1
  /\ phase' = [phase EXCEPT ![s] = "warning"]
  /\ UNCHANGED <<messages, manual, breaker, length, warning>>

(* ... goes out to a sink, while the session still awaits the emit ...     *)
GoesOut(s) ==
  /\ phase[s] = "warning"
  /\ phase' = [phase EXCEPT ![s] = "out"]
  /\ warnings' = warnings + 1
  /\ UNCHANGED <<messages, manual, breaker, length, warned, lost>>

(* Mutant: a date is never written down.                                   *)
DatedNever(s) ==
  /\ phase[s] = "out"
  /\ phase' = [phase EXCEPT ![s] = "idle"]
  /\ UNCHANGED <<messages, manual, breaker, length, warning>>

(* ... and only when the emit has returned is the date, as of then,        *)
(* written down.                                                           *)
Dated(s) ==
  /\ phase[s] = "out"
  /\ phase' = [phase EXCEPT ![s] = "idle"]
  /\ warned' = TRUE
  /\ UNCHANGED <<messages, manual, breaker, length, warnings, lost>>

(* ... or neither: nothing changes.                                        *)
Skips(s) ==
  /\ phase[s] = "idle"
  /\ \/ failures >= MaxConsecutiveFailures
     \/ \E window \in Windows :
          /\ Tokens(messages[s]) < AutoThreshold(window)
          /\ warned \/ Tokens(messages[s]) < WarningThreshold(window)
  /\ UNCHANGED vars

(* compact called by the application, past the breaker.                    *)
Compact(s) ==
  failures < MaxFailures /\ Enter(s) /\ manual' = manual \cup {s}

(* compact.start is out; the model is asked unless there is no middle.     *)
Split(s) ==
  /\ phase[s] = "announced"
  /\ \/ Middle(messages[s]) = <<>> /\ Leave(s, "idle")
     \/ /\ Middle(messages[s]) # <<>>
        /\ phase' = [phase EXCEPT ![s] = "summarizing"]
        /\ UNCHANGED manual
  /\ UNCHANGED <<messages, breaker, length, warning>>

(* The summary arrives, and resets the breaker.                            *)
Succeeds(s) ==
  /\ phase[s] = "summarizing"
  /\ Leave(s, "shortened")
  /\ failures' = 0 /\ pushed' = 0
  /\ UNCHANGED <<messages, length, warning>>

(* The model raises or its summary is empty.                               *)
Fails(s) ==
  /\ phase[s] = "summarizing"
  /\ Leave(s, "idle")
  /\ failures' = failures + 1
  /\ pushed' = IF s \in manual THEN pushed + 1 ELSE pushed
  /\ UNCHANGED <<messages, length, warning>>

(* compact.end is out: the session goes on with the shortened list.        *)
Returns(s) ==
  /\ phase[s] = "shortened"
  /\ messages' = [messages EXCEPT ![s] = Compacted(@)]
  /\ phase' = [phase EXCEPT ![s] = "idle"]
  /\ UNCHANGED <<manual, breaker, length, warning>>

(* The session is cancelled at an await of the manager, that of a warning  *)
(* which is out already included; its list stays as it was.                *)
Cancelled(s) ==
  /\ phase[s] # "idle"
  /\ \/ /\ phase[s] = "out" /\ ~warned
        /\ lost < MaxLost
        /\ lost' = lost + 1
     \/ ~(phase[s] = "out" /\ ~warned) /\ UNCHANGED lost
  /\ Leave(s, "idle")
  /\ UNCHANGED <<messages, breaker, length, warned, warnings>>

Midnight ==
  /\ warned' = FALSE /\ warnings' = 0 /\ lost' = 0
  /\ UNCHANGED <<messages, phase, manual, breaker, length>>

Next ==
  \/ \E s \in Sessions :
       \/ Grow(s) \/ Compact(s) \/ Split(s) \/ Succeeds(s) \/ Fails(s)
       \/ Returns(s) \/ CompactIfNeeded(s) \/ Skips(s) \/ Cancelled(s)
       \/ Warn(s) \/ GoesOut(s) \/ Dated(s)
  \/ Midnight

Spec == Init /\ [][Next]_vars

-----------------------------------------------------------------------------
Phases == {"idle", "warning", "out", "announced", "summarizing", "shortened"}

Kinds == {"system", "human", "ai", "tool", "boundary", "summary"}

(* Types; a model is asked, and a list shortened, only with something to   *)
(* summarize.                                                              *)
TypeOK ==
  /\ length \in [Sessions -> Nat]
  /\ \A s \in Sessions : messages[s] \in Seq(
       [kind : Kinds, ids : SUBSET (1..length[s]), of : SUBSET (1..length[s])])
  /\ phase \in [Sessions -> Phases]
  /\ manual \subseteq {s \in Sessions : phase[s] \in {"announced", "summarizing"}}
  /\ failures \in Nat /\ pushed \in 0..failures
  /\ warned \in BOOLEAN /\ warnings \in Nat /\ lost \in Nat
  /\ \A s \in Sessions :
       phase[s] \in {"summarizing", "shortened"} => Middle(messages[s]) # <<>>

(* However often a session is compacted, summaries of summaries included,  *)
(* its list stands for every message it ever had, each once and in order   *)
(* (the slices of _split_head_and_tail and _adjust_tail_for_pair_safety);  *)
(* it opens as the session did and ends in messages as they were.          *)
NothingLost ==
  \A s \in Sessions :
    LET ms == messages[s] IN
    /\ UNION {m.of : m \in ToSet(ms)} = 1..length[s]
    /\ \A i, j \in DOMAIN ms : i < j => \A a \in ms[i].of, b \in ms[j].of : a < b
    /\ SubSeq(ms, 1, HeadSize) = SubSeq(Opening, 1, HeadSize)
    /\ \A i \in DOMAIN ms :
         i > Len(ms) - TailSize => ms[i].kind \notin {"boundary", "summary"}

(* A model never sees half of a tool exchange: each tool result follows    *)
(* the AI message that asked for it, and each call has its result, which   *)
(* providers insist on (_adjust_tail_for_pair_safety).                     *)
PairsIntact ==
  \A s \in Sessions : \A c \in 1..length[s] :
    LET ms == messages[s]
        Asks == {i \in DOMAIN ms : ms[i].kind = "ai" /\ c \in ms[i].ids}
        Answers == {i \in DOMAIN ms : ms[i].kind = "tool" /\ c \in ms[i].ids}
    IN  /\ Asks = {} <=> Answers = {}
        /\ \A i \in Asks, j \in Answers : i < j

Automatic ==
  {s \in Sessions \ manual : phase[s] \in {"announced", "summarizing"}}

(* Once the breaker is open the model is asked no more than once by each   *)
(* other session that was under way when it opened: failures that no       *)
(* manual request caused never exceed the limit by more than that          *)
(* (compact_if_needed checks the counter before, compact counts after, an  *)
(* await).                                                                 *)
BreakerHolds ==
  failures >= MaxConsecutiveFailures =>
    failures + Cardinality(Automatic)
      < MaxConsecutiveFailures + Cardinality(Sessions) + pushed

(* However many conversations are close to the threshold, a day sees at    *)
(* most one warning of each, and one more for each that was cancelled      *)
(* while it awaited the emit of a warning that was out: the date is looked *)
(* at before that await and written after it (compact_if_needed).          *)
WarnsRarely == warnings <= Cardinality(Sessions) + lost

(* boundary.py:105, "on the next compaction, do not summarize again what   *)
(* has been compacted before" (manager.py:200 says the same): the middle   *)
(* holds nothing of an earlier compaction.                                 *)
NothingResummarized ==
  \A s \in Sessions : phase[s] = "summarizing" =>
    \A m \in ToSet(Middle(messages[s])) : m.kind \notin {"boundary", "summary"}
=============================================================================
