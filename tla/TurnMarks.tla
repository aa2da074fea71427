------------------------------- MODULE TurnMarks -------------------------------
(***************************************************************************)
(* When the automatic trigger fires for a session that goes on             *)
(* (__init__._on_post_llm_call, _start_auto_refine, _turn_interval_reached,*)
(* _set_turn_mark_locked, _forget_turn_marks).                             *)
(*                                                                         *)
(* The plugin remembers how long the conversation was at a session's last  *)
(* attempt, for _AUTO_TURN_MARKS_MAX sessions only; the sessions of one    *)
(* process take turns concurrently.  The pass itself is AutoWorker.        *)
(***************************************************************************)
EXTENDS Integers, Sequences, FiniteSets, SequencesExt

CONSTANTS
  Chats,       \* host sessions of this process
  Interval,    \* auto_turn_interval
  MaxMarks,    \* _AUTO_TURN_MARKS_MAX
  MaxLength    \* bound on the length of a conversation

ASSUME TurnMarksAssumption ==
  /\ {Interval, MaxMarks, MaxLength} \subseteq Nat \ {0}

VARIABLES
  length,     \* the assistant messages of each conversation
  marks,      \* _AUTO_TURN_MARKS, the oldest first
  calling,    \* where the callback of each session is
  counted,    \* the messages it was called with
  slotTaken,  \* the worker slot
  since       \* history: messages since the session's last attempt or reset, or the start,
              \* counted up to Interval

marksVars == <<length, marks, calling, counted, slotTaken, since>>

\* A process starts in the middle of conversations.
MarksInit ==
  /\ length \in [Chats -> 0..1] /\ since = [s \in Chats |-> 0]
  /\ marks = <<>> /\ counted = length
  /\ calling = [s \in Chats |-> "idle"] /\ slotTaken = FALSE

Enters(s, where) == calling' = [calling EXCEPT ![s] = where]

Marked(s) == \E i \in DOMAIN marks : marks[i].chat = s
Place(s) == CHOOSE i \in DOMAIN marks : marks[i].chat = s
Mark(s) == marks[Place(s)].length

\* pop
Without(s) == IF Marked(s) THEN RemoveAt(marks, Place(s)) ELSE marks

\* _set_turn_mark_locked: an existing mark moves to the end, a new one evicts the oldest.
SetMark(s) ==
  LET room == IF ~Marked(s) /\ Len(marks) >= MaxMarks THEN Tail(marks) ELSE Without(s)
  IN marks' = Append(room, [chat |-> s, length |-> counted[s]])

\* A turn ends and the host calls _on_post_llm_call.
TakeTurn(s) ==
  /\ calling[s] = "idle" /\ length[s] < MaxLength
  /\ length' = [length EXCEPT ![s] = @ + 1]
  /\ since' = [since EXCEPT ![s] = IF @ < Interval THEN @ + 1 ELSE @]
  /\ counted' = [counted EXCEPT ![s] = length'[s]]
  /\ Enters(s, "called")
  /\ UNCHANGED <<marks, slotTaken>>

\* Switched off, cooling down, or no model run left.
GatesRefuse(s) ==
  /\ calling[s] = "called" /\ Enters(s, "idle")
  /\ UNCHANGED <<length, marks, slotTaken, since, counted>>

\* A plausible bug: a missing mark means no turn yet.
CompareFromZero(s) ==
  /\ calling[s] = "called"
  /\ Enters(s, IF counted[s] - (IF Marked(s) THEN Mark(s) ELSE 0) >= Interval
               THEN "reached" ELSE "idle")
  /\ UNCHANGED <<length, marks, slotTaken, since, counted>>

\* _turn_interval_reached: without a mark the count starts here.
Compare(s) ==
  /\ calling[s] = "called"
  /\ IF Marked(s)
     THEN Enters(s, IF counted[s] - Mark(s) >= Interval THEN "reached" ELSE "idle")
          /\ UNCHANGED marks
     ELSE SetMark(s) /\ Enters(s, "idle")
  /\ UNCHANGED <<length, slotTaken, since, counted>>

ClaimSlot(s) ==
  /\ calling[s] = "reached"
  /\ IF slotTaken THEN Enters(s, "idle") /\ UNCHANGED slotTaken
     ELSE Enters(s, "charging") /\ slotTaken' = TRUE
  /\ UNCHANGED <<length, marks, since, counted>>

\* _mark_turn_attempt, and the worker starts.
ChargeAttempt(s) ==
  /\ calling[s] = "charging" /\ Enters(s, "idle")
  /\ SetMark(s) /\ since' = [since EXCEPT ![s] = 0]
  /\ UNCHANGED <<length, slotTaken, counted>>

\* Or the worker does not start.
WorkerEnds ==
  /\ slotTaken /\ \A s \in Chats : calling[s] # "charging"
  /\ slotTaken' = FALSE
  /\ UNCHANGED <<length, marks, calling, since, counted>>

\* _on_session_end and _on_session_reset forget the mark, which a callback may be about
\* to write again.
ForgetMark(s) ==
  /\ marks' = Without(s)
  /\ \/ UNCHANGED <<length, since>>
     \/ length' = [length EXCEPT ![s] = 0] /\ since' = [since EXCEPT ![s] = 0]
  /\ UNCHANGED <<calling, slotTaken, counted>>

Compress(s) ==
  /\ length[s] > 0
  /\ \E n \in 0..length[s] - 1 : length' = [length EXCEPT ![s] = n]
  /\ UNCHANGED <<marks, calling, slotTaken, since, counted>>

MarksNext ==
  \/ WorkerEnds
  \/ \E s \in Chats : \/ TakeTurn(s) \/ GatesRefuse(s) \/ Compare(s) \/ ClaimSlot(s)
                      \/ ChargeAttempt(s) \/ ForgetMark(s) \/ Compress(s)

MarksSpec == MarksInit /\ [][MarksNext]_marksVars

-----------------------------------------------------------------------------
MarksTypeOK ==
  /\ {length, counted} \subseteq [Chats -> 0..MaxLength] /\ since \in [Chats -> 0..Interval]
  /\ Len(marks) <= MaxMarks /\ \A i \in DOMAIN marks : marks[i].chat \in Chats
  /\ calling \in [Chats -> {"idle", "called", "reached", "charging"}]
  /\ slotTaken \in BOOLEAN

\* A session pays for a pass with a full interval of its own messages: an evicted mark, a
\* shortened conversation or a new start of the process never fires one early
\* (_turn_interval_reached).
NoEarlyPass ==
  [][\A s \in Chats : calling[s] = "called" /\ calling'[s] = "reached"
                      => since[s] >= Interval]_marksVars
=============================================================================
