------------------------------ MODULE AutoWorker ------------------------------
(***************************************************************************)
(* The automatic refine worker of one process (__init__.py).               *)
(*                                                                         *)
(* A process runs at most one automatic pass.  Turns and session ends      *)
(* compete for its one slot (_AUTO_THREAD_GUARD).  A turn that finds the   *)
(* slot taken is skipped; a session end is deferred, because it also has   *)
(* to clear the notes of its session, and whoever gives the slot back      *)
(* takes the deferred ends first (_finish_auto_worker).                    *)
(*                                                                         *)
(* A thread that starts a worker returns to the host at once, so one       *)
(* element of Threads stands for the callback and the worker it started.   *)
(***************************************************************************)
EXTENDS Naturals, Sequences, FiniteSets

CONSTANTS
  Sessions,
  Threads,      \* host callbacks and the workers they start
  NoSession,
  NoThread,
  StartFails,   \* threading.Thread.start() may raise
  PassFails     \* a pass may raise before it has the mutation lock

ASSUME WorkerAssumption ==
  /\ NoSession \notin Sessions /\ NoThread \notin Threads
  /\ StartFails \in BOOLEAN /\ PassFails \in BOOLEAN

VARIABLES
  slot,      \* _AUTO_THREAD_GUARD is taken
  pending,   \* _AUTO_PENDING_SESSION_ENDS, in insertion order
  enabled,   \* config.auto_enabled()
  pc,        \* where each thread is
  sess,      \* the session it works for
  ends,      \* it works for the end of that session
  owed       \* what the last end of each session still owes: its cleanup is "due", or a
             \* worker gave up before it and it is "lost"

threadVars == <<pc, sess, ends>>
vars == <<slot, pending, enabled, threadVars, owed>>

Locations == {"idle", "ending", "starting", "collect", "pass", "cleanup", "finish",
              "popped"}

Init ==
  /\ slot = FALSE
  /\ pending = <<>>
  /\ enabled \in BOOLEAN
  /\ pc = [t \in Threads |-> "idle"]
  /\ sess = [t \in Threads |-> NoSession]
  /\ ends = [t \in Threads |-> FALSE]
  /\ owed = [s \in Sessions |-> "nothing"]

Goto(t, l) == pc' = [pc EXCEPT ![t] = l]

Work(t, s, ending) ==
  /\ sess' = [sess EXCEPT ![t] = s]
  /\ ends' = [ends EXCEPT ![t] = ending]

\* The thread returns to the host, or ends.
Return(t) == Goto(t, "idle") /\ Work(t, NoSession, FALSE)

\* _clear_session_prompt_notes: notes it cannot remove now are reported.
ClearNotes(s) == owed' = [owed EXCEPT ![s] = "nothing"]

\* The thread gives up before the cleanup of the end it works for, if it does.
LoseCleanup(t) ==
  owed' = IF ends[t] THEN [owed EXCEPT ![sess[t]] = "lost"] ELSE owed

-----------------------------------------------------------------------------
(* Host callbacks. *)

\* post_llm_call: auto is on, cooldown and interval are over, the slot is free
\* (_start_auto_refine, _claim_auto_worker).
StartTurn(t, s) ==
  /\ pc[t] = "idle"
  /\ enabled
  /\ ~slot
  /\ slot' = TRUE
  /\ Goto(t, "starting")
  /\ Work(t, s, FALSE)
  /\ UNCHANGED <<pending, enabled, owed>>

\* The host calls on_session_end.
SessionEnd(t, s) ==
  /\ pc[t] = "idle"
  /\ Goto(t, "ending")
  /\ Work(t, s, TRUE)
  /\ owed' = [owed EXCEPT ![s] = "due"]
  /\ UNCHANGED <<slot, pending, enabled>>

\* Auto is off, or the turn was interrupted: only the notes are cleared.
EndWithoutPass(t) ==
  /\ pc[t] = "ending"
  /\ ClearNotes(sess[t])
  /\ Return(t)
  /\ UNCHANGED <<slot, pending, enabled>>

\* _defer_or_claim_session_end: one step under _AUTO_PENDING_LOCK.  A second end of a
\* session takes the place of the first.
DeferOrClaim(t) ==
  /\ pc[t] = "ending"
  /\ enabled
  /\ IF slot
     THEN /\ pending' = IF \E i \in 1..Len(pending) : pending[i] = sess[t]
                        THEN pending ELSE Append(pending, sess[t])
          /\ Return(t)
          /\ UNCHANGED slot
     ELSE /\ slot' = TRUE
          /\ Goto(t, "starting")
          /\ UNCHANGED <<pending, sess, ends>>
  /\ UNCHANGED <<enabled, owed>>

\* The operator turns automatic refinement on or off.
Switch ==
  /\ enabled' = ~enabled
  /\ UNCHANGED <<slot, pending, threadVars, owed>>

-----------------------------------------------------------------------------
(* The worker. *)

StartWorker(t) ==
  /\ pc[t] = "starting"
  /\ Goto(t, IF ends[t] THEN "collect" ELSE "pass")
  /\ UNCHANGED <<slot, pending, enabled, sess, ends, owed>>

\* The thread could not be started: the slot is handed on and nothing else is done.
StartWorkerFails(t) ==
  /\ StartFails
  /\ pc[t] = "starting"
  /\ LoseCleanup(t)
  /\ Goto(t, "finish")
  /\ UNCHANGED <<slot, pending, enabled, sess, ends>>

\* A plausible bug: a session with too few messages needs no cleanup.
CollectQuiet(t) ==
  /\ pc[t] = "collect"
  /\ Goto(t, "pass") \/ Goto(t, "finish")
  /\ UNCHANGED <<slot, pending, enabled, sess, ends, owed>>

\* _collect_and_run: enough messages, or a skipped source, hand over to the pass; too
\* few, evidence that cannot be read, or an exception leave only the cleanup.
Collect(t) ==
  /\ pc[t] = "collect"
  /\ Goto(t, "pass") \/ Goto(t, "cleanup")
  /\ UNCHANGED <<slot, pending, enabled, sess, ends, owed>>

\* _run_auto_refine, from the gates to the end of refine_run, or without one.
Pass(t) ==
  /\ pc[t] = "pass"
  /\ Goto(t, IF ends[t] THEN "cleanup" ELSE "finish")
  /\ UNCHANGED <<slot, pending, enabled, sess, ends, owed>>

\* A gate cannot read the journal, or the lock file cannot be written.
PassRaises(t) ==
  /\ PassFails
  /\ pc[t] = "pass"
  /\ LoseCleanup(t)
  /\ Goto(t, "finish")
  /\ UNCHANGED <<slot, pending, enabled, sess, ends>>

Cleanup(t) ==
  /\ pc[t] = "cleanup"
  /\ ClearNotes(sess[t])
  /\ Goto(t, "finish")
  /\ UNCHANGED <<slot, pending, enabled, sess, ends>>

-----------------------------------------------------------------------------
(* _finish_auto_worker. *)

\* A plausible bug: the slot is let go before the deferred ends are looked at.
FinishEarly(t) ==
  /\ pc[t] = "finish"
  /\ slot' = FALSE
  /\ IF pending = <<>>
     THEN Return(t) /\ UNCHANGED pending
     ELSE /\ pending' = Tail(pending)
          /\ Goto(t, "popped")
          /\ Work(t, Head(pending), TRUE)
  /\ UNCHANGED <<enabled, owed>>

\* A plausible bug: the deferred ends wait for the next session end.
FinishAlone(t) ==
  /\ pc[t] = "finish"
  /\ slot' = FALSE
  /\ Return(t)
  /\ UNCHANGED <<pending, enabled, owed>>

\* A plausible bug: dict.popitem() takes the end deferred last.
FinishLatest(t) ==
  /\ pc[t] = "finish"
  /\ IF pending = <<>>
     THEN slot' = FALSE /\ Return(t) /\ UNCHANGED pending
     ELSE /\ pending' = SubSeq(pending, 1, Len(pending) - 1)
          /\ Goto(t, "popped")
          /\ Work(t, pending[Len(pending)], TRUE)
          /\ UNCHANGED slot
  /\ UNCHANGED <<enabled, owed>>

\* One turn of its loop under _AUTO_PENDING_LOCK: the oldest deferred end is taken
\* with the slot, or the slot is let go.
Finish(t) ==
  /\ pc[t] = "finish"
  /\ IF pending = <<>>
     THEN slot' = FALSE /\ Return(t) /\ UNCHANGED pending
     ELSE /\ pending' = Tail(pending)
          /\ Goto(t, "popped")
          /\ Work(t, Head(pending), TRUE)
          /\ UNCHANGED slot
  /\ UNCHANGED <<enabled, owed>>

\* Auto is off, here or inside _on_session_end, or that call raises: the notes are
\* cleared and the loop goes on.
DrainOnly(t) ==
  /\ pc[t] = "popped"
  /\ ClearNotes(sess[t])
  /\ Goto(t, "finish")
  /\ UNCHANGED <<slot, pending, enabled, sess, ends>>

\* _on_session_end(_worker_claimed=True).
Resume(t) ==
  /\ pc[t] = "popped"
  /\ enabled
  /\ Goto(t, "starting")
  /\ UNCHANGED <<slot, pending, enabled, sess, ends, owed>>

-----------------------------------------------------------------------------
Step(t) ==
  \/ EndWithoutPass(t) \/ DeferOrClaim(t) \/ StartWorker(t) \/ StartWorkerFails(t)
  \/ Collect(t) \/ Pass(t) \/ PassRaises(t) \/ Cleanup(t) \/ Finish(t)
  \/ DrainOnly(t) \/ Resume(t)

Next ==
  \/ \E t \in Threads : \/ Step(t)
                        \/ \E s \in Sessions : StartTurn(t, s) \/ SessionEnd(t, s)
  \/ Switch

Spec == Init /\ [][Next]_vars

\* Threads that run go on; nobody has to end a session, take a turn or flip the switch.
FairSpec == Spec /\ \A t \in Threads : WF_vars(Step(t))
-----------------------------------------------------------------------------
(* Properties. *)

\* Every variable has its type, and a session has at most one deferred end.
TypeOK ==
  /\ slot \in BOOLEAN /\ enabled \in BOOLEAN
  /\ pending \in Seq(Sessions)
  /\ \A i, j \in 1..Len(pending) : pending[i] = pending[j] => i = j
  /\ pc \in [Threads -> Locations]
  /\ sess \in [Threads -> Sessions \cup {NoSession}]
  /\ ends \in [Threads -> BOOLEAN]
  /\ owed \in [Sessions -> {"nothing", "due", "lost"}]

\* Where a thread owns the slot.
Owning == {"starting", "collect", "pass", "cleanup", "finish", "popped"}

\* A deferred end never waits with nobody left to take it: while one is pending some
\* thread owns the slot and has still to look (_defer_or_claim_session_end,
\* _finish_auto_worker).
NothingStranded == pending # <<>> => \E t \in Threads : pc[t] \in Owning

\* The thread that owns the slot, as an abstract lock sees it.
Holder == IF \E t \in Threads : pc[t] \in Owning
          THEN CHOOSE t \in Threads : pc[t] \in Owning ELSE NoThread

\* Through claims, hand-overs and failed starts the slot is one lock: at most one
\* thread at a time works, and it alone gives the slot back (_claim_auto_worker,
\* _finish_auto_worker).
Slot == INSTANCE Mutex WITH holder <- Holder
OneWorker == Slot!Spec

\* Every deferred end is taken up, however many sessions go on ending
\* (_finish_auto_worker takes the oldest).
EveryEndTaken ==
  \A s \in Sessions :
    (\E i \in 1..Len(pending) : pending[i] = s)
      ~> ~(\E i \in 1..Len(pending) : pending[i] = s)

\* Every session end comes to its cleanup, on the callback, by the worker or by whoever
\* drains the deferred ends, or to a thread or a gate that fails.
EveryEndCleans == \A s \in Sessions : (owed[s] = "due") ~> (owed[s] # "due")

=============================================================================
