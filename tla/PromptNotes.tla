----------------------------- MODULE PromptNotes -----------------------------
(***************************************************************************)
(* The prompt notes refine writes and the host's hooks read                *)
(* (journal.add_prompt_note, clear_session_prompt_notes,                   *)
(* rollback_prompt_note, reconcile; __init__._on_pre_llm_call).            *)
(*                                                                         *)
(* The store is one file, replaced as a whole.  Refine replaces it only    *)
(* under the mutation lock, from a view it read earlier under that lock;   *)
(* the user edits it by hand without it.  Each note refine wrote has one   *)
(* journal record, which says what became of it.  An operation can end     *)
(* between any two of its steps: its process dies or an append fails.      *)
(***************************************************************************)
EXTENDS Integers, FiniteSets

CONSTANTS
  Notes,          \* note ids; a journal record belongs to each
  NoteSessions,   \* host sessions
  Blocking,       \* notes whose text builds a block rule
  Everywhere,     \* the scope of a global note
  MaxHandEdits,   \* bound on what the user does to the file
  MaxFaults       \* bound on operations that end early

ASSUME NotesAssumption ==
  /\ Everywhere \notin NoteSessions /\ Blocking \subseteq Notes
  /\ MaxHandEdits \in Nat /\ MaxFaults \in Nat

VARIABLES
  store,      \* each note in the file: absent, as refine wrote it, or changed by hand
  file,       \* the file is missing, can be read, or is broken
  outcome,    \* the state of each note's record
  scope,      \* what the note is bound to
  bound,      \* notes whose pass still waits for the mutation lock
  op,         \* what the holder of the lock does
  rules,      \* the notes _BLOCK_RULES was built from
  handEdits, faults

notesVars == <<store, file, outcome, scope, bound, op, rules, handEdits, faults>>

Scopes == NoteSessions \cup {Everywhere}
NoteOutcomes == {"none", "prepared", "applied", "cleanup_prepared", "cleanup_resolved",
                 "rollback_prepared", "rolled_back", "error"}
NoteStates == {"absent", "own", "changed"}

\* Nobody holds the lock.
LockFree == [at |-> "free"]

NotesInit ==
  /\ store = [n \in Notes |-> "absent"]
  /\ file = "missing"
  /\ outcome = [n \in Notes |-> "none"]
  /\ scope = [n \in Notes |-> Everywhere]
  /\ bound = {}
  /\ op = LockFree
  /\ rules = {}
  /\ handEdits = 0 /\ faults = 0

\* _load_prompt_notes answers: an absent file is an empty store, a broken one no answer.
Legible == file # "broken"

NoteRecord(n, o) == outcome' = [outcome EXCEPT ![n] = o]

\* _write_prompt_notes: the file becomes the view without the notes in gone.
RewriteNotes(view, gone) ==
  /\ store' = [n \in Notes |-> IF n \in gone THEN "absent" ELSE view[n]]
  /\ file' = "readable"

-----------------------------------------------------------------------------
(* A pass adds a note. *)

\* It binds the note to the session it analyses, or to all of them (_session_can_hold_a_note),
\* and goes on to wait for the lock.  A pass by itself does not look whether its session still
\* lives: the note may come after the session's cleanup.
Bind(n, s) ==
  /\ outcome[n] = "none" /\ n \notin bound
  /\ scope' = [scope EXCEPT ![n] = s]
  /\ bound' = bound \cup {n}
  /\ UNCHANGED <<store, file, outcome, op, rules, handEdits, faults>>

\* Under the lock: the store must answer, then the intent is journaled.
Intend(n) ==
  /\ op = LockFree /\ n \in bound
  /\ bound' = bound \ {n}
  /\ IF Legible
     THEN NoteRecord(n, "prepared") /\ op' = [at |-> "adding", note |-> n]
     ELSE UNCHANGED <<outcome, op>>
  /\ UNCHANGED <<store, file, scope, rules, handEdits, faults>>

\* add_prompt_note.
AddNote ==
  /\ op.at = "adding"
  /\ IF Legible
     THEN /\ RewriteNotes([store EXCEPT ![op.note] = "own"], {})
          /\ op' = [op EXCEPT !.at = "added"]
          /\ UNCHANGED outcome
     ELSE /\ NoteRecord(op.note, "error") /\ op' = LockFree
          /\ UNCHANGED <<store, file>>
  /\ UNCHANGED <<scope, bound, rules, handEdits, faults>>

\* target_matches_applied: what is in the file now decides.
ConfirmNote ==
  /\ op.at = "added"
  /\ NoteRecord(op.note, IF Legible /\ store[op.note] = "own" THEN "applied" ELSE "error")
  /\ op' = LockFree
  /\ UNCHANGED <<store, file, scope, bound, rules, handEdits, faults>>

-----------------------------------------------------------------------------
(* A session ends or is reset: clear_session_prompt_notes. *)

\* A plausible bug: a note is known by its id alone.
OwnedById(s, view) ==
  {n \in Notes : /\ scope[n] = s /\ view[n] # "absent"
                 /\ outcome[n] \in {"prepared", "applied", "cleanup_prepared",
                                    "rollback_prepared"}}

\* The notes whose record owns them exactly.
Owned(s, view) == {n \in Notes : /\ scope[n] = s /\ view[n] = "own"
                                 /\ outcome[n] \in {"prepared", "applied", "cleanup_prepared",
                                                    "rollback_prepared"}}

\* The records whose intent this session's cleanup may complete.
Intents(s) == {n \in Notes : scope[n] = s /\ outcome[n] \in {"cleanup_prepared",
                                                              "rollback_prepared"}}

\* The host's callback waits for the lock only briefly.
EndSession(s) ==
  /\ IF op = LockFree /\ Legible
     THEN op' = [at |-> "marking", session |-> s, view |-> store]
     ELSE UNCHANGED op
  /\ UNCHANGED <<store, file, outcome, scope, bound, rules, handEdits, faults>>

\* One append for each note that is not yet marked or being rolled back.
MarkNote(n) ==
  /\ op.at = "marking"
  /\ n \in Owned(op.session, op.view) /\ outcome[n] \in {"prepared", "applied"}
  /\ NoteRecord(n, "cleanup_prepared")
  /\ UNCHANGED <<store, file, scope, bound, op, rules, handEdits, faults>>

\* All of them leave the file in one write.
Sweep ==
  /\ op.at = "marking"
  /\ Owned(op.session, op.view) \subseteq Intents(op.session)
  /\ IF Owned(op.session, op.view) = {}
     THEN UNCHANGED <<store, file>>
     ELSE RewriteNotes(op.view, Owned(op.session, op.view))
  /\ op' = [op EXCEPT !.at = "reading"]
  /\ UNCHANGED <<outcome, scope, bound, rules, handEdits, faults>>

\* The file is read back; what is still in it is not certified.
ReadBack ==
  /\ op.at = "reading"
  /\ op' = IF Legible THEN [op EXCEPT !.at = "resolving", !.view = store] ELSE LockFree
  /\ UNCHANGED <<store, file, outcome, scope, bound, rules, handEdits, faults>>

\* One append for each intent whose note is gone.
Resolved(n) == IF outcome[n] = "cleanup_prepared" THEN "cleanup_resolved" ELSE "rolled_back"

\* A plausible bug: every intent of the session is certified.
ResolveEvery(n) ==
  /\ op.at = "resolving"
  /\ n \in Intents(op.session)
  /\ NoteRecord(n, Resolved(n))
  /\ UNCHANGED <<store, file, scope, bound, op, rules, handEdits, faults>>

ResolveNote(n) ==
  /\ op.at = "resolving"
  /\ n \in Intents(op.session) /\ op.view[n] = "absent"
  /\ NoteRecord(n, Resolved(n))
  /\ UNCHANGED <<store, file, scope, bound, op, rules, handEdits, faults>>

\* A changed note is a conflict and keeps its record; an unchanged one that survived
\* ends the cleanup where it is.
EndCleanup ==
  /\ op.at = "resolving"
  /\ \/ \A n \in Intents(op.session) : op.view[n] # "absent"
     \/ \E n \in Intents(op.session) : op.view[n] = "own"
  /\ op' = LockFree
  /\ UNCHANGED <<store, file, outcome, scope, bound, rules, handEdits, faults>>

-----------------------------------------------------------------------------
(* Rollbacks, and the intents a death left (rollback_prompt_note,          *)
(* reconcile, _reconcile_cleanup_prepared).                                *)

\* A note that is missing or changed is not rolled back.
StartUndo(n) ==
  /\ op = LockFree /\ outcome[n] = "applied"
  /\ Legible /\ store[n] = "own"
  /\ NoteRecord(n, "rollback_prepared")
  /\ op' = [at |-> "removing", note |-> n, view |-> store]
  /\ UNCHANGED <<store, file, scope, bound, rules, handEdits, faults>>

\* The next pass looks at an intent.  A prepared note that is not there proves
\* nothing and keeps its record.
SettlePrepared(n) ==
  /\ op = LockFree /\ outcome[n] = "prepared"
  /\ Legible /\ store[n] = "own"
  /\ NoteRecord(n, "applied")
  /\ UNCHANGED <<store, file, scope, bound, op, rules, handEdits, faults>>

\* An undo that is not visible is taken back after _ABANDONED_PREPARED_SECONDS.
SettleUndo(n) ==
  /\ op = LockFree /\ outcome[n] = "rollback_prepared" /\ Legible
  /\ \/ store[n] = "absent" /\ NoteRecord(n, "rolled_back")
     \/ store[n] = "own" /\ NoteRecord(n, "applied")
  /\ UNCHANGED <<store, file, scope, bound, op, rules, handEdits, faults>>

\* A plausible bug: a cleanup is taken up only where the note is still there.
SettleCleanupPresent(n) ==
  /\ op = LockFree /\ outcome[n] = "cleanup_prepared" /\ scope[n] # Everywhere /\ Legible
  /\ store[n] = "own"
  /\ op' = [at |-> "removing", note |-> n, view |-> store]
  /\ UNCHANGED <<store, file, outcome, scope, bound, rules, handEdits, faults>>

\* A cleanup is completed: a note that is still there unchanged goes first.
SettleCleanup(n) ==
  /\ op = LockFree /\ outcome[n] = "cleanup_prepared" /\ scope[n] # Everywhere /\ Legible
  /\ \/ /\ store[n] = "absent"
        /\ NoteRecord(n, "cleanup_resolved") /\ UNCHANGED op
     \/ /\ store[n] = "own"
        /\ op' = [at |-> "removing", note |-> n, view |-> store] /\ UNCHANGED outcome
  /\ UNCHANGED <<store, file, scope, bound, rules, handEdits, faults>>

RemoveNote ==
  /\ op.at = "removing"
  /\ RewriteNotes(op.view, {op.note})
  /\ op' = [op EXCEPT !.at = "removed"]
  /\ UNCHANGED <<outcome, scope, bound, rules, handEdits, faults>>

\* Verified before it is certified.  A rollback that cannot be verified is taken back.
Certify ==
  /\ op.at = "removed"
  /\ \/ Legible /\ store[op.note] = "absent" /\ NoteRecord(op.note, Resolved(op.note))
     \/ /\ ~(Legible /\ store[op.note] = "absent")
        /\ IF outcome[op.note] = "rollback_prepared"
           THEN NoteRecord(op.note, "applied") ELSE UNCHANGED outcome
  /\ op' = LockFree
  /\ UNCHANGED <<store, file, scope, bound, rules, handEdits, faults>>

\* A rollback whose write raises is taken back.
RemoveFails ==
  /\ op.at = "removing" /\ outcome[op.note] = "rollback_prepared"
  /\ faults < MaxFaults
  /\ faults' = faults + 1
  /\ NoteRecord(op.note, "applied")
  /\ op' = LockFree
  /\ UNCHANGED <<store, file, scope, bound, rules, handEdits>>

\* The process dies or an append raises: the lock is free, nothing is undone.
Abandon ==
  /\ op # LockFree /\ faults < MaxFaults
  /\ faults' = faults + 1
  /\ op' = LockFree
  /\ UNCHANGED <<store, file, outcome, scope, bound, rules, handEdits>>

-----------------------------------------------------------------------------
(* The host's turns and the user's hand. *)

\* _update_block_rules: one rule for each line that names what to block.  A text that
\* was changed by hand may name something or not.
RuleSets == {r \in SUBSET Notes : \A n \in Notes :
               /\ store[n] = "absent" => n \notin r
               /\ store[n] = "own" => (n \in r <=> n \in Blocking)}

\* A plausible bug: an empty store is no reason to touch the rules.
TurnKeeping ==
  /\ file # "missing" /\ \E n \in Notes : store[n] # "absent"
  /\ rules' \in (IF Legible THEN RuleSets ELSE {{}})
  /\ UNCHANGED <<store, file, outcome, scope, bound, op, handEdits, faults>>

\* _on_pre_llm_call: without a file the rules stay what they are.
Turn ==
  /\ file # "missing"
  /\ rules' \in (IF Legible THEN RuleSets ELSE {{}})
  /\ UNCHANGED <<store, file, outcome, scope, bound, op, handEdits, faults>>

ByHand(n, state) ==
  /\ handEdits < MaxHandEdits
  /\ file = "readable" /\ store[n] = "own"
  /\ store' = [store EXCEPT ![n] = state]
  /\ handEdits' = handEdits + 1
  /\ UNCHANGED <<file, outcome, scope, bound, op, rules, faults>>

BreakNotes ==
  /\ handEdits < MaxHandEdits /\ file = "readable"
  /\ file' = "broken"
  /\ handEdits' = handEdits + 1
  /\ UNCHANGED <<store, outcome, scope, bound, op, rules, faults>>

RepairNotes ==
  /\ file = "broken" /\ file' = "readable"
  /\ UNCHANGED <<store, outcome, scope, bound, op, rules, handEdits, faults>>

\* The user deletes the file.
EraseNotes ==
  /\ handEdits < MaxHandEdits /\ file # "missing"
  /\ store' = [n \in Notes |-> "absent"] /\ file' = "missing"
  /\ handEdits' = handEdits + 1
  /\ UNCHANGED <<outcome, scope, bound, op, rules, faults>>

-----------------------------------------------------------------------------
NoteStep == \/ AddNote \/ ConfirmNote \/ Sweep \/ ReadBack \/ EndCleanup \/ RemoveNote
            \/ Certify \/ \E n \in Notes : MarkNote(n) \/ ResolveNote(n)
SettleNote(n) == SettlePrepared(n) \/ SettleUndo(n) \/ SettleCleanup(n)
EditByHand == \/ BreakNotes \/ RepairNotes \/ EraseNotes
              \/ \E n \in Notes : ByHand(n, "changed") \/ ByHand(n, "absent")

NotesNext ==
  \/ NoteStep \/ Turn \/ RemoveFails \/ Abandon \/ EditByHand
  \/ \E n \in Notes : Intend(n) \/ StartUndo(n) \/ SettleNote(n) \/ \E s \in Scopes : Bind(n, s)
  \/ \E s \in NoteSessions : EndSession(s)

\* A holder of the lock goes on, sessions keep taking turns and running passes, and
\* the user repairs a file that is broken.
NotesFairness ==
  /\ WF_notesVars(NoteStep) /\ WF_notesVars(Turn) /\ WF_notesVars(RepairNotes)
  /\ \A n \in Notes : WF_notesVars(Intend(n)) /\ SF_notesVars(SettleNote(n))

NotesSpec == NotesInit /\ [][NotesNext]_notesVars /\ NotesFairness

-----------------------------------------------------------------------------
NotesTypeOK ==
  /\ store \in [Notes -> NoteStates]
  /\ file \in {"missing", "readable", "broken"}
  /\ outcome \in [Notes -> NoteOutcomes]
  /\ scope \in [Notes -> Scopes]
  /\ bound \subseteq Notes /\ rules \subseteq Notes
  /\ handEdits \in 0..MaxHandEdits /\ faults \in 0..MaxFaults

\* A record that says its note is gone is right: the note was seen to be gone after
\* it was taken out, whatever died or failed on the way.
GoneIsGone ==
  \A n \in Notes : outcome[n] \in {"cleanup_resolved", "rolled_back"} => store[n] = "absent"

\* Refine takes a note out of the file only if it looked the way refine wrote it when
\* the operation that holds the lock read the file.
OnlyOwnRemoved ==
  [][\A n \in Notes :
       store[n] # "absent" /\ store'[n] = "absent" /\ UNCHANGED handEdits
         => op.view[n] = "own"]_notesVars

\* The next passes complete a cleanup or a rollback that a death interrupted, unless
\* the note was changed by hand: again and again none is open.
NoteIntentsEnd ==
  []<>(\A n \in Notes : outcome[n] \in {"cleanup_prepared", "rollback_prepared"}
                          => store[n] = "changed")

\* A note that left the file stops refusing calls, as long as there is a file: again and
\* again the rules are those of notes in the file.
RulesLapse ==
  []<>(\A n \in rules : store[n] # "absent" \/ file = "missing")
=============================================================================
