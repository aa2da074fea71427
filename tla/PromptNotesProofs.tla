--------------------------- MODULE PromptNotesProofs ---------------------------
(***************************************************************************)
(* What refine says of its notes is right, and it takes only its own notes  *)
(* out of the file, for any number of notes, sessions, deaths and edits by  *)
(* hand.  The argument is about the view the holder of the lock works from: *)
(* the user's hand may make it stale, but only by taking notes away or       *)
(* changing them, and refine brings none back that a record calls gone.     *)
(***************************************************************************)
EXTENDS PromptNotes, TLAPS

Views == [Notes -> NoteStates]
Adding == [at : {"adding", "added"}, note : Notes]
Cleaning == [at : {"marking", "reading", "resolving"}, session : NoteSessions, view : Views]
Removing == [at : {"removing", "removed"}, note : Notes, view : Views]

Looking == {"marking", "reading", "resolving", "removing", "removed"}
Gone == {"cleanup_resolved", "rolled_back"}

OpTypes == op \in {LockFree} \cup Adding \cup Cleaning \cup Removing

\* A note that waits for its pass has no record, the others under the lock have one.
FreshNotes ==
  /\ \A n \in bound : outcome[n] = "none"
  /\ op.at \in {"adding", "added"} => outcome[op.note] = "prepared"
  /\ op.at \in {"removing", "removed"} => outcome[op.note] # "none"

\* The view of the lock holder: what it misses is missing, and so is what a record calls gone.
ViewIsRight ==
  op.at \in Looking =>
    \A n \in Notes : /\ op.view[n] = "absent" => store[n] = "absent"
                     /\ outcome[n] \in Gone => op.view[n] = "absent"

\* A single note is removed only if the holder saw its own text.
RemovesOwn == op.at = "removing" => op.view[op.note] = "own"

NotesInv ==
  NotesTypeOK /\ OpTypes /\ FreshNotes /\ GoneIsGone /\ ViewIsRight /\ RemovesOwn

-----------------------------------------------------------------------------
\* What the lock holder is, by what it does.
LEMMA OpShape ==
  ASSUME OpTypes
  PROVE  /\ op.at = "free" <=> op = LockFree
         /\ op.at \in {"adding", "added"} <=> op \in Adding
         /\ op.at \in {"marking", "reading", "resolving"} <=> op \in Cleaning
         /\ op.at \in {"removing", "removed"} <=> op \in Removing
  <1>1. LockFree.at = "free"
    BY DEF LockFree
  <1>2. /\ \A o \in Adding : o.at \in {"adding", "added"}
        /\ \A o \in Cleaning : o.at \in {"marking", "reading", "resolving"}
        /\ \A o \in Removing : o.at \in {"removing", "removed"}
    BY DEF Adding, Cleaning, Removing
  <1> QED BY <1>1, <1>2 DEF OpTypes

\* The holder goes on with what it has, a step further.
LEMMA NextOp ==
  /\ \A o \in Adding : LET p == [o EXCEPT !.at = "added"]
                       IN p \in Adding /\ p.at = "added" /\ p.note = o.note
  /\ \A o \in Cleaning : LET p == [o EXCEPT !.at = "reading"]
                         IN p \in Cleaning /\ p.at = "reading" /\ p.view = o.view
  /\ \A o \in Removing : LET p == [o EXCEPT !.at = "removed"]
                         IN p \in Removing /\ p.at = "removed" /\ p.view = o.view
                            /\ p.note = o.note
  BY DEF Adding, Cleaning, Removing

LEMMA InitiallyNotesInv == NotesInit => NotesInv
  <1> SUFFICES ASSUME NotesInit PROVE NotesInv
    OBVIOUS
  <1>1. NotesTypeOK
    BY NotesAssumption
    DEF NotesInit, NotesTypeOK, NoteStates, NoteOutcomes, Scopes
  <1>2. op = LockFree /\ op.at = "free" /\ OpTypes
    BY DEF NotesInit, LockFree, OpTypes
  <1>3. FreshNotes /\ GoneIsGone /\ ViewIsRight /\ RemovesOwn
    BY <1>2 DEF NotesInit, FreshNotes, GoneIsGone, ViewIsRight, RemovesOwn, Looking
  <1> QED BY <1>1, <1>2, <1>3 DEF NotesInv

-----------------------------------------------------------------------------
(* Steps that change neither a note nor a record, or free the lock. *)

LEMMA QuietStepKeeps ==
  ASSUME NotesInv, UNCHANGED <<store, outcome>>, op' \in {op, LockFree}, bound' = bound,
         NotesTypeOK'
  PROVE  NotesInv'
  <1>1. OpTypes'
    BY DEF NotesInv, OpTypes
  <1>2. op' # op => op'.at = "free"
    BY DEF LockFree
  <1>3. (FreshNotes /\ GoneIsGone /\ ViewIsRight /\ RemovesOwn)'
    BY <1>2 DEF NotesInv, FreshNotes, GoneIsGone, ViewIsRight, RemovesOwn, Looking
  <1> QED BY <1>1, <1>3 DEF NotesInv

LEMMA TurnKeeps ==
  ASSUME NotesInv, Turn \/ BreakNotes \/ RepairNotes \/ Abandon \/ EndCleanup
  PROVE  NotesInv'
  <1>1. NotesTypeOK'
    BY NotesAssumption
    DEF NotesInv, NotesTypeOK, Turn, BreakNotes, RepairNotes, Abandon, EndCleanup, RuleSets
  <1>2. UNCHANGED <<store, outcome>> /\ op' \in {op, LockFree} /\ bound' = bound
    BY DEF Turn, BreakNotes, RepairNotes, Abandon, EndCleanup
  <1> QED BY <1>1, <1>2, QuietStepKeeps

LEMMA BindKeeps ==
  ASSUME NotesInv, NEW n \in Notes, NEW s \in Scopes, Bind(n, s)
  PROVE  NotesInv'
  BY DEF Bind, NotesInv, NotesTypeOK, OpTypes, FreshNotes, GoneIsGone, ViewIsRight, RemovesOwn

\* The user's hand changes a note or takes it away.
LEMMA HandKeeps ==
  ASSUME NotesInv, EraseNotes \/ \E n \in Notes : ByHand(n, "changed") \/ ByHand(n, "absent")
  PROVE  NotesInv'
  <1>1. UNCHANGED <<outcome, bound, op>>
    BY DEF EraseNotes, ByHand
  <1>2. store' \in [Notes -> NoteStates]
        /\ \A n \in Notes : store[n] = "absent" => store'[n] = "absent"
    BY DEF NotesInv, NotesTypeOK, EraseNotes, ByHand, NoteStates
  <1>3. NotesTypeOK'
    BY <1>1, <1>2, NotesAssumption DEF NotesInv, NotesTypeOK, EraseNotes, ByHand
  <1>4. (OpTypes /\ FreshNotes /\ GoneIsGone /\ ViewIsRight /\ RemovesOwn)'
    BY <1>1, <1>2 DEF NotesInv, OpTypes, FreshNotes, GoneIsGone, ViewIsRight, RemovesOwn
  <1> QED BY <1>3, <1>4 DEF NotesInv

-----------------------------------------------------------------------------
(* A note is added. *)

LEMMA IntendKeeps ==
  ASSUME NotesInv, NEW n \in Notes, Intend(n)
  PROVE  NotesInv'
  <1>1. CASE UNCHANGED <<outcome, op>>
    BY <1>1 DEF Intend, NotesInv, NotesTypeOK, OpTypes, FreshNotes, GoneIsGone, ViewIsRight,
                RemovesOwn
  <1>2. CASE /\ outcome' = [outcome EXCEPT ![n] = "prepared"]
             /\ op' = [at |-> "adding", note |-> n]
    <2>1. NotesTypeOK' /\ UNCHANGED store /\ bound' = bound \ {n}
      BY <1>2 DEF Intend, NotesInv, NotesTypeOK, NoteOutcomes
    <2>2. op' \in Adding /\ op'.at = "adding" /\ op'.note = n
      BY <1>2 DEF Adding
    <2>3. (OpTypes /\ FreshNotes /\ GoneIsGone)'
      BY <1>2, <2>1, <2>2
      DEF NotesInv, NotesTypeOK, OpTypes, FreshNotes, GoneIsGone
    <2>4. (ViewIsRight /\ RemovesOwn)'
      BY <2>2 DEF ViewIsRight, RemovesOwn, Looking
    <2> QED BY <2>1, <2>2, <2>3, <2>4 DEF NotesInv
  <1> QED BY <1>1, <1>2 DEF Intend, NoteRecord

\* A record of the lock holder's note changes, and the lock is free.
LEMMA SettledKeeps ==
  ASSUME NotesInv, NEW n \in Notes, NEW o \in NoteOutcomes \ {"none"},
         outcome' = [outcome EXCEPT ![n] = o],
         o \in Gone => store[n] = "absent",
         n \notin bound, op' = LockFree, UNCHANGED <<store, bound>>, NotesTypeOK'
  PROVE  NotesInv'
  <1>1. op'.at = "free" /\ OpTypes'
    BY DEF LockFree, OpTypes
  <1>2. (FreshNotes /\ GoneIsGone)'
    BY <1>1 DEF NotesInv, NotesTypeOK, FreshNotes, GoneIsGone, Gone
  <1>3. (ViewIsRight /\ RemovesOwn)'
    BY <1>1 DEF ViewIsRight, RemovesOwn, Looking
  <1> QED BY <1>1, <1>2, <1>3 DEF NotesInv

LEMMA AddNoteKeeps ==
  ASSUME NotesInv, AddNote
  PROVE  NotesInv'
  <1>1. op \in Adding /\ op.note \in Notes /\ outcome[op.note] = "prepared" /\ op.note \notin bound
    BY OpShape DEF AddNote, NotesInv, FreshNotes, Adding
  <1>2. CASE Legible
    <2>1. /\ store' = [n \in Notes |-> [store EXCEPT ![op.note] = "own"][n]]
          /\ file' = "readable" /\ op' = [op EXCEPT !.at = "added"]
          /\ UNCHANGED <<outcome, scope, bound, rules, handEdits, faults>>
      BY <1>2 DEF AddNote, RewriteNotes
    <2>2. op' \in Adding /\ op'.at = "added" /\ op'.note = op.note
      BY <1>1, <2>1, NextOp
    <2>3. store' \in [Notes -> NoteStates]
          /\ \A n \in Notes \ {op.note} : store'[n] = store[n]
      BY <1>1, <2>1 DEF NotesInv, NotesTypeOK, NoteStates
    <2>4. NotesTypeOK' /\ OpTypes'
      BY <2>1, <2>2, <2>3 DEF NotesInv, NotesTypeOK, OpTypes
    <2>5. (FreshNotes /\ GoneIsGone)'
      BY <1>1, <2>1, <2>2, <2>3 DEF NotesInv, FreshNotes, GoneIsGone
    <2>6. (ViewIsRight /\ RemovesOwn)'
      BY <2>2 DEF ViewIsRight, RemovesOwn, Looking
    <2> QED BY <2>4, <2>5, <2>6 DEF NotesInv
  <1>3. CASE ~Legible
    <2>1. NotesTypeOK'
      BY <1>1, <1>3 DEF AddNote, NoteRecord, NotesInv, NotesTypeOK, NoteOutcomes
    <2> QED BY <1>1, <1>3, <2>1, SettledKeeps DEF AddNote, NoteRecord, NoteOutcomes, Gone
  <1> QED BY <1>2, <1>3

LEMMA ConfirmNoteKeeps ==
  ASSUME NotesInv, ConfirmNote
  PROVE  NotesInv'
  <1>1. op.note \in Notes /\ outcome[op.note] = "prepared" /\ op.note \notin bound
    BY OpShape DEF ConfirmNote, NotesInv, FreshNotes, Adding
  <1>2. \E o \in {"applied", "error"} : outcome' = [outcome EXCEPT ![op.note] = o]
    BY DEF ConfirmNote, NoteRecord
  <1>3. NotesTypeOK'
    BY <1>1, <1>2 DEF ConfirmNote, NotesInv, NotesTypeOK, NoteOutcomes
  <1> QED BY <1>1, <1>2, <1>3, SettledKeeps DEF ConfirmNote, NoteOutcomes, Gone

-----------------------------------------------------------------------------
(* A session's cleanup. *)

LEMMA EndSessionKeeps ==
  ASSUME NotesInv, NEW s \in NoteSessions, EndSession(s)
  PROVE  NotesInv'
  <1>1. NotesTypeOK' /\ UNCHANGED <<store, outcome, bound>>
    BY DEF EndSession, NotesInv, NotesTypeOK
  <1>2. CASE op' = op
    BY <1>1, <1>2, QuietStepKeeps
  <1>3. CASE op' = [at |-> "marking", session |-> s, view |-> store]
    <2>1. op' \in Cleaning /\ op'.at = "marking" /\ op'.view = store
      BY <1>3 DEF NotesInv, NotesTypeOK, Cleaning, Views
    <2>2. (OpTypes /\ FreshNotes /\ GoneIsGone /\ ViewIsRight /\ RemovesOwn)'
      BY <1>1, <2>1
      DEF NotesInv, OpTypes, FreshNotes, GoneIsGone, ViewIsRight, RemovesOwn, Gone
    <2> QED BY <1>1, <2>2 DEF NotesInv
  <1> QED BY <1>2, <1>3 DEF EndSession

LEMMA MarkNoteKeeps ==
  ASSUME NotesInv, NEW n \in Notes, MarkNote(n)
  PROVE  NotesInv'
  <1>1. /\ outcome' = [outcome EXCEPT ![n] = "cleanup_prepared"]
        /\ op.at = "marking" /\ outcome[n] \in {"prepared", "applied"}
        /\ UNCHANGED <<store, bound, op>>
    BY DEF MarkNote, NoteRecord
  <1>2. NotesTypeOK'
    BY <1>1 DEF MarkNote, NotesInv, NotesTypeOK, NoteOutcomes
  <1>3. (OpTypes /\ FreshNotes /\ GoneIsGone /\ ViewIsRight /\ RemovesOwn)'
    BY <1>1
    DEF NotesInv, NotesTypeOK, OpTypes, FreshNotes, GoneIsGone, ViewIsRight, RemovesOwn, Gone
  <1> QED BY <1>2, <1>3 DEF NotesInv

\* The file is rewritten from the view of the lock holder.
LEMMA RewriteKeeps ==
  ASSUME NotesInv, NEW gone \in SUBSET Notes, op.at \in {"marking", "removing"},
         RewriteNotes(op.view, gone) \/ UNCHANGED <<store, file>>,
         op' \in Cleaning \cup Removing, op'.at \in {"reading", "removed"}, op'.view = op.view,
         op'.at = "removed" => op.at = "removing" /\ op'.note = op.note,
         UNCHANGED <<outcome, scope, bound, rules, handEdits, faults>>
  PROVE  NotesInv'
  <1>1. op.view \in [Notes -> NoteStates]
    BY OpShape DEF NotesInv, Cleaning, Removing, Views
  <1>2. store' \in [Notes -> NoteStates]
        /\ \A n \in Notes : op.view[n] = "absent" => store'[n] = "absent"
    BY <1>1 DEF RewriteNotes, NotesInv, NotesTypeOK, NoteStates, ViewIsRight, Looking
  <1>3. NotesTypeOK'
    BY <1>2 DEF NotesInv, NotesTypeOK, RewriteNotes
  <1>4. OpTypes' /\ FreshNotes' /\ RemovesOwn'
    BY DEF NotesInv, OpTypes, FreshNotes, RemovesOwn
  <1>5. ViewIsRight'
    BY <1>2 DEF NotesInv, ViewIsRight, Looking
  <1>6. GoneIsGone'
    BY <1>2 DEF NotesInv, ViewIsRight, Looking, GoneIsGone, Gone
  <1> QED BY <1>3, <1>4, <1>5, <1>6 DEF NotesInv

LEMMA SweepKeeps ==
  ASSUME NotesInv, Sweep
  PROVE  NotesInv'
  <1>1. op \in Cleaning /\ Owned(op.session, op.view) \in SUBSET Notes
    BY OpShape DEF Sweep, NotesInv, Owned
  <1>2. op' \in Cleaning /\ op'.at = "reading" /\ op'.view = op.view
    BY <1>1, NextOp DEF Sweep
  <1> QED BY <1>1, <1>2, RewriteKeeps DEF Sweep

LEMMA ReadBackKeeps ==
  ASSUME NotesInv, ReadBack
  PROVE  NotesInv'
  <1>1. NotesTypeOK' /\ UNCHANGED <<store, outcome, bound>>
    BY DEF ReadBack, NotesInv, NotesTypeOK
  <1>2. CASE op' = LockFree
    BY <1>1, <1>2, QuietStepKeeps
  <1>3. CASE op' = [op EXCEPT !.at = "resolving", !.view = store]
    <2>1. op \in Cleaning /\ store \in Views
      BY OpShape DEF ReadBack, NotesInv, NotesTypeOK, Views
    <2>2. op' \in Cleaning /\ op'.at = "resolving" /\ op'.view = store
      BY <1>3, <2>1 DEF Cleaning
    <2>3. (OpTypes /\ FreshNotes /\ GoneIsGone /\ ViewIsRight /\ RemovesOwn)'
      BY <1>1, <2>2
      DEF NotesInv, OpTypes, FreshNotes, GoneIsGone, ViewIsRight, RemovesOwn, Gone
    <2> QED BY <1>1, <2>3 DEF NotesInv
  <1> QED BY <1>2, <1>3 DEF ReadBack

LEMMA ResolveNoteKeeps ==
  ASSUME NotesInv, NEW n \in Notes, ResolveNote(n)
  PROVE  NotesInv'
  <1>1. /\ outcome' = [outcome EXCEPT ![n] = Resolved(n)] /\ Resolved(n) \in Gone
        /\ op.at = "resolving" /\ op.view[n] = "absent"
        /\ outcome[n] \in {"cleanup_prepared", "rollback_prepared"}
        /\ UNCHANGED <<store, bound, op>>
    BY DEF ResolveNote, NoteRecord, Resolved, Gone, Intents
  <1>2. NotesTypeOK'
    BY <1>1 DEF ResolveNote, NotesInv, NotesTypeOK, NoteOutcomes, Gone
  <1>3. store[n] = "absent"
    BY <1>1 DEF NotesInv, ViewIsRight, Looking
  <1>4. (OpTypes /\ FreshNotes /\ GoneIsGone /\ ViewIsRight /\ RemovesOwn)'
    BY <1>1, <1>3
    DEF NotesInv, NotesTypeOK, OpTypes, FreshNotes, GoneIsGone, ViewIsRight, RemovesOwn
  <1> QED BY <1>2, <1>4 DEF NotesInv

-----------------------------------------------------------------------------
(* Rollbacks and interrupted intents. *)

\* An operation on one note starts with what is in the file.
LEMMA StartRemovingKeeps ==
  ASSUME NotesInv, NEW n \in Notes, store[n] = "own", outcome[n] # "none",
         op' = [at |-> "removing", note |-> n, view |-> store],
         \/ UNCHANGED outcome
         \/ outcome' = [outcome EXCEPT ![n] = "rollback_prepared"],
         UNCHANGED <<store, file, scope, bound, rules, handEdits, faults>>
  PROVE  NotesInv'
  <1>1. op' \in Removing /\ op'.at = "removing" /\ op'.note = n /\ op'.view = store
    BY DEF NotesInv, NotesTypeOK, Removing, Views
  <1>2. NotesTypeOK'
    BY DEF NotesInv, NotesTypeOK, NoteOutcomes
  <1>3. (OpTypes /\ FreshNotes /\ GoneIsGone /\ ViewIsRight /\ RemovesOwn)'
    BY <1>1
    DEF NotesInv, NotesTypeOK, OpTypes, FreshNotes, GoneIsGone, ViewIsRight, RemovesOwn, Gone
  <1> QED BY <1>2, <1>3 DEF NotesInv

LEMMA StartUndoKeeps ==
  ASSUME NotesInv, NEW n \in Notes, StartUndo(n)
  PROVE  NotesInv'
  BY StartRemovingKeeps DEF StartUndo, NoteRecord

\* The record of a note whose lock nobody holds changes.
LEMMA SettleNoteKeeps ==
  ASSUME NotesInv, NEW n \in Notes, SettleNote(n)
  PROVE  NotesInv'
  <1>1. outcome[n] # "none" /\ n \notin bound
    BY DEF SettleNote, SettlePrepared, SettleUndo, SettleCleanup, NotesInv, FreshNotes
  <1>2. CASE op' = [at |-> "removing", note |-> n, view |-> store]
    <2>1. op'.at = "removing" /\ op' # LockFree
      BY <1>2 DEF LockFree
    <2> QED BY <1>1, <1>2, <2>1, StartRemovingKeeps
            DEF SettleNote, SettlePrepared, SettleUndo, SettleCleanup
  <1>3. ASSUME NEW o \in {"applied", "rolled_back", "cleanup_resolved"},
               outcome' = [outcome EXCEPT ![n] = o], op' = op,
               o \in Gone => store[n] = "absent"
        PROVE  NotesInv'
    <2>1. op' = LockFree /\ UNCHANGED <<store, file, scope, bound, rules, handEdits, faults>>
      BY <1>3 DEF SettleNote, SettlePrepared, SettleUndo, SettleCleanup
    <2>2. NotesTypeOK'
      BY <1>3, <2>1 DEF NotesInv, NotesTypeOK, NoteOutcomes
    <2> QED BY <1>1, <1>3, <2>1, <2>2, SettledKeeps DEF NoteOutcomes
  <1> QED
    BY <1>2, <1>3
    DEF SettleNote, SettlePrepared, SettleUndo, SettleCleanup, NoteRecord, Gone

LEMMA RemoveNoteKeeps ==
  ASSUME NotesInv, RemoveNote
  PROVE  NotesInv'
  <1>1. op \in Removing /\ {op.note} \in SUBSET Notes
    BY OpShape DEF RemoveNote, NotesInv, Removing
  <1>2. op' \in Removing /\ op'.at = "removed" /\ op'.view = op.view /\ op'.note = op.note
    BY <1>1, NextOp DEF RemoveNote
  <1> QED BY <1>1, <1>2, RewriteKeeps DEF RemoveNote

\* Certified, taken back, or left for the next pass.
LEMMA EndRemovalKeeps ==
  ASSUME NotesInv, Certify \/ RemoveFails
  PROVE  NotesInv'
  <1>1. op.note \in Notes /\ op.note \notin bound /\ op' = LockFree
        /\ UNCHANGED <<store, file, scope, bound, rules, handEdits>>
    BY OpShape DEF Certify, RemoveFails, NotesInv, Removing, FreshNotes
  <1>2. faults' \in 0..MaxFaults
    BY NotesAssumption DEF Certify, RemoveFails, NotesInv, NotesTypeOK
  <1>3. CASE UNCHANGED outcome
    <2>1. NotesTypeOK'
      BY <1>1, <1>2, <1>3 DEF NotesInv, NotesTypeOK
    <2> QED BY <1>1, <1>3, <2>1, QuietStepKeeps
  <1>4. ASSUME NEW o \in {"applied", "rolled_back", "cleanup_resolved"},
               outcome' = [outcome EXCEPT ![op.note] = o],
               o \in Gone => store[op.note] = "absent"
        PROVE  NotesInv'
    <2>1. NotesTypeOK'
      BY <1>1, <1>2, <1>4 DEF NotesInv, NotesTypeOK, NoteOutcomes
    <2> QED BY <1>1, <1>4, <2>1, SettledKeeps DEF NoteOutcomes
  <1> QED BY <1>3, <1>4 DEF Certify, RemoveFails, NoteRecord, Resolved, Gone

-----------------------------------------------------------------------------
LEMMA NextKeepsNotesInv == NotesInv /\ [NotesNext]_notesVars => NotesInv'
  <1> SUFFICES ASSUME NotesInv, [NotesNext]_notesVars PROVE NotesInv'
    OBVIOUS
  <1>1. CASE UNCHANGED notesVars
    BY <1>1 DEF notesVars, NotesInv, NotesTypeOK, OpTypes, FreshNotes, GoneIsGone, ViewIsRight,
                RemovesOwn
  <1>2. CASE NoteStep
    BY <1>2, AddNoteKeeps, ConfirmNoteKeeps, SweepKeeps, ReadBackKeeps, TurnKeeps,
       RemoveNoteKeeps, EndRemovalKeeps, MarkNoteKeeps, ResolveNoteKeeps
    DEF NoteStep
  <1>3. CASE EditByHand
    BY <1>3, TurnKeeps, HandKeeps DEF EditByHand
  <1> QED
    BY <1>1, <1>2, <1>3, TurnKeeps, EndRemovalKeeps, IntendKeeps, StartUndoKeeps,
       SettleNoteKeeps, BindKeeps, EndSessionKeeps
    DEF NotesNext

LEMMA NotesInvHolds == NotesSpec => []NotesInv
  BY InitiallyNotesInv, NextKeepsNotesInv, PTL DEF NotesSpec

\* A record that says its note is gone is right, for any number of notes, deaths and edits by
\* hand (clear_session_prompt_notes, rollback_prompt_note, reconcile).
THEOREM RecordsAreRight == NotesSpec => []GoneIsGone
  BY NotesInvHolds, PTL DEF NotesInv

\* A step that takes a note away is the user's, or removes what its holder saw as its own.
LEMMA StepRemovesOwn ==
  ASSUME NotesInv, [NotesNext]_notesVars, NEW n \in Notes,
         store[n] # "absent", store'[n] = "absent", UNCHANGED handEdits
  PROVE  op.view[n] = "own"
  <1>1. ~EditByHand \/ UNCHANGED store
    BY DEF EditByHand, BreakNotes, RepairNotes, EraseNotes, ByHand, NotesInv, NotesTypeOK
  <1>2. CASE Sweep
    <2>1. op.at = "marking" /\ op.view \in [Notes -> NoteStates]
      BY <1>2, OpShape DEF Sweep, NotesInv, Cleaning, Views
    <2>2. op.view[n] # "absent"
      BY <2>1 DEF NotesInv, ViewIsRight, Looking
    <2> QED BY <1>2, <2>1, <2>2 DEF Sweep, RewriteNotes, Owned
  <1>3. CASE RemoveNote
    <2>1. op.at = "removing" /\ op.view \in [Notes -> NoteStates]
      BY <1>3, OpShape DEF RemoveNote, NotesInv, Removing, Views
    <2>2. op.view[n] # "absent" /\ op.view[op.note] = "own"
      BY <2>1 DEF NotesInv, ViewIsRight, Looking, RemovesOwn
    <2> QED BY <1>3, <2>1, <2>2 DEF RemoveNote, RewriteNotes
  <1>4. CASE AddNote
    BY <1>4, OpShape DEF AddNote, RewriteNotes, NotesInv, NotesTypeOK, Adding
  <1>5. CASE UNCHANGED store
    BY <1>5
  <1>6. (NoteStep => AddNote \/ Sweep \/ RemoveNote \/ UNCHANGED store)
    BY DEF NoteStep, ConfirmNote, ReadBack, EndCleanup, Certify, MarkNote, ResolveNote
  <1> QED
    BY <1>1, <1>2, <1>3, <1>4, <1>5, <1>6
    DEF NotesNext, notesVars, Turn, RemoveFails, Abandon, Intend, StartUndo, SettleNote,
        SettlePrepared, SettleUndo, SettleCleanup, Bind, EndSession

\* Refine takes a note out of the file only if it looked the way refine wrote it when the
\* operation that holds the lock read the file (clear_session_prompt_notes,
\* rollback_prompt_note).
THEOREM OnlyOwnAreRemoved == NotesSpec => OnlyOwnRemoved
  <1>1. NotesInv /\ [NotesNext]_notesVars =>
          [\A n \in Notes :
             store[n] # "absent" /\ store'[n] = "absent" /\ UNCHANGED handEdits
               => op.view[n] = "own"]_notesVars
    BY StepRemovesOwn
  <1> QED BY <1>1, NotesInvHolds, PTL DEF NotesSpec, OnlyOwnRemoved

\* Every variable of the prompt notes keeps its type.
THEOREM NotesTypesHold == NotesSpec => []NotesTypeOK
  <1>1. NotesInv => NotesTypeOK
    BY DEF NotesInv
  <1> QED BY InitiallyNotesInv, NextKeepsNotesInv, <1>1, PTL DEF NotesSpec
=============================================================================
