---------------------------- MODULE EditLifecycle ----------------------------
(***************************************************************************)
(* One refine edit from its plan to its rollback (core._apply_edit,        *)
(* journal.reconcile, journal.rollback_skill, journal.rollback_memory).    *)
(*                                                                         *)
(* Passes of several processes share the journal, which only a holder of   *)
(* the mutation lock writes (module MutationLock), and the host's skill    *)
(* files and memory store, which the user and the host also write.  The    *)
(* host may queue a write for the user's approval instead of doing it.  A  *)
(* pass can die between any two of its steps; what it left in the journal  *)
(* is settled by the next pass that takes the lock.                        *)
(*                                                                         *)
(* A pass's step is one access to state that somebody outside the lock     *)
(* changes: the live target, the approval queue, the clock.  Texts and     *)
(* digests are compared only for equality, so a text is a model value.     *)
(***************************************************************************)
EXTENDS Integers, FiniteSets, SequencesExt

CONSTANTS
  Actors,         \* processes that run refine passes and rollbacks
  Entries,        \* journal ids
  Skills,         \* skill names
  SkillTexts,     \* bodies a proposal may give a skill
  Lessons,        \* texts a proposal may add to memory
  UserTexts,      \* texts the user and other sessions write
  Days,           \* days of the run
  MaxPerDay,      \* max_edits_per_day
  DedupDays,      \* dedup_window_days
  MaxMemory,      \* bound on the length of the memory store
  UserRewrites,   \* others also rewrite and remove memory entries, not only append
  MaxUserEdits,   \* bound on writes refine did not make
  MaxCrashes,     \* bound on deaths of passes
  HostStages,     \* the host has an approval queue (tools.write_approval)
  ReadsFail,      \* reads of a target may fail for a while
  JournalFails,   \* an append to the journal may fail
  User,           \* who wrote a text that no edit wrote
  Absent,         \* there is no such skill
  NoEntry, NoEdit, NoActor

ASSUME NameAssumption ==
  /\ Absent \notin SkillTexts \cup UserTexts
  /\ User \notin Entries /\ NoEntry \notin Entries /\ NoActor \notin Actors
ASSUME BudgetAssumption ==
  /\ IsFiniteSet(Entries)
  /\ Days \subseteq Nat
  /\ MaxPerDay \in Nat
  /\ DedupDays \in Nat \ {0}
ASSUME SwitchAssumption ==
  /\ MaxMemory \in Nat /\ MaxUserEdits \in Nat /\ MaxCrashes \in Nat
  /\ UserRewrites \in BOOLEAN
  /\ HostStages \in BOOLEAN /\ ReadsFail \in BOOLEAN /\ JournalFails \in BOOLEAN

VARIABLES
  outcome,    \* journal: the state of each record
  edit,       \* journal: its proposal and its recovery data
  day,        \* journal: the day of its timestamp
  aged,       \* it has been in its present state for _ABANDONED_PREPARED_SECONDS
  today,
  skills,     \* host: each skill's text and who wrote it
  memory,     \* host: the memory entries in order
  queue,      \* host: writes waiting for approval
  lock,       \* the actor that holds the mutation lock
  pc,         \* where each actor is
  work,       \* the record it works on
  draft,      \* its proposal, with the baseline the plan was made from
  answer,     \* what the host answered
  userEdits, crashes

journalVars == <<outcome, edit, day, aged>>
hostVars == <<skills, memory, queue>>
actorVars == <<lock, pc, work, draft, answer>>
vars == <<journalVars, today, hostVars, actorVars, userEdits, crashes>>

\* "none": no record yet.
Outcomes == {"none", "prepared", "pending_approval", "applied", "rollback_prepared",
             "pending_rollback", "rolled_back", "rejected", "error", "conflict",
             "evidence_invalidated"}

\* _CONSUMED_EDIT_OUTCOMES: what counts against the daily budget.
Consuming == {"prepared", "pending_approval", "applied", "rollback_prepared",
              "pending_rollback"}

Locations == {"idle", "planning", "planned", "admitted", "checked", "prepared", "written",
              "choosing", "undoing", "undone"}

\* A skill edit replaces before with after (before is Absent for a create); a
\* memory edit appends after to a store that held the texts in before.
SkillEdits == [kind : {"skill"}, target : Skills,
               before : SkillTexts \cup UserTexts \cup {Absent}, after : SkillTexts]
MemoryEdits == [kind : {"memory"}, before : Seq(Lessons \cup UserTexts), after : Lessons]
Edits == SkillEdits \cup MemoryEdits

Init ==
  /\ outcome = [e \in Entries |-> "none"]
  /\ edit = [e \in Entries |-> NoEdit]
  /\ day = [e \in Entries |-> 0]
  /\ aged = [e \in Entries |-> FALSE]
  /\ today \in {d \in Days : \A c \in Days : d <= c}
  /\ skills \in [Skills -> {[text |-> t, by |-> User] : t \in UserTexts \cup {Absent}}]
  /\ memory \in {<<>>} \cup {<<[text |-> t, by |-> User]>> : t \in UserTexts}
  /\ queue = {}
  /\ lock = NoActor
  /\ pc = [a \in Actors |-> "idle"]
  /\ work = [a \in Actors |-> NoEntry]
  /\ draft = [a \in Actors |-> NoEdit]
  /\ answer = [a \in Actors |-> "none"]
  /\ userEdits = 0
  /\ crashes = 0

-----------------------------------------------------------------------------
(* What the target of an edit shows (target_matches_applied,               *)
(* rollback_target_matches).                                               *)

Texts(m) == [i \in 1..Len(m) |-> m[i].text]

\* The entries a memory edit's content may be at: from its planned position on, and
\* only if everything before that is as it was.
Positions(x) ==
  IF IsPrefix(x.before, Texts(memory))
  THEN {i \in (Len(x.before) + 1)..Len(memory) : memory[i].text = x.after}
  ELSE {}

Applied(x) == IF x.kind = "skill" THEN skills[x.target].text = x.after
                                  ELSE Positions(x) # {}

Undone(x) == IF x.kind = "skill" THEN skills[x.target].text = x.before
             ELSE IsPrefix(x.before, Texts(memory)) /\ Positions(x) = {}

\* A read of the target: what is there, or unknown.
Reads == IF ReadsFail THEN {TRUE, FALSE} ELSE {TRUE}

\* Who wrote what is there now.
Standing(e) == \/ \E s \in Skills : skills[s].by = e
               \/ \E i \in 1..Len(memory) : memory[i].by = e

-----------------------------------------------------------------------------
(* Journal appends. *)

\* finalize: one transition of one record, if the append succeeds.
Finalize(e, o) ==
  \/ /\ outcome' = [outcome EXCEPT ![e] = o]
     /\ aged' = [aged EXCEPT ![e] = FALSE]
  \/ JournalFails /\ UNCHANGED <<outcome, aged>>

\* Back to its caller, the lock free.
Done(a) ==
  /\ pc' = [pc EXCEPT ![a] = "idle"]
  /\ work' = [work EXCEPT ![a] = NoEntry]
  /\ draft' = [draft EXCEPT ![a] = NoEdit]
  /\ answer' = [answer EXCEPT ![a] = "none"]
  /\ lock' = IF lock = a THEN NoActor ELSE lock

Goto(a, l) == pc' = [pc EXCEPT ![a] = l]

Consumed(d) == {e \in Entries : outcome[e] \in Consuming /\ day[e] = d}

\* daily_limit_reached, fail-closed when the journal cannot be read.
BudgetLeft == Cardinality(Consumed(today)) < MaxPerDay
BudgetRefuses == ~BudgetLeft \/ JournalFails

-----------------------------------------------------------------------------
(* reconcile: what one record becomes when its target can be read.  A      *)
(* staging-capable host cannot prove that an interrupted request was never *)
(* queued, so there the intent stays (_interrupted_pending_id).            *)

\* A plausible bug: what is old, or no longer queued, is given up without a look.
ReconciledUnlooked(e) ==
  CASE outcome[e] = "prepared" /\ ~HostStages /\ aged[e] -> "error"
    [] outcome[e] = "pending_approval" /\ <<e, "write">> \notin queue -> "rejected"
    [] OTHER -> outcome[e]

\* A plausible bug: only an edit that is seen applied is ever settled.
ReconciledPatient(e) ==
  IF outcome[e] \in {"prepared", "pending_approval"} /\ <<e, "write">> \notin queue
       /\ Applied(edit[e])
  THEN "applied" ELSE outcome[e]

Reconciled(e) ==
  LET x == edit[e]
      o == outcome[e]
  IN CASE o = "prepared" /\ ~HostStages ->
            IF Applied(x) THEN "applied"
            ELSE IF Undone(x) /\ aged[e] THEN "error" ELSE o
       [] o = "pending_approval" /\ <<e, "write">> \notin queue ->
            IF Applied(x) THEN "applied" ELSE "rejected"
       [] o = "rollback_prepared" /\ ~(x.kind = "skill" /\ HostStages) ->
            IF Undone(x) THEN "rolled_back"
            ELSE IF aged[e] /\ Applied(x) THEN "applied" ELSE o
       [] o = "pending_rollback" /\ <<e, "undo">> \notin queue ->
            IF Undone(x) THEN "rolled_back" ELSE "applied"
       [] OTHER -> o

\* The loop over the journal; a record whose target cannot be read, or whose append
\* fails, is left for the next pass.
Reconcile ==
  \E known \in (IF ReadsFail \/ JournalFails THEN SUBSET Entries ELSE {Entries}) :
     /\ outcome' = [e \in Entries |-> IF e \in known THEN Reconciled(e) ELSE outcome[e]]
     /\ UNCHANGED <<edit, day, aged>>

-----------------------------------------------------------------------------
(* A pass (refine_run, _refine_once, _apply_edit). *)

\* refine_run takes the lock, reconciles, and lets the lock go.
StartPass(a) ==
  /\ pc[a] = "idle"
  /\ lock = NoActor
  /\ Reconcile
  /\ Goto(a, "planning")
  /\ UNCHANGED <<today, hostVars, lock, work, draft, answer, userEdits, crashes>>

\* What the model may propose; a skill patch remembers the content it was planned from.
Proposals == {x \in SkillEdits : x.before = skills[x.target].text}
               \cup [kind : {"memory"}, before : {<<>>}, after : Lessons]

\* Without the lock: the budget is looked at, and the model proposes an edit.
Propose(a) ==
  /\ pc[a] = "planning"
  /\ BudgetLeft
  /\ \E x \in Proposals : draft' = [draft EXCEPT ![a] = x]
  /\ Goto(a, "planned")
  /\ UNCHANGED <<journalVars, today, hostVars, lock, work, answer, userEdits, crashes>>

\* The unlocked gate is closed, the model proposes nothing, or the pass fails.
GiveUp(a) ==
  /\ pc[a] \in {"planning", "planned"}
  /\ Done(a)
  /\ UNCHANGED <<journalVars, today, hostVars, userEdits, crashes>>

\* The bound on the journal: a pass mutates only while an id is unused.
RoomLeft == \E e \in Entries : outcome[e] = "none"

\* A plausible bug: the gate before the model call is the only one.
AdmitUnchecked(a) ==
  /\ pc[a] = "planned"
  /\ lock = NoActor
  /\ RoomLeft
  /\ lock' = a
  /\ Goto(a, "admitted")
  /\ UNCHANGED <<journalVars, today, hostVars, work, draft, answer, userEdits, crashes>>

\* The lock is taken for the mutation and the budget is looked at again.
Admit(a) ==
  /\ pc[a] = "planned"
  /\ lock = NoActor
  /\ BudgetLeft
  /\ RoomLeft
  /\ lock' = a
  /\ Goto(a, "admitted")
  /\ UNCHANGED <<journalVars, today, hostVars, work, draft, answer, userEdits, crashes>>

BudgetRefused(a) ==
  /\ pc[a] = "planned"
  /\ lock = NoActor
  /\ BudgetRefuses
  /\ Done(a)
  /\ UNCHANGED <<journalVars, today, hostVars, userEdits, crashes>>

\* proposal_hash: the storage operation an edit performs.
Operation(x) ==
  IF x.kind = "skill" THEN <<"skill", x.target, x.before = Absent, x.after>>
                      ELSE <<"memory", x.after>>

InMemory(t) == \E i \in 1..Len(memory) : memory[i].text = t

\* A plausible bug: only edits in force are looked at.
RepeatsApplied(x, window) ==
  \E e \in Entries : /\ outcome[e] = "applied" /\ Operation(edit[e]) = Operation(x)
                     /\ today - day[e] <= window

\* was_applied_recently: an edit that counts, of a day the window reaches back to; an
\* applied lesson that somebody removed does not count.
RepeatsRecent(x, window) ==
  \E e \in Entries :
    /\ outcome[e] \in Consuming
    /\ today - day[e] <= window
    /\ Operation(edit[e]) = Operation(x)
    /\ ~(outcome[e] = "applied" /\ x.kind = "memory" /\ ~InMemory(x.after))

\* The window is counted in seconds: an edit DedupDays days old may be on either side.
Windows == {DedupDays - 1, DedupDays}

\* A plausible bug: the skill only has to exist still.
ConflictsIfGone(x) == /\ x.kind = "skill" /\ x.before # Absent
                      /\ skills[x.target].text = Absent

\* The live content is not the one the patch was planned from
\* (_skill_baseline_conflict: Check A before the backup, Check B on the backup).
Conflicts(x) == /\ x.kind = "skill" /\ x.before # Absent
                /\ skills[x.target].text # x.before

\* What _validate_proposal, Check A and _skill_patch_matches_baseline object.
Objection(x, window) ==
  IF \/ x.kind = "skill" /\ x.before = Absent /\ skills[x.target].text # Absent
     \/ x.kind = "memory" /\ InMemory(x.after)
     \/ RepeatsRecent(x, window) THEN "rejected"
  ELSE IF Conflicts(x) THEN "conflict"
  ELSE IF x.kind = "skill" /\ x.after = x.before THEN "rejected" ELSE "none"

\* What a refusal is recorded as: a check objects, the evidence was rewound, or the
\* target or the journal cannot be read.
CheckRefusals(x) ==
  (({Objection(x, w) : w \in Windows} \cup {"evidence_invalidated"}) \ {"none"})
    \cup (IF ReadsFail THEN {"rejected", "conflict"} ELSE {})
    \cup (IF JournalFails THEN {"rejected"} ELSE {})

CaptureRefusals(x) == (IF Conflicts(x) THEN {"conflict"} ELSE {})
                        \cup (IF ReadsFail THEN {"error"} ELSE {})

\* _journal_nonmutation, which swallows a failing append.
Refuse(a) ==
  /\ \/ \E e \in Entries :
          \E o \in CASE pc[a] = "admitted" -> CheckRefusals(draft[a])
                     [] pc[a] = "checked" -> CaptureRefusals(draft[a])
                     [] OTHER -> {} :
          /\ outcome[e] = "none"
          /\ outcome' = [outcome EXCEPT ![e] = o]
          /\ day' = [day EXCEPT ![e] = today]
          /\ UNCHANGED <<edit, aged>>
     \/ /\ JournalFails /\ pc[a] = "admitted"
        /\ UNCHANGED journalVars
  /\ Done(a)
  /\ UNCHANGED <<today, hostVars, userEdits, crashes>>

\* No check objects to the live target.
Check(a) ==
  /\ pc[a] = "admitted"
  /\ \E w \in Windows : Objection(draft[a], w) = "none"
  /\ Goto(a, "checked")
  /\ UNCHANGED <<journalVars, today, hostVars, lock, work, draft, answer, userEdits, crashes>>

\* The recovery data an edit is recorded with: a patch's backup, which Check B found
\* to be the content it was planned from; the store an append will follow.
Captured(x) == IF x.kind = "memory" THEN [x EXCEPT !.before = Texts(memory)] ELSE x

\* Read the target once more for the recovery data, and append the intent.
Prepare(a) ==
  /\ pc[a] = "checked"
  /\ ~Conflicts(draft[a])
  /\ \E e \in Entries :
       /\ outcome[e] = "none"
       /\ outcome' = [outcome EXCEPT ![e] = "prepared"]
       /\ edit' = [edit EXCEPT ![e] = Captured(draft[a])]
       /\ day' = [day EXCEPT ![e] = today]
       /\ aged' = [aged EXCEPT ![e] = FALSE]
       /\ work' = [work EXCEPT ![a] = e]
  /\ Goto(a, "prepared")
  /\ UNCHANGED <<today, hostVars, lock, draft, answer, userEdits, crashes>>

\* "Journal preparation failed; mutation aborted".
PrepareFails(a) ==
  /\ JournalFails
  /\ pc[a] = "checked"
  /\ Done(a)
  /\ UNCHANGED <<journalVars, today, hostVars, userEdits, crashes>>

\* What the host does with a write it performs.  A skill is created only where there
\* is none and edited only where there is one; memory takes no duplicate.
WriteTo(e) ==
  LET x == edit[e]
  IN IF x.kind = "skill"
     THEN /\ (x.before = Absent) = (skills[x.target].text = Absent)
          /\ skills' = [skills EXCEPT ![x.target] = [text |-> x.after, by |-> e]]
          /\ UNCHANGED memory
     ELSE /\ ~InMemory(x.after)
          /\ Len(memory) < MaxMemory
          /\ memory' = Append(memory, [text |-> x.after, by |-> e])
          /\ UNCHANGED skills

\* skill_manage(create or edit), memory_tool(add): done, queued for approval with an
\* id or without one, or refused.
HostWrite(a) ==
  LET e == work[a]
  IN /\ pc[a] = "prepared"
     /\ \/ /\ WriteTo(e)
           /\ answer' = [answer EXCEPT ![a] = "done"]
           /\ UNCHANGED queue
        \/ /\ HostStages
           /\ queue' = queue \cup {<<e, "write">>}
           /\ answer' \in {[answer EXCEPT ![a] = r] : r \in {"staged", "unnamed"}}
           /\ UNCHANGED <<skills, memory>>
        \/ /\ answer' = [answer EXCEPT ![a] = "refused"]
           /\ UNCHANGED hostVars
     /\ Goto(a, "written")
     /\ UNCHANGED <<journalVars, today, lock, work, draft, userEdits, crashes>>

\* What an edit is finalized as: a success counts only if the target shows it.
Verdict(a, known) ==
  CASE answer[a] = "staged" -> "pending_approval"
    [] answer[a] = "unnamed" -> "prepared"
    [] answer[a] = "done" /\ known /\ Applied(edit[work[a]]) -> "applied"
    [] OTHER -> "error"

\* Verify and finalize; a pass that made an edit may go on to propose another.
FinishEdit(a) ==
  /\ pc[a] = "written"
  /\ \E known \in Reads :
       LET o == Verdict(a, known)
       IN /\ IF o = "prepared" THEN UNCHANGED <<outcome, aged>>
                               ELSE Finalize(work[a], o)
          /\ \/ Done(a)
             \/ /\ o \in {"applied", "pending_approval"}
                /\ outcome' # outcome
                /\ Goto(a, "planning")
                /\ work' = [work EXCEPT ![a] = NoEntry]
                /\ draft' = [draft EXCEPT ![a] = NoEdit]
                /\ answer' = [answer EXCEPT ![a] = "none"]
                /\ lock' = NoActor
  /\ UNCHANGED <<edit, day, today, hostVars, userEdits, crashes>>

-----------------------------------------------------------------------------
(* A rollback (refine_rollback), the lock held from start to end. *)

StartRollback(a, e) ==
  /\ pc[a] = "idle"
  /\ lock = NoActor
  /\ outcome[e] # "none"
  /\ Reconcile
  /\ lock' = a
  /\ work' = [work EXCEPT ![a] = e]
  /\ Goto(a, "choosing")
  /\ UNCHANGED <<today, hostVars, draft, answer, userEdits, crashes>>

\* is_reversible and the conflict check hold: the intent is recorded.  For memory the
\* host's file lock is held from here to the write.
Intend(a) ==
  LET e == work[a]
  IN /\ pc[a] = "choosing"
     /\ outcome[e] = "applied"
     /\ Applied(edit[e])
     /\ outcome' = [outcome EXCEPT ![e] = "rollback_prepared"]
     /\ aged' = [aged EXCEPT ![e] = FALSE]
     /\ Goto(a, "undoing")
     /\ UNCHANGED <<edit, day, today, hostVars, lock, work, draft, answer, userEdits, crashes>>

\* Not applied, changed since, unreadable, or the intent cannot be recorded.
RollbackRefused(a) ==
  /\ pc[a] = "choosing"
  /\ \/ outcome[work[a]] # "applied"
     \/ outcome[work[a]] = "applied" /\ ~Applied(edit[work[a]])
     \/ ReadsFail \/ JournalFails
  /\ Done(a)
  /\ UNCHANGED <<journalVars, today, hostVars, userEdits, crashes>>

\* The restored text counts as the user's: whoever wrote it, it is not this edit's.
Restore(x) ==
  /\ skills' = [skills EXCEPT ![x.target] = [text |-> x.before, by |-> User]]
  /\ UNCHANGED memory

\* A plausible bug: the planned slot is cleared unread.
RemoveSlot(x) ==
  /\ Len(x.before) < Len(memory)
  /\ memory' = RemoveAt(memory, Len(x.before) + 1)
  /\ UNCHANGED skills

\* list.index(expected, index): the first match from the planned position on.
RemoveOwn(x) ==
  /\ \E i \in Positions(x) :
       /\ \A j \in Positions(x) : i <= j
       /\ memory' = RemoveAt(memory, i)
  /\ UNCHANGED skills

\* skill_manage(delete or edit): done, queued, or refused.  Memory is rewritten under
\* the host's file lock, which may fail.
HostUndo(a) ==
  LET e == work[a]
      x == edit[e]
  IN /\ pc[a] = "undoing"
     /\ \/ /\ IF x.kind = "memory" THEN RemoveOwn(x)
              ELSE skills[x.target].text # Absent /\ Restore(x)
           /\ answer' = [answer EXCEPT ![a] = "done"]
           /\ UNCHANGED queue
        \/ /\ HostStages /\ x.kind = "skill"
           /\ queue' = queue \cup {<<e, "undo">>}
           /\ answer' \in {[answer EXCEPT ![a] = r] : r \in {"staged", "unnamed"}}
           /\ UNCHANGED <<skills, memory>>
        \/ /\ answer' = [answer EXCEPT ![a] = "refused"]
           /\ UNCHANGED hostVars
     /\ Goto(a, "undone")
     /\ UNCHANGED <<journalVars, today, lock, work, draft, userEdits, crashes>>

\* A plausible bug: a rollback the host did not make is recorded as failed.
UndoVerdictFailing(a, known) ==
  CASE answer[a] = "staged" -> "pending_rollback"
    [] answer[a] = "unnamed" -> "rollback_prepared"
    [] answer[a] = "done" /\ known /\ Undone(edit[work[a]]) -> "rolled_back"
    [] OTHER -> "error"

\* What a rollback is finalized as.  A skill's refusal, and a target that does not
\* show the rollback, put the record back to applied; a memory write that failed but
\* left the target rolled back keeps the intent.
UndoVerdict(a, known) ==
  LET x == edit[work[a]]
      shows == known /\ Undone(x)
  IN CASE answer[a] = "staged" -> "pending_rollback"
       [] answer[a] = "unnamed" -> "rollback_prepared"
       [] answer[a] = "done" /\ shows -> "rolled_back"
       [] answer[a] = "refused" /\ x.kind = "memory" /\ shows -> "rollback_prepared"
       [] OTHER -> "applied"

FinishRollback(a) ==
  /\ pc[a] = "undone"
  /\ \E known \in Reads :
       LET o == UndoVerdict(a, known)
       IN IF o = "rollback_prepared" THEN UNCHANGED <<outcome, aged>>
                                     ELSE Finalize(work[a], o)
  /\ Done(a)
  /\ UNCHANGED <<edit, day, today, hostVars, userEdits, crashes>>

-----------------------------------------------------------------------------
(* The host, the user, the clock and deaths. *)

\* A rollback of a memory edit holds the host's lock on the memory file.
MemoryLocked == \E a \in Actors : pc[a] = "undoing" /\ edit[work[a]].kind = "memory"

\* The user approves a queued request and the host replays it, if it still can.
Approve(r) ==
  LET e == r[1]
      x == edit[e]
      write == r[2] = "write"
      possible == IF write
                  THEN IF x.kind = "skill"
                       THEN (x.before = Absent) = (skills[x.target].text = Absent)
                       ELSE ~InMemory(x.after) /\ Len(memory) < MaxMemory
                  ELSE skills[x.target].text # Absent
  IN /\ x.kind = "memory" => ~MemoryLocked
     /\ queue' = queue \ {r}
     /\ IF possible
        THEN IF write THEN WriteTo(e) ELSE Restore(x)
        ELSE UNCHANGED <<skills, memory>>
     /\ UNCHANGED <<journalVars, today, actorVars, userEdits, crashes>>

Deny(r) ==
  /\ queue' = queue \ {r}
  /\ UNCHANGED <<journalVars, today, skills, memory, actorVars, userEdits, crashes>>

\* The user, or another session, writes or removes a skill.
UserEditsSkill(s) ==
  /\ userEdits < MaxUserEdits
  /\ userEdits' = userEdits + 1
  /\ \E t \in UserTexts \cup {Absent} :
       skills' = [skills EXCEPT ![s] = [text |-> t, by |-> User]]
  /\ UNCHANGED <<journalVars, today, memory, queue, actorVars, crashes>>

\* The user, or another session, appends, rewrites or removes a memory entry.
UserEditsMemory ==
  /\ userEdits < MaxUserEdits
  /\ userEdits' = userEdits + 1
  /\ ~MemoryLocked
  /\ \/ \E t \in UserTexts : /\ ~InMemory(t)
                             /\ Len(memory) < MaxMemory
                             /\ memory' = Append(memory, [text |-> t, by |-> User])
     \/ UserRewrites /\ \E i \in 1..Len(memory) : \E t \in UserTexts \ {memory[i].text} :
          memory' = [memory EXCEPT ![i] = [text |-> t, by |-> User]]
     \/ UserRewrites /\ \E i \in 1..Len(memory) : memory' = RemoveAt(memory, i)
  /\ UNCHANGED <<journalVars, today, skills, queue, actorVars, crashes>>

\* Fifteen minutes pass over an intent.
Age(e) ==
  /\ outcome[e] \in {"prepared", "rollback_prepared"}
  /\ ~aged[e]
  /\ aged' = [aged EXCEPT ![e] = TRUE]
  /\ UNCHANGED <<outcome, edit, day, today, hostVars, actorVars, userEdits, crashes>>

Midnight ==
  /\ \E d \in Days : d > today /\ today' = d
  /\ UNCHANGED <<journalVars, hostVars, actorVars, userEdits, crashes>>

\* A process dies; its mutation lock is reclaimed.
Crash(a) ==
  /\ pc[a] # "idle"
  /\ crashes < MaxCrashes
  /\ crashes' = crashes + 1
  /\ Done(a)
  /\ UNCHANGED <<journalVars, today, hostVars, userEdits>>

-----------------------------------------------------------------------------
\* What an actor does by itself once it has begun.
Step(a) ==
  \/ Propose(a) \/ GiveUp(a) \/ Admit(a) \/ BudgetRefused(a) \/ Refuse(a)
  \/ Check(a) \/ Prepare(a) \/ PrepareFails(a) \/ HostWrite(a) \/ FinishEdit(a)
  \/ Intend(a) \/ RollbackRefused(a) \/ HostUndo(a) \/ FinishRollback(a)

Next ==
  \/ \E a \in Actors : \/ StartPass(a) \/ Step(a) \/ Crash(a)
                       \/ \E e \in Entries : StartRollback(a, e)
  \/ \E r \in queue : Approve(r) \/ Deny(r)
  \/ \E s \in Skills : UserEditsSkill(s)
  \/ UserEditsMemory
  \/ \E e \in Entries : Age(e)
  \/ Midnight

Spec == Init /\ [][Next]_vars

\* Sessions keep ending, passes and rollbacks run to their end or die, intents grow
\* old, and the user answers what is queued.
FairSpec ==
  /\ Spec
  /\ \A a \in Actors : WF_vars(StartPass(a)) /\ WF_vars(Step(a))
  /\ \A e \in Entries : WF_vars(Age(e))
  /\ \A e \in Entries, o \in {"write", "undo"} :
       WF_vars(<<e, o>> \in queue /\ (Approve(<<e, o>>) \/ Deny(<<e, o>>)))
-----------------------------------------------------------------------------
(* Properties. *)

Items == [text : Lessons \cup UserTexts, by : Entries \cup {User}]

JournalOK == /\ outcome \in [Entries -> Outcomes]
             /\ edit \in [Entries -> Edits \cup {NoEdit}]
             /\ day \in [Entries -> Nat]
             /\ aged \in [Entries -> BOOLEAN]
             /\ today \in Days

HostOK == /\ skills \in [Skills -> [text : SkillTexts \cup UserTexts \cup {Absent},
                                    by : Entries \cup {User}]]
          /\ memory \in Seq(Items)
          /\ queue \subseteq Entries \X {"write", "undo"}

ActorsOK == /\ lock \in Actors \cup {NoActor}
            /\ pc \in [Actors -> Locations]
            /\ work \in [Actors -> Entries \cup {NoEntry}]
            /\ draft \in [Actors -> Edits \cup {NoEdit}]
            /\ answer \in [Actors -> {"none", "done", "staged", "unnamed", "refused"}]

\* Every variable has the form the code gives it: an outcome is one of the journal's,
\* a recorded edit has the recovery data of its kind.
TypeOK == JournalOK /\ HostOK /\ ActorsOK
            /\ userEdits \in 0..MaxUserEdits /\ crashes \in 0..MaxCrashes

\* No day has more than MaxPerDay edits applied, waiting or under way, whatever
\* passes run at once, die, roll back or cross midnight (daily_limit_reached, looked
\* at again under the lock in _refine_once).
WithinBudget == \A d \in Days : Cardinality(Consumed(d)) <= MaxPerDay

\* An edit whose text is still where it put it has a record that counts and that a
\* rollback or a later reconciliation can start from: nothing in force is forgotten
\* (_apply_edit, reconcile, _restore_applied).
StandingAccounted == \A e \in Entries : Standing(e) => outcome[e] \in Consuming

\* One operation is not under way twice within the dedup window: a repeat is refused
\* while its twin of the last DedupDays days waits for approval, died half way or is in
\* force (was_applied_recently).
TwinsNeverOpen ==
  \A e, f \in Entries :
    /\ e # f /\ outcome[e] \in Consuming /\ outcome[f] \in Consuming
    /\ Operation(edit[e]) = Operation(edit[f])
    /\ day[e] - day[f] \in 0..(DedupDays - 1)
    => edit[e].kind = "memory"
         /\ ~({outcome[e], outcome[f]} \subseteq {"prepared", "pending_approval"})

\* The memory entries others wrote survive every pass, approval, rollback and crash, in
\* their order: refine removes no entry but a single one that reads like the lesson it is
\* rolling back (_rollback_memory_locked: "exact content, at or after the planned position").
OthersAt(m, spared) == {i \in DOMAIN m : m[i].by = User /\ m[i].text \notin spared}
SameOthers(m, n, spared) == \E f \in [OthersAt(m, spared) -> OthersAt(n, spared)] :
  /\ \A i \in OthersAt(m, spared) : n[f[i]] = m[i]
  /\ \A i, j \in OthersAt(m, spared) : i < j => f[i] < f[j]
  /\ \A k \in OthersAt(n, spared) : \E i \in OthersAt(m, spared) : f[i] = k
BeingUndone == {edit[e].after : e \in {f \in Entries : /\ outcome[f] = "rollback_prepared"
                                                     /\ edit[f].kind = "memory"}}
OthersMemoryKept ==
  [][userEdits' = userEdits => /\ SameOthers(memory, memory', BeingUndone)
                               /\ Len(memory) <= Len(memory') + 1]_vars

\* A pass that changes what another pass wrote has seen it: its record holds it, so
\* that its rollback brings it back (_skill_baseline_conflict under the lock).
NoLostUpdate ==
  [][\A s \in Skills :
       LET e == skills'[s].by
       IN skills'[s] # skills[s] /\ e \in Entries
            => edit[e].before = skills[s].text]_vars

\* The records follow the journal's declared transitions and its budget.
Lifecycle == INSTANCE JournalLifecycle
ImplementsLifecycle == Lifecycle!Spec

\* An intent whose target shows the edit, or shows that it is not there, is settled
\* (reconcile on a host without approvals, _prepared_is_abandoned): again and again there
\* is none.  It may stay when the target shows neither.
Legible(e) == Applied(edit[e]) \/ Undone(edit[e])
IntentsSettle ==
  []<>(\A e \in Entries : ~(outcome[e] \in {"prepared", "rollback_prepared"} /\ Legible(e)))

\* What waits for approval is settled after the answer, whoever died meanwhile
\* (reconcile): again and again a record does not wait.
ApprovalsSettle ==
  \A e \in Entries : []<>(outcome[e] \notin {"pending_approval", "pending_rollback"})

-----------------------------------------------------------------------------
(* What the repository says of the program and these runs refute. *)

\* "The host record is gone and the target never changed" (reconcile): an edit
\* recorded as rejected is not in force.
RejectedNotStanding == \A e \in Entries : outcome[e] = "rejected" => ~Standing(e)

\* "Absence has to be proven, not inferred from does not match" (reconcile): an edit
\* recorded as failed is not in force.
FailedNotStanding == \A e \in Entries : outcome[e] = "error" => ~Standing(e)
=============================================================================
