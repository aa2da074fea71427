------------------------------ MODULE JournalLog ------------------------------
(***************************************************************************)
(* The journal file and the backups it refers to (journal.py).             *)
(*                                                                         *)
(* A record is one JSON line, appended under the mutation lock.  A writer  *)
(* that dies or fails leaves a prefix of its line.  A reader, which takes  *)
(* no lock, skips an unterminated line that does not decode (a torn tail)  *)
(* and takes one that does for a record; the next append moves a torn tail *)
(* aside.  A terminated line that does not decode makes the journal        *)
(* unreadable.                                                             *)
(*                                                                         *)
(* The gates read the file twice, once for the records and once for the    *)
(* tail, and are closed by a torn tail.  A record of a skill patch refers  *)
(* to a backup of its target, which retention and the cleanup of dead      *)
(* writers' files must leave alone.                                        *)
(***************************************************************************)
EXTENDS Naturals, FiniteSets, SequencesExt

CONSTANTS
  Writers,       \* processes
  MaxEntries,    \* bound on the edits
  MaxPerDay,     \* max_edits_per_day
  MaxLines,      \* bound on the records of the file
  MaxMishaps,    \* bound on deaths and failed appends
  Kinds,         \* the passes that are run: automatic, by command, or both
  NoWriter,
  Bad,           \* a terminated line that does not decode
  Torn,          \* an unterminated line that does not decode
  Clean,         \* the file ends with a newline
  Note           \* a record no gate counts: a refusal

ASSUME NameAssumption ==
  /\ {NoWriter, "none", "dead"} \cap Writers = {}
  /\ Kinds \subseteq {"auto", "manual"}
ASSUME BoundAssumption ==
  MaxPerDay \in Nat /\ MaxEntries \in Nat /\ MaxLines \in Nat /\ MaxMishaps \in Nat

VARIABLES
  lines,     \* the terminated lines
  tail,      \* what follows the last of them
  backup,    \* the backup of each record's target: "none", its writer, or "dead"
  age,       \* of each backup: 1 if past the cutoff of 30 days, but not of 90
  lock,
  pc,        \* where each process is
  kind,      \* the pass it runs
  work,      \* the record it appends or changes
  next,      \* the outcome it appends
  mishaps    \* deaths and failed appends so far

fileVars == <<lines, tail>>
backupVars == <<backup, age>>
writerVars == <<kind, work, next>>
vars == <<fileVars, backupVars, lock, pc, writerVars, mishaps>>

\* Journal ids, and none.
Entries == 1..MaxEntries
NoEntry == 0

Record(e, o) == [id |-> e, outcome |-> o]

\* The states a record of an edit goes through (module JournalLifecycle has them all).
Outcomes == {"prepared", "applied", "error", "rollback_prepared", "rolled_back"}
Transitions == [prepared |-> {"applied", "error"},
                applied |-> {"rollback_prepared"},
                rollback_prepared |-> {"rolled_back", "applied"},
                rolled_back |-> {}, error |-> {}, none |-> Outcomes]
Consuming == {"prepared", "applied", "rollback_prepared"}
Records == [id : Entries, outcome : Outcomes]

ASSUME ValueAssumption ==
  /\ {Bad, Torn, Clean, Note} \cap Records = {}
  /\ Torn # Clean /\ Torn # Note /\ Clean # Note

Locations == {"idle", "gate", "probe", "open", "refusing", "locked", "append", "writing",
              "written", "host"}

Init ==
  /\ lines = <<>>
  /\ tail = Clean
  /\ backup = [e \in Entries |-> "none"]
  /\ age = [e \in Entries |-> 0]
  /\ lock = NoWriter
  /\ pc = [a \in Writers |-> "idle"]
  /\ kind = [a \in Writers |-> "manual"]
  /\ work = [a \in Writers |-> NoEntry]
  /\ next = [a \in Writers |-> "none"]
  /\ mishaps = 0

-----------------------------------------------------------------------------
(* Reading (_load_entries_state, _split_torn_tail, _replay_entries). *)

\* A last line without its newline is a record if it decodes.
Committed == IF tail \in Records THEN Append(lines, tail) ELSE lines

\* The latest of the first n lines that are about record e.
LatestIn(e, n) ==
  LET of == {i \in 1..n : Committed[i] # Bad /\ Committed[i].id = e}
  IN IF of = {} THEN "none" ELSE Committed[Max(of)].outcome
Latest(e) == LatestIn(e, Len(Committed))

\* Every line decodes, and a record moves along the declared transitions.
Readable ==
  \A i \in 1..Len(Committed) :
    /\ Committed[i] # Bad
    /\ Committed[i].outcome \in Transitions[LatestIn(Committed[i].id, i - 1)]

Consumed == {e \in Entries : Latest(e) \in Consuming}

\* _load_entries_for_gate as one step, which it is for the holder of the lock.
GateOpen == Readable /\ tail # Torn /\ Cardinality(Consumed) < MaxPerDay

-----------------------------------------------------------------------------
(* Backups. *)

\* What a rollback may still need, and what is kept longer for the operator.
Rollbackable == {"prepared", "applied", "rollback_prepared"}
Expired(e) == Latest(e) \notin Rollbackable \cup {"error"} /\ age[e] = 1

\* prune_expired_backups, after a new backup is written.
Pruned == {e \in Entries : backup[e] # "none" /\ Expired(e)}

\* A plausible bug: a journal that cannot be read refers to nothing.
OrphansUnread ==
  {e \in Entries : backup[e] = "dead" /\ (~Readable \/ Latest(e) = "none")}

\* _cleanup_interrupted_artifacts: dead writers' backups that no record refers to.
Orphans == IF Readable THEN {e \in Entries : backup[e] = "dead" /\ Latest(e) = "none"}
                       ELSE {}

-----------------------------------------------------------------------------
Goto(a, l) == pc' = [pc EXCEPT ![a] = l]

\* Back to the caller, the lock free.
Done(a) ==
  /\ Goto(a, "idle")
  /\ kind' = [kind EXCEPT ![a] = "manual"]
  /\ work' = [work EXCEPT ![a] = NoEntry]
  /\ next' = [next EXCEPT ![a] = "none"]
  /\ lock' = IF lock = a THEN NoWriter ELSE lock

Unlink(gone) ==
  /\ backup' = [e \in Entries |-> IF e \in gone THEN "none" ELSE backup[e]]
  /\ age' = [e \in Entries |-> IF e \in gone THEN 0 ELSE age[e]]

\* The lock is free, and whoever takes it cleans up what dead writers left.
CleanUp == lock = NoWriter /\ Unlink(Orphans)

TakeLock(a) == CleanUp /\ lock' = a

\* An append of outcome o to record e, or of a refusal, is next.
Ask(a, e, o) ==
  /\ work' = [work EXCEPT ![a] = e]
  /\ next' = [next EXCEPT ![a] = o]
  /\ kind' = [kind EXCEPT ![a] = "manual"]
  /\ Goto(a, "append")

-----------------------------------------------------------------------------
(* A pass (_run_auto_refine, refine_run, _refine_once, _apply_edit). *)

StartPass(a, k) ==
  /\ pc[a] = "idle"
  /\ kind' = [kind EXCEPT ![a] = k]
  /\ Goto(a, "gate")
  /\ UNCHANGED <<fileVars, backupVars, lock, work, next, mishaps>>

\* The first read of a gate: the records.  An unreadable journal ends the pass.  A pass
\* by command looks at the edits of the day and journals its refusal; an automatic one
\* looks at its model runs only.
ReadRecords(a) ==
  /\ pc[a] = "gate"
  /\ IF ~Readable THEN Done(a)
     ELSE /\ Goto(a, IF kind[a] = "manual" /\ Cardinality(Consumed) >= MaxPerDay
                     THEN "refusing" ELSE "probe")
          /\ UNCHANGED <<lock, writerVars>>
  /\ UNCHANGED <<fileVars, backupVars, mishaps>>

\* The second: the tail (_unfinished_tail_present).  An automatic pass that sees a torn
\* one ends without a trace.
ProbeTail(a) ==
  /\ pc[a] = "probe"
  /\ IF tail = Torn /\ kind[a] = "auto" THEN Done(a)
     ELSE /\ Goto(a, IF tail = Torn THEN "refusing" ELSE "open")
          /\ UNCHANGED <<lock, writerVars>>
  /\ UNCHANGED <<fileVars, backupVars, mishaps>>

\* A plausible bug: the refusal is reported to the user only.
RefuseSilently(a) ==
  /\ pc[a] = "refusing"
  /\ Done(a)
  /\ UNCHANGED <<fileVars, backupVars, mishaps>>

\* _journal_nonmutation takes the lock for the refusal.
Refuse(a) ==
  /\ pc[a] = "refusing"
  /\ TakeLock(a)
  /\ Ask(a, NoEntry, "none")
  /\ UNCHANGED <<fileVars, mishaps>>

\* The lock for the mutation.
Lock(a) ==
  /\ pc[a] = "open"
  /\ TakeLock(a)
  /\ Goto(a, "locked")
  /\ UNCHANGED <<fileVars, writerVars, mishaps>>

\* An automatic pass does not wait for the lock; a pass may propose nothing.
GiveUp(a) ==
  /\ pc[a] = "open"
  /\ Done(a)
  /\ UNCHANGED <<fileVars, backupVars, mishaps>>

\* prepare_skill_recovery: a new backup, and then retention.
BackUp(a, e) ==
  /\ backup' = [f \in Entries |-> IF f = e THEN a
                                  ELSE IF f \in Pruned THEN "none" ELSE backup[f]]
  /\ age' = [f \in Entries |-> IF f = e \/ f \in Pruned THEN 0 ELSE age[f]]

\* The next new id.
Free == {e \in Entries : Latest(e) = "none" /\ backup[e] = "none"}
Unused(e) == e \in Free /\ \A f \in Free : e <= f

\* A plausible bug: the budget is looked at once, before the model call.
AdmitUnchecked(a) ==
  /\ pc[a] = "locked"
  /\ \E e \in Entries :
       /\ Unused(e)
       /\ Ask(a, e, "prepared")
       /\ BackUp(a, e)
  /\ Len(Committed) + 2 <= MaxLines
  /\ UNCHANGED <<fileVars, lock, mishaps>>

\* The gate once more, under the lock; then the backup, retention, and the intent.
Admit(a) ==
  /\ pc[a] = "locked"
  /\ GateOpen
  /\ \E e \in Entries :
       /\ Unused(e)
       /\ Ask(a, e, "prepared")
       /\ BackUp(a, e)
  /\ Len(Committed) + 2 <= MaxLines
  /\ UNCHANGED <<fileVars, lock, mishaps>>

\* The gate is closed now, or a check refuses the edit (always possible): a refusal is
\* journaled, but not by a pass by command whose second look finds no budget.
Decline(a) ==
  /\ pc[a] = "locked"
  /\ IF Readable /\ (kind[a] = "auto" \/ GateOpen)
     THEN Ask(a, NoEntry, "none") /\ UNCHANGED lock
     ELSE Done(a)
  /\ UNCHANGED <<fileVars, backupVars, mishaps>>

\* The host did, or did not do, what was asked; the record is finalized.
AfterHost(a) ==
  /\ pc[a] = "host"
  /\ \E o \in Outcomes :
       o \in Transitions[Latest(work[a])] /\ Ask(a, work[a], o)
  /\ UNCHANGED <<fileVars, backupVars, lock, mishaps>>

\* What the host did cannot be told: the record stays for a later reconcile.
Undecided(a) ==
  /\ pc[a] = "host"
  /\ Done(a)
  /\ UNCHANGED <<fileVars, backupVars, mishaps>>

-----------------------------------------------------------------------------
(* finalize, for a rollback or by reconcile. *)

\* The record is read and its transition checked under the lock that the append needs.
Finalize(a, e, o) ==
  /\ pc[a] = "idle"
  /\ TakeLock(a)
  /\ Readable
  /\ Latest(e) # "none"
  /\ o \in Transitions[Latest(e)]
  /\ Len(Committed) + 2 <= MaxLines
  /\ Ask(a, e, o)
  /\ UNCHANGED <<fileVars, mishaps>>

\* Nothing can be read or no transition is right: only the cleanup is done.
FinalizeRefused(a) ==
  /\ pc[a] = "idle"
  /\ CleanUp
  /\ UNCHANGED <<fileVars, lock, pc, writerVars, mishaps>>

-----------------------------------------------------------------------------
(* _append_entry, under the lock. *)

\* The line a writer appends: a state of its record, or the row of a refusal.
Entry(a) == IF work[a] = NoEntry THEN Note ELSE Record(work[a], next[a])

\* The file once record r has its newline.
Terminated(r) == IF r = Note THEN lines ELSE Append(lines, r)

\* A plausible bug: whatever has no newline is moved aside, a whole record too.
RepairAny(a) ==
  /\ pc[a] = "append" /\ tail # Clean
  /\ tail' = Clean
  /\ UNCHANGED <<lines, backupVars, lock, pc, writerVars, mishaps>>

\* The torn tail of a dead writer is moved aside.
Repair(a) ==
  /\ pc[a] = "append" /\ tail = Torn
  /\ tail' = Clean
  /\ UNCHANGED <<lines, backupVars, lock, pc, writerVars, mishaps>>

\* A plausible bug: the new line follows whatever the file ends with.
WriteOver(a) ==
  /\ pc[a] = "append"
  /\ lines' = CASE tail = Clean -> lines
                [] tail = Torn -> Append(lines, Bad)
                [] OTHER -> Terminated(tail)
  /\ tail' = Torn
  /\ Goto(a, "writing")
  /\ UNCHANGED <<backupVars, lock, writerVars, mishaps>>

\* A first part of the line; a whole record before it gets its newline.
WriteSome(a) ==
  /\ pc[a] = "append" /\ tail # Torn
  /\ lines' = IF tail = Clean THEN lines ELSE Terminated(tail)
  /\ tail' = Torn
  /\ Goto(a, "writing")
  /\ UNCHANGED <<backupVars, lock, writerVars, mishaps>>

\* All of it but the newline.
WriteRecord(a) ==
  /\ pc[a] = "writing"
  /\ tail' = Entry(a)
  /\ Goto(a, "written")
  /\ UNCHANGED <<lines, backupVars, lock, writerVars, mishaps>>

\* The newline.  An intent is followed by the call of the host.
WriteNewline(a) ==
  /\ pc[a] = "written"
  /\ lines' = Terminated(tail)
  /\ tail' = Clean
  /\ IF next[a] \in {"prepared", "rollback_prepared"}
     THEN Goto(a, "host") /\ UNCHANGED <<lock, writerVars>>
     ELSE Done(a)
  /\ UNCHANGED <<backupVars, mishaps>>

\* The append raises and leaves what it has written, in the end all of it.
AppendFails(a) ==
  /\ pc[a] \in {"append", "writing", "written"} /\ mishaps < MaxMishaps
  /\ \/ UNCHANGED fileVars
     \/ pc[a] = "written" /\ lines' = Terminated(tail) /\ tail' = Clean
  /\ Done(a)
  /\ mishaps' = mishaps + 1
  /\ UNCHANGED backupVars

-----------------------------------------------------------------------------
(* What happens around them. *)

\* A process dies and is started again; the file stays as it is.
Crash(a) ==
  /\ mishaps < MaxMishaps
  /\ Done(a)
  /\ backup' = [e \in Entries |-> IF backup[e] = a THEN "dead" ELSE backup[e]]
  /\ mishaps' = mishaps + 1
  /\ UNCHANGED <<fileVars, age>>

\* Somebody else leaves a line that does not decode.
Spoil ==
  /\ lock = NoWriter /\ tail = Clean /\ Readable
  /\ lines' = Append(lines, Bad)
  /\ UNCHANGED <<tail, backupVars, lock, pc, writerVars, mishaps>>

\* The backups get older.
Month ==
  /\ lock = NoWriter
  /\ \E e \in Entries : backup[e] # "none" /\ age[e] = 0
  /\ age' = [e \in Entries |-> IF backup[e] = "none" THEN 0 ELSE 1]
  /\ UNCHANGED <<fileVars, backup, lock, pc, writerVars, mishaps>>

-----------------------------------------------------------------------------
AppendStep(a) == Repair(a) \/ WriteSome(a) \/ WriteRecord(a) \/ WriteNewline(a)
PassStep(a) ==
  \/ ReadRecords(a) \/ ProbeTail(a) \/ Refuse(a) \/ Lock(a) \/ GiveUp(a)
  \/ Admit(a) \/ Decline(a) \/ AfterHost(a) \/ Undecided(a)

Next ==
  \/ \E a \in Writers :
       \/ AppendStep(a) \/ PassStep(a) \/ AppendFails(a) \/ Crash(a) \/ FinalizeRefused(a)
       \/ \E k \in Kinds : StartPass(a, k)
       \/ \E e \in Entries, o \in Outcomes : Finalize(a, e, o)
  \/ Month \/ Spoil

Spec == Init /\ [][Next]_vars

\* A process that runs takes its next step, and passes of every kind are started again
\* and again.
FairSpec ==
  /\ Spec
  /\ \A a \in Writers : WF_vars(AppendStep(a)) /\ WF_vars(PassStep(a))
  /\ \A a \in Writers, k \in Kinds : SF_vars(StartPass(a, k))

-----------------------------------------------------------------------------
(* Properties. *)

TypeOK ==
  /\ lines \in Seq(Records \cup {Bad})
  /\ tail \in Records \cup {Clean, Torn, Note}
  /\ backup \in [Entries -> Writers \cup {"none", "dead"}]
  /\ age \in [Entries -> 0..1]
  /\ lock \in Writers \cup {NoWriter}
  /\ pc \in [Writers -> Locations]
  /\ kind \in [Writers -> {"auto", "manual"}]
  /\ work \in [Writers -> Entries \cup {NoEntry}]
  /\ next \in [Writers -> Outcomes \cup {"none"}]
  /\ mishaps \in Nat

\* A record that a reader has seen is never lost: whatever dies, fails or is moved aside,
\* the committed records are only ever added to (_append_entry, _split_torn_tail).
NoneLost == [][IsPrefix(Committed, Committed')]_vars

\* A writer never makes the journal unreadable: neither by running its line into a torn
\* one nor by a transition that replay refuses (_append_entry, finalize).
KeepsReadable == [][lock # NoWriter /\ Readable => Readable']_vars

\* While an edit may still have to be rolled back its backup is there, whatever the
\* journal's state when cleanup and retention run (_cleanup_interrupted_artifacts,
\* prune_expired_backups).
BackupsKept ==
  \A e \in Entries : Latest(e) \in Rollbackable \cup {"error"} => backup[e] # "none"

\* The file implements the lifecycle of the records on it, the budget included, though
\* the gate before the model call looks at it without the lock.
Lifecycle == INSTANCE JournalLifecycle WITH
  outcome <- [e \in Entries |-> Latest(e)],
  Days <- {1}, today <- 1,
  day <- [e \in Entries |-> IF Latest(e) = "none" THEN 0 ELSE 1]
ImplementsLifecycle == Lifecycle!Spec

\* A torn tail does not stay, unless the journal is unreadable anyway: the refusal it
\* causes is journaled, and that append moves it aside (_load_entries_for_gate).
TornHeals == (tail = Torn) ~> (tail # Torn \/ ~Readable)
=============================================================================
