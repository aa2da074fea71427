------------------------------- MODULE Migration -------------------------------
(***************************************************************************)
(* Runtime data moves from the legacy directory to its new one             *)
(* (journal.migrate_legacy_journal_dir, config.journal_dir).               *)
(*                                                                         *)
(* Each process migrates when it starts, and uses the legacy directory for *)
(* as long as it lives when that fails, unless another one succeeds.  A    *)
(* process can die, or a file operation fail, between any two steps.  The  *)
(* migration holds the lock writers of the legacy directory take, so that  *)
(* a write is one step here; MutationLock has the lock itself.             *)
(***************************************************************************)
EXTENDS Integers, FiniteSets

CONSTANTS
  Hosts,        \* processes that load the plugin
  DataFiles,    \* what is migrated: _MIGRATION_FILES and the backups
  Clearable,    \* those a command deletes: the model override
  MaxWrites,    \* bound on writes
  MaxFailures   \* bound on deaths and failures

ASSUME MigrationAssumption ==
  /\ Clearable \subseteq DataFiles /\ Clearable # DataFiles
  /\ MaxWrites \in Nat /\ MaxFailures \in Nat

VARIABLES
  legacy,       \* the version of each file in the legacy directory
  renamed,      \* that directory has been renamed away
  dest,         \* the version of each file in the new one
  staged,       \* the copies the lock holder has not moved yet
  marker,       \* .migrated_from is there: the commit point
  incomplete,   \* the marker of an unfinished migration is there
  migrating,    \* how far each process is
  fallback,     \* processes whose _RUNTIME_JOURNAL_DIR is the legacy directory
  wanted,       \* history: what was written last, or that it was cleared
  writes, failures

migrationVars == <<legacy, renamed, dest, staged, marker, incomplete, migrating, fallback,
                   wanted, writes, failures>>
dataVars == <<legacy, dest, wanted, writes>>

None == 0
Nothing == [f \in DataFiles |-> None]
Stages == {"copying", "marking", "moving", "unmarking", "renaming"}

\* The user has data, and may have picked a model.
MigrationInit ==
  /\ legacy \in {s \in [DataFiles -> {None, 1}] : \A f \in DataFiles \ Clearable : s[f] = 1}
  /\ renamed = FALSE /\ dest = Nothing /\ staged = Nothing
  /\ marker = FALSE /\ incomplete = FALSE
  /\ migrating = [p \in Hosts |-> "off"] /\ fallback = {}
  /\ wanted = legacy
  /\ writes = 0 /\ failures = 0

LegacyHasData == ~renamed /\ legacy # Nothing
DestinationHasData == dest # Nothing
LockHolders == {p \in Hosts : migrating[p] \in Stages}

Reaches(p, where) == migrating' = [migrating EXCEPT ![p] = where]

\* _set_runtime_journal_dir
Settles(p, usesLegacy) ==
  /\ Reaches(p, "running")
  /\ fallback' = IF usesLegacy THEN fallback \cup {p} ELSE fallback \ {p}

-----------------------------------------------------------------------------
(* migrate_legacy_journal_dir. *)

\* The process starts; without the lock it looks for a reason not to migrate.
Launch(p) ==
  /\ migrating[p] = "off"
  /\ IF marker THEN Settles(p, FALSE)
     ELSE IF ~LegacyHasData THEN Settles(p, incomplete /\ ~renamed)
     ELSE Reaches(p, "waiting") /\ UNCHANGED fallback
  /\ UNCHANGED <<dataVars, renamed, staged, marker, incomplete, failures>>

\* A plausible bug: what was seen before the lock is taken for granted.
NeededUnseen == ~(DestinationHasData /\ ~incomplete)

\* Under the lock the same reasons are looked for again, and one more.
Needed == ~marker /\ LegacyHasData /\ ~(DestinationHasData /\ ~incomplete)

TakeMigrationLock(p) ==
  /\ migrating[p] = "waiting" /\ LockHolders = {}
  /\ IF Needed THEN Reaches(p, "copying") /\ UNCHANGED fallback ELSE Settles(p, FALSE)
  /\ staged' = Nothing
  /\ UNCHANGED <<dataVars, renamed, marker, incomplete, failures>>

\* Copies beside the destination; nobody writes meanwhile.
CopyToStage(p) ==
  /\ migrating[p] = "copying"
  /\ staged' = legacy /\ Reaches(p, "marking")
  /\ UNCHANGED <<dataVars, renamed, marker, incomplete, fallback, failures>>

MarkIncomplete(p) ==
  /\ migrating[p] = "marking"
  /\ incomplete' = TRUE /\ Reaches(p, "moving")
  /\ UNCHANGED <<dataVars, renamed, staged, marker, fallback, failures>>

\* os.replace, one file after the other.
MoveIntoPlace(p, f) ==
  /\ migrating[p] = "moving" /\ staged[f] # None
  /\ dest' = [dest EXCEPT ![f] = staged[f]] /\ staged' = [staged EXCEPT ![f] = None]
  /\ UNCHANGED <<legacy, wanted, writes, renamed, marker, incomplete, migrating, fallback,
                 failures>>

Commit(p) ==
  /\ migrating[p] = "moving" /\ staged = Nothing
  /\ marker' = TRUE /\ Reaches(p, "unmarking")
  /\ UNCHANGED <<dataVars, renamed, staged, incomplete, fallback, failures>>

Unmark(p) ==
  /\ migrating[p] = "unmarking"
  /\ incomplete' = FALSE /\ Reaches(p, "renaming")
  /\ UNCHANGED <<dataVars, renamed, staged, marker, fallback, failures>>

\* The old directory is renamed away, or stays when that fails.
RenameLegacy(p) ==
  /\ migrating[p] = "renaming"
  /\ renamed' \in BOOLEAN
  /\ Settles(p, FALSE)
  /\ UNCHANGED <<dataVars, staged, marker, incomplete, failures>>

\* What was staged is not used again.
Unstages(p) == staged' = (IF p \in LockHolders THEN Nothing ELSE staged)

\* An operation raises, or the lock is not to be had in time: the process goes on with
\* the legacy directory.
MigrationFails(p) ==
  /\ failures < MaxFailures /\ failures' = failures + 1
  /\ migrating[p] \in (Stages \ {"renaming"}) \cup {"waiting"}
  /\ Settles(p, TRUE) /\ Unstages(p)
  /\ UNCHANGED <<dataVars, renamed, marker, incomplete>>

\* The next process removes the lock of a dead one; its copies are left alone.
Dies(p) ==
  /\ failures < MaxFailures /\ failures' = failures + 1
  /\ migrating[p] # "off"
  /\ Reaches(p, "off") /\ fallback' = fallback \ {p} /\ Unstages(p)
  /\ UNCHANGED <<dataVars, renamed, marker, incomplete>>

-----------------------------------------------------------------------------
(* What a running process reads and writes. *)

\* journal_dir: the commit of another process is noticed before the next path is resolved.
UsesLegacy(p) == p \in fallback /\ ~marker

StoreOf(p) == IF UsesLegacy(p) THEN legacy ELSE dest

\* Under the lock of the directory the process uses.
CanWrite(p) ==
  /\ migrating[p] = "running" /\ writes < MaxWrites /\ writes' = writes + 1
  /\ UsesLegacy(p) => LockHolders = {} /\ ~renamed

Put(p, f, version) ==
  /\ IF UsesLegacy(p) THEN legacy' = [legacy EXCEPT ![f] = version] /\ UNCHANGED dest
     ELSE dest' = [dest EXCEPT ![f] = version] /\ UNCHANGED legacy
  /\ wanted' = [wanted EXCEPT ![f] = version]
  /\ UNCHANGED <<renamed, staged, marker, incomplete, migrating, fallback, failures>>

\* A row, a note, a count, a picked model.
WriteFile(p, f) == CanWrite(p) /\ Put(p, f, writes + 2)

\* clear_model_override
ClearFile(p, f) == CanWrite(p) /\ f \in Clearable /\ StoreOf(p)[f] # None /\ Put(p, f, None)

MigrationNext ==
  \E p \in Hosts :
    \/ Launch(p) \/ TakeMigrationLock(p) \/ CopyToStage(p) \/ MarkIncomplete(p)
    \/ Commit(p) \/ Unmark(p) \/ RenameLegacy(p) \/ MigrationFails(p) \/ Dies(p)
    \/ \E f \in DataFiles : MoveIntoPlace(p, f) \/ WriteFile(p, f) \/ ClearFile(p, f)

MigrationSpec == MigrationInit /\ [][MigrationNext]_migrationVars

-----------------------------------------------------------------------------
MigrationTypeOK ==
  /\ {legacy, dest, staged, wanted} \subseteq [DataFiles -> 0..MaxWrites + 1]
  /\ {renamed, marker, incomplete} \subseteq BOOLEAN
  /\ migrating \in [Hosts -> Stages \cup {"off", "waiting", "running"}]
  /\ fallback \subseteq Hosts
  /\ writes \in 0..MaxWrites /\ failures \in 0..MaxFailures

\* "a partial destination is never read" (journal.py:620): a running process finds every
\* file that was written last where it looks, whichever migrations of other processes
\* died or failed before, and whatever was written in between.
WrittenIsRead ==
  \A p \in Hosts : migrating[p] = "running" =>
    \A f \in DataFiles : wanted[f] # None => StoreOf(p)[f] = wanted[f]

\* "a cleared pin [cannot be] resurrected while runtime data is published"
\* (journal.py:417): what a command has cleared no process finds again.
ClearedStaysCleared ==
  \A p \in Hosts : migrating[p] = "running" =>
    \A f \in DataFiles : wanted[f] = None => StoreOf(p)[f] = None
=============================================================================
