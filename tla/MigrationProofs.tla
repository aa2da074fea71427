---------------------------- MODULE MigrationProofs ----------------------------
(***************************************************************************)
(* What was written is read, for any number of processes, files, writes,   *)
(* deaths and failures.  The argument is about the commit marker: before it *)
(* every process that runs uses the legacy directory, and what the lock     *)
(* holder has staged or moved is what that directory has; after it every    *)
(* process uses the new one.                                                *)
(***************************************************************************)
EXTENDS Migration, TLAPS

\* One process at a time migrates.
OneMigrates == \A p, q \in LockHolders : p = q

\* The steps of a migration are before or after its commit.
MarkerAtItsStep ==
  \A p \in Hosts :
    /\ migrating[p] \in {"copying", "marking", "moving"} => ~marker
    /\ migrating[p] \in {"unmarking", "renaming"} => marker
    /\ migrating[p] = "moving" => incomplete

\* Nobody has the new directory before the commit, and a part of it is known to be one.
BeforeCommit ==
  ~marker => /\ legacy = wanted /\ ~renamed
             /\ \A f \in DataFiles \ Clearable : legacy[f] # None
             /\ \A p \in Hosts : migrating[p] = "running" => p \in fallback
             /\ dest # Nothing => incomplete

\* What the lock holder has copied.
StagedIsLegacy ==
  \A p \in Hosts :
    /\ migrating[p] = "marking" => staged = legacy
    /\ migrating[p] = "moving" =>
         \A f \in DataFiles : legacy[f] \in {staged[f], dest[f]}
                              /\ (staged[f] = None \/ staged[f] = legacy[f])

AfterCommit == marker => \A f \in DataFiles : wanted[f] # None => dest[f] = wanted[f]

MigrationInv ==
  /\ MigrationTypeOK /\ OneMigrates /\ MarkerAtItsStep
  /\ BeforeCommit /\ StagedIsLegacy /\ AfterCommit

-----------------------------------------------------------------------------
\* Versions are numbers, and a write makes one that is not None.
LEMMA VersionsAreKept ==
  /\ None \in 0..MaxWrites + 1 /\ Nothing \in [DataFiles -> 0..MaxWrites + 1]
  /\ writes \in 0..MaxWrites /\ writes < MaxWrites =>
       writes + 2 \in 0..MaxWrites + 1 /\ writes + 2 # None
  BY MigrationAssumption DEF None, Nothing

\* Before the commit there is something to migrate.
LEMMA LegacyNotEmpty ==
  ASSUME MigrationInv, ~marker
  PROVE  LegacyHasData
  BY MigrationAssumption DEF MigrationInv, BeforeCommit, LegacyHasData, Nothing

LEMMA InitiallyMigrationInv == MigrationInit => MigrationInv
  <1> SUFFICES ASSUME MigrationInit PROVE MigrationInv
    OBVIOUS
  <1>1. MigrationTypeOK
    <2>1. Nothing \in [DataFiles -> 0..MaxWrites + 1] /\ legacy \in [DataFiles -> {None, 1}]
      BY VersionsAreKept DEF MigrationInit
    <2>2. {None, 1} \subseteq 0..MaxWrites + 1 /\ 0 \in 0..MaxWrites /\ 0 \in 0..MaxFailures
      BY MigrationAssumption DEF None
    <2>3. legacy \in [DataFiles -> 0..MaxWrites + 1]
      BY <2>1, <2>2
    <2>4. migrating \in [Hosts -> Stages \cup {"off", "waiting", "running"}]
      BY DEF MigrationInit
    <2> QED BY <2>1, <2>2, <2>3, <2>4 DEF MigrationInit, MigrationTypeOK
  <1>2. OneMigrates /\ MarkerAtItsStep /\ BeforeCommit /\ StagedIsLegacy /\ AfterCommit
    BY DEF MigrationInit, OneMigrates, MarkerAtItsStep, BeforeCommit, StagedIsLegacy, AfterCommit,
           LockHolders, Stages, None
  <1> QED BY <1>1, <1>2 DEF MigrationInv

-----------------------------------------------------------------------------
(* Each step. *)

LEMMA LaunchKeeps ==
  ASSUME MigrationInv, NEW p \in Hosts, Launch(p)
  PROVE  MigrationInv'
  <1>1. ~marker => LegacyHasData
    BY LegacyNotEmpty
  <1>2. \/ marker /\ Settles(p, FALSE)
        \/ ~marker /\ Reaches(p, "waiting") /\ UNCHANGED fallback
    BY <1>1 DEF Launch
  <1>3. MigrationTypeOK'
    BY <1>2 DEF MigrationInv, MigrationTypeOK, Launch, Settles, Reaches, dataVars, Stages
  <1>4. LockHolders' \subseteq LockHolders
    BY <1>2 DEF MigrationInv, MigrationTypeOK, Launch, Settles, Reaches, LockHolders, Stages
  <1>5. (OneMigrates /\ MarkerAtItsStep /\ BeforeCommit /\ StagedIsLegacy /\ AfterCommit)'
    BY <1>2, <1>4
    DEF MigrationInv, MigrationTypeOK, OneMigrates, MarkerAtItsStep, BeforeCommit, StagedIsLegacy,
        AfterCommit, Launch, Settles, Reaches, dataVars, Nothing
  <1> QED BY <1>3, <1>5 DEF MigrationInv

LEMMA TakeMigrationLockKeeps ==
  ASSUME MigrationInv, NEW p \in Hosts, TakeMigrationLock(p)
  PROVE  MigrationInv'
  <1>1. \/ ~marker /\ Reaches(p, "copying") /\ UNCHANGED fallback
        \/ marker /\ Settles(p, FALSE)
    BY LegacyNotEmpty
    DEF TakeMigrationLock, Needed, MigrationInv, BeforeCommit, DestinationHasData
  <1>2. MigrationTypeOK'
    BY <1>1, VersionsAreKept
    DEF MigrationInv, MigrationTypeOK, TakeMigrationLock, Settles, Reaches, dataVars, Stages
  <1>3. LockHolders' \subseteq {p}
    BY <1>1 DEF MigrationInv, MigrationTypeOK, TakeMigrationLock, Settles, Reaches, LockHolders,
                Stages
  <1>4. \A q \in Hosts : migrating[q] \notin Stages
    BY DEF TakeMigrationLock, LockHolders
  <1>5. (OneMigrates /\ MarkerAtItsStep /\ BeforeCommit /\ StagedIsLegacy /\ AfterCommit)'
    BY <1>1, <1>3, <1>4
    DEF MigrationInv, MigrationTypeOK, OneMigrates, MarkerAtItsStep, BeforeCommit, StagedIsLegacy,
        AfterCommit, TakeMigrationLock, Settles, Reaches, dataVars, Nothing, Stages
  <1> QED BY <1>2, <1>5 DEF MigrationInv

\* A step of the lock holder that leaves the data alone.
LEMMA StageStepKeeps ==
  ASSUME MigrationInv, NEW p \in Hosts,
         \/ CopyToStage(p) \/ MarkIncomplete(p) \/ Commit(p) \/ Unmark(p) \/ RenameLegacy(p)
  PROVE  MigrationInv'
  <1>1. MigrationTypeOK'
    BY DEF MigrationInv, MigrationTypeOK, CopyToStage, MarkIncomplete, Commit, Unmark,
           RenameLegacy, Settles, Reaches, dataVars, Stages
  <1>2. /\ \A q \in LockHolders : q = p
        /\ LockHolders' \subseteq {p}
        /\ \A q \in Hosts \ {p} : migrating[q] \notin Stages /\ migrating'[q] = migrating[q]
    BY DEF MigrationInv, MigrationTypeOK, OneMigrates, CopyToStage, MarkIncomplete, Commit,
           Unmark, RenameLegacy, Settles, Reaches, LockHolders, Stages
  <1>3. (OneMigrates /\ MarkerAtItsStep)'
    BY <1>2
    DEF MigrationInv, MigrationTypeOK, OneMigrates, MarkerAtItsStep, CopyToStage, MarkIncomplete,
        Commit, Unmark, RenameLegacy, Settles, Reaches, dataVars, Stages
  <1>4. BeforeCommit'
    BY DEF MigrationInv, MigrationTypeOK, MarkerAtItsStep, BeforeCommit, CopyToStage,
           MarkIncomplete, Commit, Unmark, RenameLegacy, Settles, Reaches, dataVars, Nothing
  <1>5. StagedIsLegacy'
    BY <1>2
    DEF MigrationInv, MigrationTypeOK, StagedIsLegacy, CopyToStage, MarkIncomplete, Commit,
        Unmark, RenameLegacy, Settles, Reaches, dataVars, Stages
  <1>6. AfterCommit'
    <2>1. CASE Commit(p)
      <3>1. \A f \in DataFiles : staged[f] = None /\ legacy[f] \in {staged[f], dest[f]}
        BY <2>1 DEF Commit, Nothing, MigrationInv, StagedIsLegacy
      <3>2. legacy = wanted
        BY <2>1 DEF Commit, MigrationInv, MarkerAtItsStep, BeforeCommit
      <3> QED BY <2>1, <3>1, <3>2 DEF Commit, AfterCommit, dataVars
    <2>2. CASE ~Commit(p)
      BY <2>2 DEF MigrationInv, AfterCommit, CopyToStage, MarkIncomplete, Unmark, RenameLegacy,
                  dataVars
    <2> QED BY <2>1, <2>2
  <1> QED BY <1>1, <1>3, <1>4, <1>5, <1>6 DEF MigrationInv

LEMMA MoveIntoPlaceKeeps ==
  ASSUME MigrationInv, NEW p \in Hosts, NEW f \in DataFiles, MoveIntoPlace(p, f)
  PROVE  MigrationInv'
  <1>1. MigrationTypeOK'
    BY VersionsAreKept DEF MigrationInv, MigrationTypeOK, MoveIntoPlace
  <1>2. ~marker /\ incomplete
    BY DEF MigrationInv, MarkerAtItsStep, MoveIntoPlace
  <1>3. \A q \in LockHolders : q = p
    BY DEF MigrationInv, OneMigrates, MoveIntoPlace, LockHolders, Stages
  <1>4. StagedIsLegacy'
    BY <1>3
    DEF MigrationInv, MigrationTypeOK, StagedIsLegacy, MoveIntoPlace, LockHolders, Stages
  <1>5. (OneMigrates /\ MarkerAtItsStep /\ BeforeCommit /\ AfterCommit)'
    BY <1>2
    DEF MigrationInv, OneMigrates, MarkerAtItsStep, BeforeCommit, AfterCommit, MoveIntoPlace,
        LockHolders
  <1> QED BY <1>1, <1>4, <1>5 DEF MigrationInv

\* An operation raises, or the process dies.
LEMMA FaultKeeps ==
  ASSUME MigrationInv, NEW p \in Hosts, MigrationFails(p) \/ Dies(p)
  PROVE  MigrationInv'
  <1>1. MigrationTypeOK'
    BY MigrationAssumption, VersionsAreKept
    DEF MigrationInv, MigrationTypeOK, MigrationFails, Dies, Settles, Reaches, Unstages, dataVars,
        Stages
  <1>2. /\ LockHolders' = LockHolders \ {p}
        /\ \A q \in Hosts \ {p} : migrating'[q] = migrating[q]
        /\ migrating'[p] \notin Stages
    <2>1. \E where \in {"off", "running"} : migrating' = [migrating EXCEPT ![p] = where]
      BY DEF MigrationFails, Dies, Settles, Reaches
    <2>2. /\ \A q \in Hosts \ {p} : migrating'[q] = migrating[q]
          /\ migrating'[p] \notin Stages
      BY <2>1 DEF MigrationInv, MigrationTypeOK, Stages
    <2> QED BY <2>2 DEF LockHolders
  <1>3. p \in LockHolders => LockHolders' = {}
    BY <1>2 DEF MigrationInv, OneMigrates
  <1>4. (OneMigrates /\ MarkerAtItsStep)'
    <2>1. OneMigrates'
      BY <1>2 DEF MigrationInv, OneMigrates
    <2>2. UNCHANGED <<marker, incomplete>>
      BY DEF MigrationFails, Dies
    <2> QED BY <1>2, <2>1, <2>2 DEF MigrationInv, MarkerAtItsStep, Stages
  <1>5. StagedIsLegacy'
    <2>1. CASE p \in LockHolders
      BY <1>3, <2>1 DEF StagedIsLegacy, LockHolders, Stages
    <2>2. CASE p \notin LockHolders
      BY <1>2, <2>2
      DEF MigrationInv, StagedIsLegacy, MigrationFails, Dies, Unstages, dataVars, Stages
    <2> QED BY <2>1, <2>2
  <1>6. (BeforeCommit /\ AfterCommit)'
    BY DEF MigrationInv, MigrationTypeOK, BeforeCommit, AfterCommit, MigrationFails, Dies,
           Settles, Reaches, dataVars, Nothing
  <1> QED BY <1>1, <1>4, <1>5, <1>6 DEF MigrationInv

\* A running process writes or clears where it reads.
LEMMA PutKeeps ==
  ASSUME MigrationInv, NEW p \in Hosts, NEW f \in DataFiles, CanWrite(p),
         NEW version \in 0..MaxWrites + 1, version = None => f \in Clearable,
         Put(p, f, version)
  PROVE  MigrationInv'
  <1>1. MigrationTypeOK'
    BY MigrationAssumption DEF MigrationInv, MigrationTypeOK, CanWrite, Put
  <1>2. \/ /\ ~marker /\ LockHolders = {} /\ UNCHANGED dest
           /\ legacy' = [legacy EXCEPT ![f] = version]
        \/ /\ marker /\ UNCHANGED legacy
           /\ dest' = [dest EXCEPT ![f] = version]
    BY DEF MigrationInv, BeforeCommit, CanWrite, Put, UsesLegacy
  <1>3. (OneMigrates /\ MarkerAtItsStep)'
    BY DEF MigrationInv, OneMigrates, MarkerAtItsStep, Put, LockHolders
  <1>4. BeforeCommit'
    BY <1>2 DEF MigrationInv, MigrationTypeOK, BeforeCommit, Put, Nothing
  <1>5. StagedIsLegacy'
    <2>1. \A q \in Hosts : migrating[q] \notin {"marking", "moving"}
      BY <1>2 DEF MigrationInv, MarkerAtItsStep, LockHolders, Stages
    <2>2. CASE marker
      BY <2>2, <1>2 DEF MigrationInv, MarkerAtItsStep, StagedIsLegacy, Put
    <2> QED BY <2>1 DEF StagedIsLegacy, Put
  <1>6. AfterCommit'
    BY <1>2 DEF MigrationInv, MigrationTypeOK, AfterCommit, Put
  <1> QED BY <1>1, <1>3, <1>4, <1>5, <1>6 DEF MigrationInv

LEMMA NextKeepsMigrationInv == MigrationInv /\ [MigrationNext]_migrationVars => MigrationInv'
  <1> SUFFICES ASSUME MigrationInv, [MigrationNext]_migrationVars PROVE MigrationInv'
    OBVIOUS
  <1>1. CASE UNCHANGED migrationVars
    BY <1>1 DEF migrationVars, MigrationInv, MigrationTypeOK, OneMigrates, MarkerAtItsStep,
                BeforeCommit, StagedIsLegacy, AfterCommit, LockHolders
  <1>2. ASSUME NEW p \in Hosts, NEW f \in DataFiles, WriteFile(p, f)
        PROVE  MigrationInv'
    BY <1>2, PutKeeps, VersionsAreKept
    DEF WriteFile, CanWrite, MigrationInv, MigrationTypeOK
  <1>3. ASSUME NEW p \in Hosts, NEW f \in DataFiles, ClearFile(p, f)
        PROVE  MigrationInv'
    BY <1>3, PutKeeps, VersionsAreKept DEF ClearFile
  <1> QED
    BY <1>1, <1>2, <1>3, LaunchKeeps, TakeMigrationLockKeeps, StageStepKeeps, MoveIntoPlaceKeeps,
       FaultKeeps
    DEF MigrationNext

-----------------------------------------------------------------------------
LEMMA MigrationInvHolds == MigrationSpec => []MigrationInv
  BY InitiallyMigrationInv, NextKeepsMigrationInv, PTL DEF MigrationSpec

\* A running process finds every file that was written last where it looks, for any number of
\* processes and files, whichever migrations died or failed before the one that committed
\* (journal.migrate_legacy_journal_dir, journal_dir).
THEOREM WrittenDataIsRead == MigrationSpec => []WrittenIsRead
  <1>1. MigrationInv => WrittenIsRead
    BY DEF MigrationInv, BeforeCommit, AfterCommit, WrittenIsRead, StoreOf, UsesLegacy
  <1> QED BY <1>1, MigrationInvHolds, PTL

\* Every variable of the migration keeps its type.
THEOREM MigrationTypesHold == MigrationSpec => []MigrationTypeOK
  <1>1. MigrationInv => MigrationTypeOK
    BY DEF MigrationInv
  <1> QED BY InitiallyMigrationInv, NextKeepsMigrationInv, <1>1, PTL DEF MigrationSpec
=============================================================================
