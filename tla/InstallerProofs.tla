---------------------------- MODULE InstallerProofs ----------------------------
(***************************************************************************)
(* However often the installer runs, wherever it stops and whatever the     *)
(* user does between its runs, the host and the memory limit can be put     *)
(* back.  The argument is about two records: the one on disk and the one    *)
(* the running installer builds.  Both know the first backup as soon as a   *)
(* target was changed, and the raise as soon as the limit was raised.       *)
(***************************************************************************)
EXTENDS Installer, TLAPS

InstallerTypes ==
  /\ hostFile \in [Files -> Contents] /\ original \in [Files -> Contents]
  /\ limit \in UserLimits \cup {Floor} /\ userLimit \in UserLimits
  /\ plugged \in BOOLEAN /\ touched \in BOOLEAN
  /\ record \in Records /\ mem \in Records
  /\ zips \in Seq([Files -> Contents]) /\ Len(zips) <= MaxZips
  /\ doing \in {"idle", "backup", "clear", "apply", "plugin", "copy", "limit", "raise",
                "restore", "lower", "rolled_back"}

\* Only a file the patch creates can be missing.
OnlyCreatedMissing ==
  \A f \in Files : hostFile[f] = "absent" \/ original[f] = "absent" => f \in CreatedFiles

\* A record that names a backup names the one with the targets as they first were.
Backed(m) ==
  /\ m.created \subseteq CreatedFiles
  /\ m.backup # 0 =>
       /\ m.backup \in DOMAIN zips /\ zips[m.backup] = original
       /\ {f \in CreatedFiles : original[f] = "absent"} \subseteq m.created

\* The way back from a raise is a number of the user's below the floor.
WayBack(m) ==
  m.limit.raised => m.limit.previous \in UserLimits /\ m.limit.previous < Floor

\* What is on disk, unless a death tore it.
RecordKnows ==
  record.state # "torn" =>
    /\ Backed(record) /\ (touched => record.backup # 0)
    /\ limit = Floor /\ userLimit # Floor => record.limit.raised
    /\ WayBack(record)
    /\ record.state = "absent" => record = NoRecord

\* What the running installer has in memory.
MemKnows ==
  doing # "idle" =>
    /\ record.state # "torn" /\ mem.state = "kept"
    /\ Backed(mem) /\ (touched => mem.backup # 0)
    /\ limit = Floor /\ userLimit # Floor => mem.limit.raised
    /\ WayBack(mem)

\* The host is touched after the backup is on record, the limit after its way back is.
RecordedFirst ==
  /\ doing \in {"clear", "apply"} => mem.backup # 0 /\ record.backup # 0
  /\ doing = "raise" => mem.limit.raised /\ record.limit.raised

\* A rollback goes by what is on disk, one thing after the other.
RollingBack ==
  /\ doing \in {"restore", "lower", "rolled_back"} => mem = record
  /\ doing \in {"lower", "rolled_back"} => \A f \in Files : hostFile[f] = Restored(f)
  /\ doing = "rolled_back" /\ limit = Floor => userLimit = Floor

InstallerInv ==
  /\ InstallerTypes /\ OnlyCreatedMissing
  /\ RecordKnows /\ MemKnows /\ RecordedFirst /\ RollingBack

-----------------------------------------------------------------------------
(* Records. *)

LEMMA FixedRecords ==
  /\ Empty \in Records /\ NoRecord \in Records /\ Torn \in Records
  /\ Empty.state = "kept" /\ NoRecord.state = "absent" /\ Torn.state = "torn"
  /\ Empty.backup = 0 /\ NoRecord.backup = 0
  /\ Empty.created = {} /\ NoRecord.created = {}
  /\ ~Empty.limit.raised /\ ~NoRecord.limit.raised
  <1>1. NotRaised \in [raised : BOOLEAN, previous : UserLimits \cup {0, Floor}]
        /\ ~NotRaised.raised
    BY DEF NotRaised
  <1>2. 0 \in 0..MaxZips
    BY InstallerAssumption
  <1>3. Empty \in Records
    BY <1>1, <1>2 DEF Empty, Records
  <1>4. /\ Empty.state = "kept" /\ Empty.backup = 0 /\ Empty.created = {}
        /\ Empty.limit = NotRaised
    BY DEF Empty
  <1>5. /\ NoRecord \in Records /\ NoRecord.state = "absent" /\ NoRecord.backup = 0
        /\ NoRecord.created = {} /\ NoRecord.limit = NotRaised
    BY <1>3, <1>4 DEF NoRecord, Records
  <1>6. Torn \in Records /\ Torn.state = "torn"
    BY <1>3 DEF Torn, Records
  <1> QED BY <1>1, <1>3, <1>4, <1>5, <1>6

\* A record that is changed in one thing.
LEMMA ChangedPlugin ==
  ASSUME NEW m \in Records, NEW v \in BOOLEAN, NEW n, n = [m EXCEPT !.plugin = v]
  PROVE  /\ n \in Records /\ n.state = m.state /\ n.backup = m.backup
         /\ n.created = m.created /\ n.limit = m.limit
  BY DEF Records

LEMMA ChangedLimit ==
  ASSUME NEW m \in Records,
         NEW l \in [raised : BOOLEAN, previous : UserLimits \cup {0, Floor}],
         NEW n, n = [m EXCEPT !.limit = l]
  PROVE  /\ n \in Records /\ n.state = m.state /\ n.backup = m.backup
         /\ n.created = m.created /\ n.limit = l
  BY DEF Records

\* The process goes on with m, or is gone.
LEMMA Proceeding ==
  ASSUME NEW m, NEW then, Proceeds(m, then)
  PROVE  \/ then # "idle" /\ doing' = then /\ mem' = m
         \/ then = "idle" /\ doing' = "idle" /\ mem' = Empty
  BY DEF Proceeds

\* A write of the record: it has m, or nothing that parses and the process is gone.
LEMMA Persisting ==
  ASSUME NEW m, NEW then, Persist(m, then)
  PROVE  \/ record' = m /\ then # "idle" /\ doing' = then /\ mem' = m
         \/ record' = m /\ then = "idle" /\ doing' = "idle" /\ mem' = Empty
         \/ record' = Torn /\ doing' = "idle" /\ mem' = Empty
  BY DEF Persist, Proceeds

\* The record as an install finds it knows what the one on disk knows.
LEMMA CarriedKnows ==
  ASSUME InstallerInv, record.state # "torn"
  PROVE  /\ Carried \in Records /\ Carried.state = "kept"
         /\ Carried.backup = record.backup /\ Carried.created = record.created
         /\ Carried.limit = record.limit
  <1>1. record.state \in {"absent", "kept"}
    BY DEF InstallerInv, InstallerTypes, Records
  <1>2. CASE record = NoRecord
    BY <1>2, FixedRecords DEF Carried, Empty, NoRecord
  <1>3. CASE record # NoRecord
    <2>1. record.state = "kept"
      BY <1>1, <1>3 DEF InstallerInv, RecordKnows
    <2>2. record.plugin \in BOOLEAN
      BY DEF InstallerInv, InstallerTypes, Records
    <2>3. Carried = [record EXCEPT !.plugin = record.plugin /\ plugged]
      BY <1>3 DEF Carried
    <2>4. record \in Records /\ (record.plugin /\ plugged) \in BOOLEAN
      BY <2>2 DEF InstallerInv, InstallerTypes
    <2> QED BY <2>1, <2>3, <2>4, ChangedPlugin
  <1> QED BY <1>2, <1>3

-----------------------------------------------------------------------------
LEMMA InitiallyInstallerInv == InstallerInit => InstallerInv
  <1> SUFFICES ASSUME InstallerInit PROVE InstallerInv
    OBVIOUS
  <1>1. hostFile \in [Files -> Contents]
        /\ \A f \in Files : hostFile[f] \in {AtHead(f), "patched", "old"}
    BY DEF InstallerInit
  <1>2. InstallerTypes
    <2>1. zips \in Seq([Files -> Contents]) /\ Len(zips) = 0
      BY DEF InstallerInit
    <2>2. Len(zips) <= MaxZips
      BY <2>1, InstallerAssumption
    <2>3. limit \in UserLimits /\ userLimit \in UserLimits
      BY DEF InstallerInit
    <2> QED BY <1>1, <2>1, <2>2, <2>3, FixedRecords DEF InstallerInit, InstallerTypes
  <1>3. OnlyCreatedMissing
    BY <1>1 DEF InstallerInit, OnlyCreatedMissing, AtHead
  <1>4. RecordKnows
    BY FixedRecords DEF InstallerInit, RecordKnows, Backed, WayBack
  <1>5. MemKnows /\ RecordedFirst /\ RollingBack
    BY DEF InstallerInit, MemKnows, RecordedFirst, RollingBack
  <1> QED BY <1>2, <1>3, <1>4, <1>5 DEF InstallerInv

-----------------------------------------------------------------------------
(* The steps of an install. *)

LEMMA StartInstallKeeps ==
  ASSUME InstallerInv, NEW m \in InstallModes, StartInstall(m)
  PROVE  InstallerInv'
  <1>1. FirstStep(m) \in {"plugin", "limit", "backup"}
    BY DEF StartInstall, FirstStep, InstallModes
  <1>2. record.state # "torn"
    BY DEF StartInstall
  <1>3. InstallerTypes'
    BY <1>1, <1>2, CarriedKnows
    DEF StartInstall, checkoutVars, InstallerInv, InstallerTypes
  <1>4. (OnlyCreatedMissing /\ RecordKnows /\ RecordedFirst /\ RollingBack)'
    BY <1>1
    DEF StartInstall, checkoutVars, InstallerInv, OnlyCreatedMissing, RecordKnows, RecordedFirst,
        RollingBack, Backed, WayBack
  <1>5. MemKnows'
    BY <1>2, CarriedKnows
    DEF StartInstall, checkoutVars, InstallerInv, RecordKnows, MemKnows, Backed, WayBack
  <1> QED BY <1>3, <1>4, <1>5 DEF InstallerInv

\* The backup is on record before the host is touched; a repeated install keeps the first.
LEMMA RecordHostBackupKeeps ==
  ASSUME InstallerInv, RecordHostBackup
  PROVE  InstallerInv'
  <1> DEFINE kept == RestoreTarget(Len(zips) + 1)
             m == [mem EXCEPT !.backup = kept, !.created = Created]
             then == IF MarkedFiles # {} THEN "clear" ELSE "apply"
  <1>1. /\ doing = "backup" /\ record.state # "torn" /\ mem.state = "kept"
        /\ Backed(mem) /\ (touched => mem.backup # 0)
        /\ (limit = Floor /\ userLimit # Floor => mem.limit.raised)
        /\ WayBack(mem)
    BY DEF RecordHostBackup, InstallerInv, MemKnows
  <1>2. /\ mem \in Records /\ mem.backup \in 0..MaxZips /\ mem.created \in SUBSET Files
        /\ Len(zips) \in Nat /\ Len(zips) < MaxZips /\ DOMAIN zips = 1..Len(zips)
        /\ hostFile \in [Files -> Contents] /\ zips \in Seq([Files -> Contents])
    BY DEF RecordHostBackup, InstallerInv, InstallerTypes, Records
  <1>3. kept \in 1..MaxZips /\ Created \in SUBSET CreatedFiles
    BY <1>1, <1>2, InstallerAssumption DEF RestoreTarget, Created, Backed
  <1>4. /\ m \in Records /\ m.state = "kept" /\ m.backup = kept /\ m.created = Created
        /\ m.limit = mem.limit
    <2>1. kept \in 0..MaxZips /\ Created \in SUBSET Files
      BY <1>3, InstallerAssumption
    <2>2. m = [mem EXCEPT !.backup = kept, !.created = Created]
      OBVIOUS
    <2> HIDE DEF m, kept
    <2>3. mem \in Records /\ mem.state = "kept"
      BY <1>1, <1>2
    <2> QED BY <2>1, <2>2, <2>3 DEF Records
  <1>5. zips' = Append(zips, hostFile) /\ DOMAIN zips' = 1..Len(zips) + 1
        /\ zips'[Len(zips) + 1] = hostFile /\ \A i \in DOMAIN zips : zips'[i] = zips[i]
    BY <1>2 DEF RecordHostBackup
  <1>6. Persist(m, then) /\ then \in {"clear", "apply"}
    BY DEF RecordHostBackup
  <1>7. \/ record' = m /\ doing' = then /\ mem' = m
        \/ record' = Torn /\ doing' = "idle" /\ mem' = Empty
    BY <1>6, Persisting
  <1>8. UNCHANGED <<hostFile, touched, limit, plugged, userLimit>>
        /\ original' = IF mem.backup = 0 THEN hostFile ELSE original
    BY DEF RecordHostBackup
  <1>9. /\ m.backup \in DOMAIN zips' /\ zips'[m.backup] = original'
        /\ {f \in CreatedFiles : original'[f] = "absent"} \subseteq m.created
    BY <1>1, <1>2, <1>4, <1>5, <1>8 DEF Backed, RestoreTarget, Created
  <1> HIDE DEF m, then
  <1>10. InstallerTypes'
    <2>1. /\ record' \in Records /\ mem' \in Records
          /\ doing' \in {"idle", "clear", "apply"}
      BY <1>4, <1>6, <1>7, FixedRecords
    <2>2. zips' \in Seq([Files -> Contents]) /\ Len(zips') = Len(zips) + 1
      BY <1>2, <1>5
    <2>3. Len(zips') <= MaxZips
      BY <1>2, <2>2, InstallerAssumption
    <2>4. original' \in [Files -> Contents]
      BY <1>8 DEF InstallerInv, InstallerTypes
    <2> QED BY <1>8, <2>1, <2>2, <2>3, <2>4 DEF InstallerInv, InstallerTypes
  <1>11. OnlyCreatedMissing'
    BY <1>8 DEF InstallerInv, OnlyCreatedMissing
  <1>12. (RecordKnows /\ MemKnows)'
    BY <1>1, <1>3, <1>4, <1>6, <1>7, <1>8, <1>9, FixedRecords DEF RecordKnows, MemKnows, Backed, WayBack
  <1>13. (RecordedFirst /\ RollingBack)'
    BY <1>3, <1>4, <1>6, <1>7 DEF RecordedFirst, RollingBack
  <1> QED BY <1>10, <1>11, <1>12, <1>13 DEF InstallerInv

\* A target is written during an install.
LEMMA WriteTargetKeeps ==
  ASSUME InstallerInv, NEW f \in Files, ReturnToHead(f) \/ ApplyPatch(f)
  PROVE  InstallerInv'
  <1>1. /\ doing \in {"clear", "apply"} /\ touched' = TRUE
        /\ \E content \in {AtHead(f), "patched"} :
             hostFile' = [hostFile EXCEPT ![f] = content]
        /\ UNCHANGED <<limit, plugged, record, zips, doing, mem, original, userLimit>>
    BY DEF ReturnToHead, ApplyPatch, Replace
  <1>2. AtHead(f) \in Contents /\ (AtHead(f) = "absent" => f \in CreatedFiles)
    BY DEF AtHead, Contents
  <1>3. InstallerTypes'
    BY <1>1, <1>2 DEF InstallerInv, InstallerTypes, Contents
  <1>4. OnlyCreatedMissing'
    BY <1>1, <1>2 DEF InstallerInv, InstallerTypes, OnlyCreatedMissing
  <1>5. (RecordKnows /\ MemKnows)'
    BY <1>1 DEF InstallerInv, RecordKnows, MemKnows, RecordedFirst, Backed, WayBack
  <1>6. (RecordedFirst /\ RollingBack)'
    BY <1>1 DEF InstallerInv, RecordedFirst, RollingBack
  <1> QED BY <1>3, <1>4, <1>5, <1>6 DEF InstallerInv

\* The installer goes on to its next step, and nothing else happens.
LEMMA GoOnKeeps ==
  ASSUME InstallerInv, Cleared \/ PatchVerified
  PROVE  InstallerInv'
  <1>1. /\ doing \in {"clear", "apply"} /\ doing' \in {"apply", "plugin", "limit"}
        /\ UNCHANGED <<hostFile, original, touched, limit, plugged, record, zips, mem,
                       userLimit>>
    BY DEF Cleared, PatchVerified, checkoutVars
  <1>2. InstallerTypes' /\ OnlyCreatedMissing'
    BY <1>1 DEF InstallerInv, InstallerTypes, OnlyCreatedMissing
  <1>3. (RecordKnows /\ MemKnows /\ RecordedFirst /\ RollingBack)'
    BY <1>1 DEF InstallerInv, RecordKnows, MemKnows, RecordedFirst, RollingBack, Backed, WayBack
  <1> QED BY <1>2, <1>3 DEF InstallerInv

\* A run ends without another word; a patch that failed is reversed first.
LEMMA EndRunKeeps ==
  ASSUME InstallerInv, PatchReversed \/ Stop
  PROVE  InstallerInv'
  <1>1. /\ doing' = "idle" /\ mem' = Empty
        /\ UNCHANGED <<original, touched, limit, plugged, record, zips, userLimit>>
        /\ hostFile' \in {hostFile, [f \in Files |-> AtHead(f)]}
    BY Proceeding DEF PatchReversed, Stop, checkoutVars
  <1>2. InstallerTypes'
    BY <1>1, FixedRecords DEF InstallerInv, InstallerTypes, AtHead, Contents
  <1>3. OnlyCreatedMissing'
    BY <1>1 DEF InstallerInv, OnlyCreatedMissing, AtHead
  <1>4. (RecordKnows /\ MemKnows /\ RecordedFirst /\ RollingBack)'
    BY <1>1 DEF InstallerInv, RecordKnows, MemKnows, RecordedFirst, RollingBack, Backed, WayBack
  <1> QED BY <1>2, <1>3, <1>4 DEF InstallerInv

\* The record is written with what the installer has done besides, or is about to do.
LEMMA RecordKeeps ==
  ASSUME InstallerInv, NEW m \in Records, NEW then \in {"idle", "copy", "limit", "raise"},
         doing # "idle", Persist(m, then),
         m.state = "kept", m.backup = mem.backup, m.created = mem.created,
         WayBack(m),
         limit' = Floor /\ userLimit # Floor => m.limit.raised,
         then = "raise" => m.limit.raised,
         limit' \in {limit, Floor}, plugged' \in BOOLEAN,
         UNCHANGED <<hostFile, original, touched, zips, userLimit>>
  PROVE  InstallerInv'
  <1>1. \/ record' = m /\ then # "idle" /\ doing' = then /\ mem' = m
        \/ record' = m /\ then = "idle" /\ doing' = "idle" /\ mem' = Empty
        \/ record' = Torn /\ doing' = "idle" /\ mem' = Empty
    BY Persisting
  <1>2. InstallerTypes' /\ OnlyCreatedMissing'
    BY <1>1, FixedRecords DEF InstallerInv, InstallerTypes, OnlyCreatedMissing
  <1>3. Backed(m)' /\ (touched => m.backup # 0)
    BY DEF InstallerInv, MemKnows, Backed
  <1>4. (RecordKnows /\ MemKnows)'
    BY <1>1, <1>3, FixedRecords DEF RecordKnows, MemKnows, Backed, WayBack
  <1>5. (RecordedFirst /\ RollingBack)'
    BY <1>1 DEF RecordedFirst, RollingBack
  <1> QED BY <1>2, <1>4, <1>5 DEF InstallerInv

LEMMA RecordPluginKeeps ==
  ASSUME InstallerInv, RecordPlugin
  PROVE  InstallerInv'
  <1>1. /\ doing # "idle" /\ Persist([mem EXCEPT !.plugin = TRUE], "copy")
        /\ UNCHANGED <<hostFile, original, touched, limit, plugged, zips, userLimit>>
    BY DEF RecordPlugin, checkoutVars
  <1>2. mem \in Records /\ plugged \in BOOLEAN
    BY DEF InstallerInv, InstallerTypes
  <1>3. /\ mem.state = "kept" /\ WayBack(mem)
        /\ (limit = Floor /\ userLimit # Floor => mem.limit.raised)
    BY <1>1 DEF InstallerInv, MemKnows
  <1> DEFINE m == [mem EXCEPT !.plugin = TRUE]
  <1>4. /\ m \in Records /\ m.state = mem.state /\ m.backup = mem.backup
        /\ m.created = mem.created /\ m.limit = mem.limit
    BY <1>2, ChangedPlugin
  <1>5. Persist(m, "copy")
    BY <1>1
  <1> HIDE DEF m
  <1>6. WayBack(m)
    BY <1>3, <1>4 DEF WayBack
  <1> QED BY <1>1, <1>2, <1>3, <1>4, <1>5, <1>6, RecordKeeps

LEMMA InstallPluginKeeps ==
  ASSUME InstallerInv, InstallPlugin
  PROVE  InstallerInv'
  BY RecordKeeps DEF InstallPlugin, checkoutVars, InstallerInv, InstallerTypes, MemKnows

\* An earlier raise stays on record; the way back of a new one is below the floor.
LEMMA LimitEntryKnows ==
  ASSUME InstallerInv, doing # "idle"
  PROVE  /\ LimitEntry \in [raised : BOOLEAN, previous : UserLimits \cup {0, Floor}]
         /\ LimitEntry.raised =>
              LimitEntry.previous \in UserLimits /\ LimitEntry.previous < Floor
         /\ limit < Floor \/ mem.limit.raised => LimitEntry.raised
  <1>1. /\ limit \in UserLimits \cup {Floor} /\ Floor \in Nat /\ UserLimits \subseteq Nat
        /\ mem.limit \in [raised : BOOLEAN, previous : UserLimits \cup {0, Floor}]
    BY InstallerAssumption DEF InstallerInv, InstallerTypes, Records
  <1>2. CASE mem.limit.raised
    BY <1>1, <1>2 DEF LimitEntry, InstallerInv, MemKnows, WayBack
  <1>3. CASE ~mem.limit.raised
    <2>1. LimitEntry = [raised |-> limit < Floor, previous |-> limit]
      BY <1>3 DEF LimitEntry
    <2>2. limit < Floor => limit \in UserLimits
      BY <1>1
    <2>3. LimitEntry.raised = (limit < Floor) /\ LimitEntry.previous = limit
      BY <2>1
    <2>4. LimitEntry \in [raised : BOOLEAN, previous : UserLimits \cup {0, Floor}]
      BY <1>1, <2>1
    <2> QED BY <1>3, <2>2, <2>3, <2>4
  <1> QED BY <1>2, <1>3

LEMMA RecordLimitKeeps ==
  ASSUME InstallerInv, RecordLimit
  PROVE  InstallerInv'
  <1> DEFINE m == [mem EXCEPT !.limit = LimitEntry]
             then == IF limit < Floor THEN "raise" ELSE "idle"
  <1>1. /\ doing # "idle" /\ Persist(m, then)
        /\ UNCHANGED <<hostFile, original, touched, limit, plugged, zips, userLimit>>
    BY DEF RecordLimit, checkoutVars
  <1>2. /\ mem \in Records /\ mem.state = "kept" /\ plugged \in BOOLEAN
        /\ (limit = Floor /\ userLimit # Floor => mem.limit.raised)
    BY <1>1 DEF InstallerInv, InstallerTypes, MemKnows
  <1>3. /\ m \in Records /\ m.state = "kept" /\ m.backup = mem.backup
        /\ m.created = mem.created /\ m.limit = LimitEntry
    BY <1>1, <1>2, LimitEntryKnows, ChangedLimit
  <1>4. then = "raise" => limit < Floor
    OBVIOUS
  <1>5. then \in {"idle", "copy", "limit", "raise"}
    OBVIOUS
  <1>6. limit < Floor \/ mem.limit.raised => LimitEntry.raised
    BY <1>1, LimitEntryKnows
  <1> HIDE DEF m, then
  <1>7. WayBack(m)
    BY <1>1, <1>3, LimitEntryKnows DEF WayBack
  <1>8. /\ (limit = Floor /\ userLimit # Floor => m.limit.raised)
        /\ (then = "raise" => m.limit.raised)
    BY <1>2, <1>3, <1>4, <1>6
  <1> QED BY <1>1, <1>2, <1>3, <1>5, <1>7, <1>8, RecordKeeps

LEMMA RaiseLimitKeeps ==
  ASSUME InstallerInv, RaiseLimit
  PROVE  InstallerInv'
  BY RecordKeeps
  DEF RaiseLimit, checkoutVars, InstallerInv, InstallerTypes, MemKnows, RecordedFirst

-----------------------------------------------------------------------------
(* The steps of a rollback. *)

LEMMA BeginRollbackKeeps ==
  ASSUME InstallerInv, NEW m, BeginRollback(m)
  PROVE  InstallerInv'
  <1>1. /\ record.state = "kept" /\ doing' = "restore" /\ mem' = record
        /\ UNCHANGED <<hostFile, original, touched, limit, plugged, record, zips, userLimit>>
    BY DEF BeginRollback, checkoutVars
  <1>2. InstallerTypes' /\ OnlyCreatedMissing'
    BY <1>1 DEF InstallerInv, InstallerTypes, OnlyCreatedMissing
  <1>3. (RecordKnows /\ MemKnows /\ RecordedFirst /\ RollingBack)'
    BY <1>1 DEF InstallerInv, RecordKnows, MemKnows, RecordedFirst, RollingBack, Backed, WayBack
  <1> QED BY <1>2, <1>3 DEF InstallerInv

\* A target is changed only where there is a backup.
LEMMA RestoreHostKeeps ==
  ASSUME InstallerInv, NEW f \in Files, RestoreHost(f)
  PROVE  InstallerInv'
  <1>1. /\ doing = "restore" /\ touched' = TRUE /\ mem.backup # 0
        /\ hostFile' = [hostFile EXCEPT ![f] = Restored(f)]
        /\ UNCHANGED <<limit, plugged, record, zips, doing, mem, original, userLimit>>
    BY DEF RestoreHost, Replace, Restored
  <1>2. mem = record /\ Backed(mem) /\ mem.backup \in DOMAIN zips
    BY <1>1 DEF InstallerInv, RollingBack, MemKnows, Backed
  <1>3. zips[mem.backup] \in [Files -> Contents]
    BY <1>2 DEF InstallerInv, InstallerTypes
  <1>4. /\ Restored(f) \in Contents
        /\ Restored(f) = "absent" => f \in CreatedFiles
    BY <1>1, <1>2, <1>3
    DEF InstallerInv, InstallerTypes, OnlyCreatedMissing, Restored, FromZip, Contents, Backed
  <1>5. InstallerTypes' /\ OnlyCreatedMissing'
    BY <1>1, <1>4 DEF InstallerInv, InstallerTypes, OnlyCreatedMissing
  <1>6. (RecordKnows /\ MemKnows /\ RecordedFirst)'
    BY <1>1, <1>2 DEF InstallerInv, RecordKnows, MemKnows, RecordedFirst, Backed, WayBack
  <1>7. RollingBack'
    BY <1>1, <1>2 DEF RollingBack
  <1> QED BY <1>5, <1>6, <1>7 DEF InstallerInv

LEMMA RemovePluginKeeps ==
  ASSUME InstallerInv, RemovePlugin
  PROVE  InstallerInv'
  <1>1. /\ doing = "restore" /\ doing' = "lower" /\ plugged' \in {FALSE, plugged}
        /\ \A f \in Files : hostFile[f] = Restored(f)
        /\ UNCHANGED <<hostFile, original, touched, limit, record, zips, mem, userLimit>>
    BY DEF RemovePlugin, checkoutVars
  <1>2. InstallerTypes' /\ OnlyCreatedMissing'
    BY <1>1 DEF InstallerInv, InstallerTypes, OnlyCreatedMissing
  <1>3. (RecordKnows /\ MemKnows /\ RecordedFirst)'
    BY <1>1 DEF InstallerInv, RecordKnows, MemKnows, RecordedFirst, Backed, WayBack
  <1>4. RollingBack'
    BY <1>1 DEF InstallerInv, RollingBack, Restored, FromZip
  <1> QED BY <1>2, <1>3, <1>4 DEF InstallerInv

LEMMA LowerLimitKeeps ==
  ASSUME InstallerInv, LowerLimit
  PROVE  InstallerInv'
  <1>1. /\ doing = "lower" /\ doing' = "rolled_back" /\ mem = record
        /\ limit' = IF mem.limit.raised /\ limit = Floor THEN mem.limit.previous ELSE limit
        /\ UNCHANGED <<hostFile, original, touched, plugged, record, zips, mem, userLimit>>
    BY DEF LowerLimit, checkoutVars, InstallerInv, RollingBack
  <1>2. /\ (mem.limit.raised => mem.limit.previous \in UserLimits
                                /\ mem.limit.previous < Floor)
        /\ (limit = Floor /\ userLimit # Floor => mem.limit.raised)
    BY <1>1 DEF InstallerInv, MemKnows, WayBack
  <1>3. /\ mem.limit.raised \in BOOLEAN /\ mem.limit.previous \in UserLimits \cup {0, Floor}
        /\ Floor \in Nat /\ UserLimits \subseteq Nat
    BY InstallerAssumption DEF InstallerInv, InstallerTypes, Records
  <1>4. limit' = Floor => userLimit = Floor
    <2>1. mem.limit.raised => mem.limit.previous # Floor
      BY <1>2, <1>3
    <2> QED BY <1>1, <1>2, <2>1
  <1>5. InstallerTypes' /\ OnlyCreatedMissing'
    <2>1. limit \in UserLimits \cup {Floor}
      BY DEF InstallerInv, InstallerTypes
    <2>2. limit' \in UserLimits \cup {Floor}
      BY <1>1, <1>2, <2>1
    <2> QED BY <1>1, <2>2 DEF InstallerInv, InstallerTypes, OnlyCreatedMissing
  <1>6. (RecordKnows /\ MemKnows /\ RecordedFirst)'
    BY <1>1, <1>4 DEF InstallerInv, RecordKnows, MemKnows, RecordedFirst, Backed, WayBack
  <1>7. RollingBack'
    BY <1>1, <1>4 DEF InstallerInv, RollingBack, Restored, FromZip
  <1> QED BY <1>5, <1>6, <1>7 DEF InstallerInv

LEMMA EndRollbackKeeps ==
  ASSUME InstallerInv, EndRollback
  PROVE  InstallerInv'
  <1>1. /\ doing = "rolled_back" /\ doing' = "idle" /\ mem' = Empty
        /\ UNCHANGED <<hostFile, original, limit, plugged, zips, userLimit>>
        /\ \/ UNCHANGED <<record, touched>>
           \/ record' = NoRecord /\ touched' = FALSE
    BY Proceeding DEF EndRollback
  <1>2. limit = Floor => userLimit = Floor
    BY <1>1 DEF InstallerInv, RollingBack
  <1>3. InstallerTypes' /\ OnlyCreatedMissing'
    BY <1>1, FixedRecords DEF InstallerInv, InstallerTypes, OnlyCreatedMissing
  <1>4. RecordKnows'
    BY <1>1, <1>2, FixedRecords DEF InstallerInv, RecordKnows, Backed, WayBack
  <1>5. (MemKnows /\ RecordedFirst /\ RollingBack)'
    BY <1>1 DEF MemKnows, RecordedFirst, RollingBack
  <1> QED BY <1>3, <1>4, <1>5 DEF InstallerInv

\* What the user does between two runs.
LEMMA UserKeeps ==
  ASSUME InstallerInv, UserStep
  PROVE  InstallerInv'
  <1>1. /\ doing = "idle" /\ UNCHANGED <<original, touched, plugged, record, zips, doing, mem>>
        /\ \/ /\ UNCHANGED <<limit, userLimit>>
              /\ \E f \in Files : \E content \in {"edited", AtHead(f)} :
                   hostFile' = [hostFile EXCEPT ![f] = content]
           \/ /\ UNCHANGED hostFile
              /\ \E n \in UserLimits : limit' = n /\ userLimit' = n
    BY DEF UserStep, EditHost, CheckOut, SetLimit, checkoutVars
  <1>2. InstallerTypes' /\ OnlyCreatedMissing'
    BY <1>1 DEF InstallerInv, InstallerTypes, OnlyCreatedMissing, AtHead, Contents
  <1>3. (RecordKnows /\ MemKnows /\ RecordedFirst /\ RollingBack)'
    BY <1>1 DEF InstallerInv, RecordKnows, MemKnows, RecordedFirst, RollingBack, Backed, WayBack
  <1> QED BY <1>2, <1>3 DEF InstallerInv

-----------------------------------------------------------------------------
LEMMA NextKeepsInstallerInv == InstallerInv /\ [InstallerNext]_installerVars => InstallerInv'
  <1> SUFFICES ASSUME InstallerInv, [InstallerNext]_installerVars PROVE InstallerInv'
    OBVIOUS
  <1>1. CASE UNCHANGED installerVars
    BY <1>1 DEF installerVars, InstallerInv, InstallerTypes, OnlyCreatedMissing, RecordKnows,
                MemKnows, RecordedFirst, RollingBack, Backed, WayBack, Restored, FromZip
  <1>2. CASE InstallerStep
    BY <1>2, StartInstallKeeps, RecordHostBackupKeeps, WriteTargetKeeps, GoOnKeeps, EndRunKeeps,
       RecordPluginKeeps, InstallPluginKeeps, RecordLimitKeeps, RaiseLimitKeeps,
       BeginRollbackKeeps, RestoreHostKeeps, RemovePluginKeeps, LowerLimitKeeps,
       EndRollbackKeeps
    DEF InstallerStep
  <1>3. CASE UserStep
    BY <1>3, UserKeeps
  <1> QED BY <1>1, <1>2, <1>3 DEF InstallerNext

LEMMA InstallerInvHolds == InstallerSpec => []InstallerInv
  BY InitiallyInstallerInv, NextKeepsInstallerInv, PTL DEF InstallerSpec

\* When the installer has changed the host, the record names the backup that has every target
\* as it first was and lists what was not there, for any number of runs, failures and backups
\* (record_host_backup, new_metadata).
THEOREM HostStaysRecoverable == InstallerSpec => []HostRecoverable
  <1>1. InstallerInv => HostRecoverable
    <2> SUFFICES ASSUME InstallerInv, touched, record.state # "torn"
                 PROVE  /\ record.state = "kept" /\ record.backup # 0
                        /\ zips[record.backup] = original
                        /\ {f \in CreatedFiles : original[f] = "absent"} \subseteq record.created
      BY DEF HostRecoverable
    <2>1. Backed(record) /\ record.backup # 0 /\ record # NoRecord
      BY FixedRecords DEF InstallerInv, RecordKnows
    <2>2. record.state = "kept"
      BY <2>1 DEF InstallerInv, InstallerTypes, RecordKnows, Records
    <2> QED BY <2>1, <2>2 DEF Backed
  <1> QED BY <1>1, InstallerInvHolds, PTL

\* A rollback that comes to its end leaves every target as it was before the first install,
\* but for a file the patch creates that was there before (do_rollback).
THEOREM RollbackPutsBack == InstallerSpec => []RollbackRestores
  <1>1. InstallerInv => RollbackRestores
    <2> SUFFICES ASSUME InstallerInv, doing = "rolled_back", touched, NEW f \in Files
                 PROVE  hostFile[f] = original[f] \/ (f \in CreatedFiles /\ original[f] # "absent")
      BY DEF RollbackRestores
    <2>1. /\ Backed(mem) /\ mem.backup # 0 /\ hostFile[f] = Restored(f)
          /\ original[f] = "absent" => f \in CreatedFiles
      BY DEF InstallerInv, MemKnows, RollingBack, OnlyCreatedMissing
    <2> QED BY <2>1 DEF Backed, Restored, FromZip
  <1> QED BY <1>1, InstallerInvHolds, PTL

\* No raise of the memory limit outlives a rollback, whatever the user and earlier installs
\* set it to (raise_memory_limit, restore_memory_limit).
THEOREM RaisesAreUndone == InstallerSpec => []RaiseUndone
  <1>1. InstallerInv => RaiseUndone
    BY DEF InstallerInv, RollingBack, RaiseUndone
  <1> QED BY <1>1, InstallerInvHolds, PTL

\* Every variable of the installer keeps its type (install_recovery.py).
THEOREM InstallerTypesHold == InstallerSpec => []InstallerTypeOK
  <1>1. InstallerInv => InstallerTypeOK
    BY DEF InstallerInv, InstallerTypes, InstallerTypeOK
  <1> QED BY <1>1, InstallerInvHolds, PTL
=============================================================================
