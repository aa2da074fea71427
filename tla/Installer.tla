------------------------------- MODULE Installer -------------------------------
(***************************************************************************)
(* install.py: patching the host checkout, copying the plugin, raising the  *)
(* memory limit, and undoing all of it.                                     *)
(*                                                                          *)
(* A run of the installer is a sequence of steps, and may stop after any of *)
(* them: a check fails, git refuses, or the process is killed.  What it     *)
(* leaves is the host, the files in .refine-install and nothing else; the   *)
(* next run, or a rollback, starts from there.  One patch and its superseded *)
(* revision stand for the bundled ones, and HEAD does not move.             *)
(***************************************************************************)
EXTENDS Integers, Sequences, FiniteSets

CONSTANTS
  Files,         \* the targets of the patch
  CreatedFiles,  \* those the patch creates: HEAD has none of them
  Floor,         \* MEMORY_LIMIT_FLOOR
  UserLimits,    \* numbers the user may set
  MaxZips        \* bound on the backups

ASSUME InstallerAssumption ==
  /\ CreatedFiles \subseteq Files
  /\ Floor \in Nat /\ UserLimits \subseteq Nat
  /\ MaxZips \in Nat

VARIABLES
  hostFile,      \* the working copy of each target
  limit,         \* the memory limit in the user's config.yaml
  plugged,       \* the plugin's files are at their destination
  record,        \* .refine-install/metadata.json
  zips,          \* the backups beside it
  doing,         \* the installer's next step
  purpose,       \* what it was called for
  mem,           \* the metadata it is building
  original,      \* history: the targets when an install first recorded a backup of them
  touched,       \* history: the installer has changed a target since
  userLimit      \* history: the number the user set last

installerVars == <<hostFile, limit, plugged, record, zips, doing, purpose, mem, original,
                   touched, userLimit>>
checkoutVars == <<hostFile, original, touched>>

InstallModes == {"full", "patch_only", "plugin_only"}
Contents == {"absent", "stock", "patched", "old", "edited"}
NotRaised == [raised |-> FALSE, previous |-> 0]
Records == [state : {"absent", "kept", "torn"}, backup : 0..MaxZips,
            created : SUBSET Files, plugin : BOOLEAN,
            limit : [raised : BOOLEAN, previous : UserLimits \cup {0, Floor}]]
Empty == [state |-> "kept", backup |-> 0, created |-> {}, plugin |-> FALSE, limit |-> NotRaised]
NoRecord == [Empty EXCEPT !.state = "absent"]
Torn == [Empty EXCEPT !.state = "torn"]

AtHead(f) == IF f \in CreatedFiles THEN "absent" ELSE "stock"

\* A host may carry a patch, whole or in part, that no record knows of.
InstallerInit ==
  /\ hostFile \in {h \in [Files -> Contents] :
                     \A f \in Files : h[f] \in {AtHead(f), "patched", "old"}}
  /\ limit \in UserLimits /\ userLimit = limit
  /\ plugged = FALSE /\ record = NoRecord /\ zips = <<>>
  /\ doing = "idle" /\ purpose = "none" /\ mem = Empty
  /\ original = hostFile /\ touched = FALSE

-----------------------------------------------------------------------------
(* What the host is (classify_host). *)

MarkedFiles == {f \in Files : hostFile[f] \in {"patched", "old"}}

HostState ==
  IF \A f \in Files : hostFile[f] = "patched" THEN "patched"
  ELSE IF MarkedFiles = Files THEN "outdated"
  ELSE IF MarkedFiles # {} THEN "partial"
  ELSE IF \E f \in Files : hostFile[f] = "edited" THEN "dirty" ELSE "stock"

Replace(f, content) ==
  /\ hostFile' = [hostFile EXCEPT ![f] = content]
  /\ touched' = TRUE /\ UNCHANGED original

\* The process goes on with what it knows, or is gone.
Proceeds(m, then) ==
  /\ doing' = then
  /\ mem' = (IF then = "idle" THEN Empty ELSE m)
  /\ purpose' = (IF then = "idle" THEN "none" ELSE purpose)

\* write_metadata is one write of one file: a death in it leaves what does not parse.
Persist(m, then) ==
  \/ record' = m /\ Proceeds(m, then)
  \/ record' = Torn /\ Proceeds(m, "idle")

-----------------------------------------------------------------------------
(* do_install. *)

\* new_metadata carries everything forward that says how to undo an earlier install.
\* The plugin's destination only while it is there.
Carried ==
  IF record = NoRecord THEN Empty ELSE [record EXCEPT !.plugin = @ /\ plugged]

FirstStep(m) ==
  CASE m = "plugin_only" -> "plugin"
    [] m # "plugin_only" /\ HostState = "patched" -> IF m = "full" THEN "plugin" ELSE "limit"
    [] m # "plugin_only" /\ HostState \in {"outdated", "partial", "stock"} -> "backup"
    [] OTHER -> "idle"

\* A record that does not parse is never overwritten (metadata_or_refuse).
StartInstall(m) ==
  /\ doing = "idle" /\ record.state # "torn" /\ FirstStep(m) # "idle"
  /\ doing' = FirstStep(m) /\ purpose' = m /\ mem' = Carried
  /\ UNCHANGED <<checkoutVars, limit, plugged, record, zips, userLimit>>

\* A plausible bug: a repeated install makes its own backup the restore target.
RestoreTargetLatest(fresh) == fresh

\* The first backup stays the restore target: it alone has the files as they were.
RestoreTarget(fresh) == IF mem.backup # 0 THEN mem.backup ELSE fresh

\* A plausible bug: the list is made afresh by each install.
CreatedThisTime == {f \in CreatedFiles : hostFile[f] = "absent"}

Created == mem.created \cup {f \in CreatedFiles : hostFile[f] = "absent"}

\* record_host_backup, before the host is touched.
RecordHostBackup ==
  /\ doing = "backup" /\ Len(zips) < MaxZips
  /\ zips' = Append(zips, hostFile)
  /\ Persist([mem EXCEPT !.backup = RestoreTarget(Len(zips) + 1), !.created = Created],
             IF MarkedFiles # {} THEN "clear" ELSE "apply")
  /\ original' = (IF mem.backup = 0 THEN hostFile ELSE original)
  /\ UNCHANGED <<hostFile, touched, limit, plugged, userLimit>>

\* return_patch_targets_to_head, for a partial or outdated host.
ReturnToHead(f) ==
  /\ doing = "clear" /\ hostFile[f] # AtHead(f)
  /\ Replace(f, AtHead(f))
  /\ UNCHANGED <<limit, plugged, record, zips, doing, purpose, mem, userLimit>>

Cleared ==
  /\ doing = "clear" /\ HostState = "stock"
  /\ doing' = "apply"
  /\ UNCHANGED <<checkoutVars, limit, plugged, record, zips, purpose, mem, userLimit>>

\* apply_patch: git writes one file after the other.
ApplyPatch(f) ==
  /\ doing = "apply" /\ hostFile[f] = AtHead(f)
  /\ Replace(f, "patched")
  /\ UNCHANGED <<limit, plugged, record, zips, doing, purpose, mem, userLimit>>

PatchVerified ==
  /\ doing = "apply" /\ HostState = "patched"
  /\ doing' = (IF purpose = "full" THEN "plugin" ELSE "limit")
  /\ UNCHANGED <<checkoutVars, limit, plugged, record, zips, purpose, mem, userLimit>>

\* A marker is missing after all: the patch is reversed and the install fails.
PatchReversed ==
  /\ doing = "apply" /\ HostState = "patched"
  /\ hostFile' = [f \in Files |-> AtHead(f)] /\ UNCHANGED <<original, touched>>
  /\ Proceeds(mem, "idle")
  /\ UNCHANGED <<limit, plugged, record, zips, userLimit>>

RecordPlugin ==
  /\ doing = "plugin" /\ Persist([mem EXCEPT !.plugin = TRUE], "copy")
  /\ UNCHANGED <<checkoutVars, limit, plugged, zips, userLimit>>

\* install_plugin, then the list of files.
InstallPlugin ==
  /\ doing = "copy" /\ plugged' = TRUE /\ Persist(mem, "limit")
  /\ UNCHANGED <<checkoutVars, limit, zips, userLimit>>

\* A plausible bug: what a repeated install finds replaces what the first one did.
LimitForgotten == [raised |-> limit < Floor, previous |-> limit]

\* raise_memory_limit: an earlier raise stays on record, whatever this install finds.
LimitEntry ==
  IF mem.limit.raised THEN mem.limit ELSE [raised |-> limit < Floor, previous |-> limit]

\* The way back is on disk before the limit is raised.
RecordLimit ==
  /\ doing = "limit"
  /\ Persist([mem EXCEPT !.limit = LimitEntry], IF limit < Floor THEN "raise" ELSE "idle")
  /\ UNCHANGED <<checkoutVars, limit, plugged, zips, userLimit>>

RaiseLimit ==
  /\ doing = "raise" /\ limit' = Floor /\ Persist(mem, "idle")
  /\ UNCHANGED <<checkoutVars, plugged, zips, userLimit>>

\* A step fails, or the installer is killed.
Stop ==
  /\ doing # "idle" /\ Proceeds(mem, "idle")
  /\ UNCHANGED <<checkoutVars, limit, plugged, record, zips, userLimit>>

-----------------------------------------------------------------------------
(* do_rollback. *)

BeginRollback(m) ==
  /\ doing = "idle" /\ record.state = "kept"
  /\ doing' = "restore" /\ purpose' = m /\ mem' = record
  /\ UNCHANGED <<checkoutVars, limit, plugged, record, zips, userLimit>>

\* What the backup has of f.
FromZip(f) == IF zips[mem.backup][f] # "absent" THEN zips[mem.backup][f] ELSE hostFile[f]

\* A plausible bug: a file the installer created stays.
RestoredFromZip(f) == IF mem.backup # 0 THEN FromZip(f) ELSE hostFile[f]

\* Without a backup nothing was done to the host.  The list of created files has the last
\* word, over what the backup has.
Restored(f) ==
  CASE mem.backup = 0 -> hostFile[f]
    [] mem.backup # 0 /\ f \in mem.created -> "absent"
    [] OTHER -> FromZip(f)

\* From the backup, and what the installer created is removed.
RestoreHost(f) ==
  /\ doing = "restore" /\ hostFile[f] # Restored(f)
  /\ Replace(f, Restored(f))
  /\ UNCHANGED <<limit, plugged, record, zips, doing, purpose, mem, userLimit>>

\* Files that cannot be removed stay, and so does the record.
RemovePlugin ==
  /\ doing = "restore" /\ \A f \in Files : hostFile[f] = Restored(f)
  /\ plugged' \in IF purpose = "keep" THEN {plugged} ELSE {FALSE, plugged}
  /\ doing' = "lower"
  /\ UNCHANGED <<checkoutVars, limit, record, zips, purpose, mem, userLimit>>

\* restore_memory_limit: only a number that is still the one the installer wrote.
LowerLimit ==
  /\ doing = "lower"
  /\ limit' = (IF mem.limit.raised /\ limit = Floor THEN mem.limit.previous ELSE limit)
  /\ doing' = "rolled_back"
  /\ UNCHANGED <<checkoutVars, plugged, record, zips, purpose, mem, userLimit>>

\* The record goes when nothing needs it any more.
EndRollback ==
  /\ doing = "rolled_back" /\ Proceeds(mem, "idle")
  /\ IF mem.plugin /\ plugged THEN UNCHANGED <<record, touched>>
     ELSE record' = NoRecord /\ touched' = FALSE
  /\ UNCHANGED <<hostFile, original, limit, plugged, zips, userLimit>>

-----------------------------------------------------------------------------
(* The user, between two runs. *)

EditHost(f) ==
  /\ doing = "idle" /\ hostFile[f] = "stock"
  /\ hostFile' = [hostFile EXCEPT ![f] = "edited"]
  /\ UNCHANGED <<original, touched, limit, plugged, record, zips, doing, purpose, mem,
                 userLimit>>

\* git checkout
CheckOut(f) ==
  /\ doing = "idle" /\ hostFile[f] # AtHead(f)
  /\ hostFile' = [hostFile EXCEPT ![f] = AtHead(f)]
  /\ UNCHANGED <<original, touched, limit, plugged, record, zips, doing, purpose, mem,
                 userLimit>>

SetLimit(n) ==
  /\ doing = "idle" /\ limit' = n /\ userLimit' = n
  /\ UNCHANGED <<checkoutVars, plugged, record, zips, doing, purpose, mem>>

InstallerStep ==
  \/ (\E m \in InstallModes : StartInstall(m))
  \/ RecordHostBackup \/ Cleared \/ PatchVerified \/ PatchReversed
  \/ (\E f \in Files : ReturnToHead(f) \/ ApplyPatch(f) \/ RestoreHost(f))
  \/ RecordPlugin \/ InstallPlugin \/ RecordLimit \/ RaiseLimit \/ Stop
  \/ (\E m \in {"remove", "keep"} : BeginRollback(m))
  \/ RemovePlugin \/ LowerLimit \/ EndRollback

UserStep == (\E f \in Files : EditHost(f) \/ CheckOut(f)) \/ (\E n \in UserLimits : SetLimit(n))

InstallerNext == InstallerStep \/ UserStep
InstallerSpec == InstallerInit /\ [][InstallerNext]_installerVars

-----------------------------------------------------------------------------
InstallerTypeOK ==
  /\ hostFile \in [Files -> Contents] /\ limit \in UserLimits \cup {Floor}
  /\ plugged \in BOOLEAN /\ record \in Records
  /\ mem \in Records /\ \A i \in DOMAIN zips : zips[i] \in [Files -> Contents]

\* When the installer has changed the host, however often it ran and wherever it stopped,
\* the record names the backup that has every target as it first was, and lists what was not
\* there; unless the record itself was torn (record_host_backup).
HostRecoverable ==
  touched /\ record.state # "torn" =>
    /\ record.state = "kept" /\ record.backup # 0
    /\ zips[record.backup] = original
    /\ {f \in CreatedFiles : original[f] = "absent"} \subseteq record.created

\* A rollback that comes to its end leaves every target as it was before the first install,
\* after failed and repeated installs, too; but for a file the patch creates that was there
\* before, from a patch no record knew of (do_rollback).
RollbackRestores ==
  doing = "rolled_back" /\ touched =>
    \A f \in Files : hostFile[f] = original[f] \/ (f \in CreatedFiles /\ original[f] # "absent")

\* No raise outlives a rollback: the limit is the floor only where the user chose the floor
\* (raise_memory_limit, restore_memory_limit).
RaiseUndone == doing = "rolled_back" /\ limit = Floor => userLimit = Floor
=============================================================================
