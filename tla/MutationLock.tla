----------------------------- MODULE MutationLock -----------------------------
(***************************************************************************)
(* The lock every refine mutation runs under (journal.py,                  *)
(* _acquire_mutation_lock and what it calls).  It is three things at once: *)
(*                                                                         *)
(*   - a re-entrant lock between the threads of one process (_THREAD_LOCK, *)
(*     _LOCK_STATE.depth);                                                 *)
(*   - a lock file beside the journal directory, published with os.link,   *)
(*     which creates and never replaces;                                   *)
(*   - a lease: a loopback port the owner keeps bound while it owns the    *)
(*     file.  The kernel frees the port when the owner dies, so binding    *)
(*     the port a lock file names proves its owner dead.                   *)
(*                                                                         *)
(* The lock file is beside the active journal directory, and a migration   *)
(* changes which directory is active ("legacy" to "refine") while holding  *)
(* the legacy lock; a waiter therefore checks the directory again after it *)
(* has the lock.                                                           *)
(*                                                                         *)
(* One action is one access to state that others share: a file, a port or  *)
(* the thread lock.  A token is a uuid: a fresh one differs from every     *)
(* token any file or thread still refers to.                               *)
(***************************************************************************)
EXTENDS Integers, FiniteSets

CONSTANTS
  Threads,       \* threads that may ask for the lock
  Procs,         \* processes
  ProcOf,        \* the process of each thread
  Tokens,        \* uuid4 values an acquisition may draw
  Ports,         \* loopback ports the kernel may hand out
  ForeignPorts,  \* ports an unrelated program may bind
  NoThread,      \* "no thread": a free port or a free thread lock
  Foreign,       \* the unrelated program
  NoToken,
  NoPort,
  Callers,       \* the entry points threads use, a subset of Modes
  MaxDepth,      \* bound on re-entrant nesting
  MaxCrashes,    \* bound on process deaths
  Faults         \* whether file operations may fail

ASSUME ThreadAssumption ==
  /\ ProcOf \in [Threads -> Procs]
  /\ NoThread \notin Threads
  /\ Foreign \notin Threads
  /\ Foreign # NoThread
  /\ Procs \cap (Threads \cup {NoThread, Foreign}) = {}
ASSUME TokenAssumption == NoToken \notin Tokens
ASSUME PortAssumption == NoPort \notin Ports /\ ForeignPorts \subseteq Ports

\* mutation_lock, try_mutation_lock and _migration_lock.
Modes == {"wait", "try", "migrate"}

ASSUME BoundAssumption ==
  /\ Callers \subseteq Modes
  /\ MaxDepth \in Nat \ {0}
  /\ MaxCrashes \in Nat
  /\ Faults \in BOOLEAN

\* The two journal directories; each has a lock file of its own.
Generations == {"legacy", "refine"}

\* What a lock file holds: nothing there, a record naming its owner's token and
\* lease port, or bytes that name no lease (an older build, a damaged file).
NoFile == [token |-> NoToken, port |-> NoPort, there |-> FALSE]
Malformed == [token |-> NoToken, port |-> NoPort, there |-> TRUE]
Claim(k, q) == [token |-> k, port |-> q, there |-> TRUE]
LockFiles == {NoFile, Malformed} \cup {Claim(k, q) : k \in Tokens, q \in Ports}

Locations == {"idle", "thread", "orphan", "stat", "bind", "recheck", "unlink",
              "orphanEnd", "lease", "publish", "confirm", "cs", "renaming",
              "check", "unlinkOwn", "close"}

\* Where the stale check, or a release, goes on.
Returns == {"idle", "orphan", "orphanEnd", "lease"}

VARIABLES
  lockFile,   \* lock file of each generation
  bound,      \* who has each port bound; a process, when no thread of it knows any more
  tlock,      \* owner of each process's thread lock
  orphans,    \* per process and generation: a token it could not unlink
  gen,        \* the active journal directory: what ensure_dirs() returns
  pc,         \* where each thread is
  mode,       \* mutation_lock, try_mutation_lock or _migration_lock
  late,       \* whether the thread's deadline has passed
  dir,        \* the generation whose lock the thread is after
  token,      \* the uuid of the thread's acquisition
  port,       \* the thread's candidate or lease port
  seen,       \* the lock file as the thread read it before binding
  ret,       \* where the stale check or the release returns to
  depth,      \* _LOCK_STATE.depth
  crashes

threadVars == <<pc, mode, late, dir, token, port, seen, ret, depth>>
vars == <<lockFile, bound, tlock, orphans, gen, crashes, threadVars>>

Init ==
  /\ lockFile \in [Generations -> {NoFile, Malformed}]
  /\ bound = [q \in Ports |-> NoThread]
  /\ tlock = [p \in Procs |-> NoThread]
  /\ orphans = [p \in Procs |-> [g \in Generations |-> NoToken]]
  /\ gen \in Generations
  /\ pc = [t \in Threads |-> "idle"]
  /\ mode = [t \in Threads |-> "wait"]
  /\ late = [t \in Threads |-> FALSE]
  /\ dir = [t \in Threads |-> "legacy"]
  /\ token = [t \in Threads |-> NoToken]
  /\ port = [t \in Threads |-> NoPort]
  /\ seen = [t \in Threads |-> NoFile]
  /\ ret = [t \in Threads |-> "idle"]
  /\ depth = [t \in Threads |-> 0]
  /\ crashes = 0

-----------------------------------------------------------------------------
(* Small steps shared by the actions. *)

Goto(t, l) == pc' = [pc EXCEPT ![t] = l]

\* The thread is done: what it knew is forgotten and its thread lock is free.
Return(t) ==
  /\ Goto(t, "idle")
  /\ tlock' = [tlock EXCEPT ![ProcOf[t]] = NoThread]
  /\ token' = [token EXCEPT ![t] = NoToken]
  /\ late' = [late EXCEPT ![t] = FALSE]
  /\ mode' = [mode EXCEPT ![t] = "wait"]
  /\ dir' = [dir EXCEPT ![t] = "legacy"]
  /\ ret' = [ret EXCEPT ![t] = "idle"]

Close(q) == bound' = [bound EXCEPT ![q] = NoThread]

\* Tokens some file, thread or orphan record still refers to.
UsedTokens ==
  {lockFile[g].token : g \in Generations} \cup {token[t] : t \in Threads}
    \cup {seen[t].token : t \in Threads}
    \cup {orphans[p][g] : p \in Procs, g \in Generations}

-----------------------------------------------------------------------------
(* Asking for the lock. *)

\* A caller enters one of the three context managers; a migration only while the
\* legacy directory is still the active one.
Request(t, m) ==
  /\ pc[t] = "idle"
  /\ m = "migrate" => gen = "legacy"
  /\ Goto(t, "thread")
  /\ mode' = [mode EXCEPT ![t] = m]
  /\ UNCHANGED <<lockFile, bound, tlock, orphans, gen, crashes, late, dir,
                 token, port, seen, ret, depth>>

\* The deadline of a waiting caller passes (time.monotonic() >= deadline)
\* somewhere in its loop; it is looked at when the lock turns out to be taken.
Expire(t) ==
  /\ pc[t] \notin {"idle", "confirm", "cs", "renaming", "check", "unlinkOwn", "close"}
  /\ mode[t] # "try"
  /\ ~late[t]
  /\ late' = [late EXCEPT ![t] = TRUE]
  /\ UNCHANGED <<lockFile, bound, tlock, orphans, gen, crashes, pc, mode, dir,
                 token, port, seen, ret, depth>>

\* _THREAD_LOCK is free: take it, draw a token, resolve the directory.
TakeThreadLock(t) ==
  /\ pc[t] = "thread"
  /\ tlock[ProcOf[t]] = NoThread
  /\ tlock' = [tlock EXCEPT ![ProcOf[t]] = t]
  /\ \E k \in Tokens \ UsedTokens : token' = [token EXCEPT ![t] = k]
  /\ dir' = [dir EXCEPT ![t] = IF mode[t] = "migrate" THEN "legacy" ELSE gen]
  /\ Goto(t, "orphan")
  /\ UNCHANGED <<lockFile, bound, orphans, gen, crashes, mode, late, port, seen,
                 ret, depth>>

\* _THREAD_LOCK is taken: a try returns at once, a waiter when it is late.  The
\* migration takes _THREAD_LOCK without a timeout.
ThreadLockBusy(t) ==
  /\ pc[t] = "thread"
  /\ tlock[ProcOf[t]] # NoThread
  /\ mode[t] = "try" \/ (mode[t] = "wait" /\ late[t])
  /\ Goto(t, "idle")
  /\ late' = [late EXCEPT ![t] = FALSE]
  /\ mode' = [mode EXCEPT ![t] = "wait"]
  /\ UNCHANGED <<lockFile, bound, tlock, orphans, gen, crashes, dir, token, port,
                 seen, ret, depth>>

\* _clear_owned_orphan: a lock file this process could not unlink when it released
\* it is cleared like any dead owner's; one that is no longer there is forgotten.
ClearOwnedOrphan(t) ==
  LET p == ProcOf[t]
      mine == orphans[p][dir[t]]
      still == mine # NoToken /\ lockFile[dir[t]].token = mine
  IN /\ pc[t] = "orphan"
     /\ Goto(t, "stat")
     /\ ret' = [ret EXCEPT ![t] = IF still THEN "orphanEnd" ELSE "lease"]
     /\ orphans' = [orphans EXCEPT ![p][dir[t]] = IF still THEN mine ELSE NoToken]
     /\ UNCHANGED <<lockFile, bound, tlock, gen, crashes, mode, late, dir, token,
                    port, seen, depth>>

\* The end of _clear_owned_orphan: forget the orphan if its file is gone.
OrphanCleared(t) ==
  LET p == ProcOf[t]
  IN /\ pc[t] = "orphanEnd"
     /\ orphans' = [orphans EXCEPT ![p][dir[t]] =
                      IF lockFile[dir[t]].token = @ THEN @ ELSE NoToken]
     /\ ret' = [ret EXCEPT ![t] = "lease"]
     /\ Goto(t, "stat")
     /\ UNCHANGED <<lockFile, bound, tlock, gen, crashes, mode, late, dir, token,
                    port, seen, depth>>

-----------------------------------------------------------------------------
(* _try_clear_stale_lock: read, bind the named port, compare, unlink. *)

\* A file that is absent or names no lease is left alone.
ReadLockFile(t) ==
  /\ pc[t] = "stat"
  /\ IF lockFile[dir[t]].port = NoPort
     THEN /\ Goto(t, ret[t])
          /\ UNCHANGED seen
     ELSE /\ Goto(t, "bind")
          /\ seen' = [seen EXCEPT ![t] = lockFile[dir[t]]]
  /\ UNCHANGED <<lockFile, bound, tlock, orphans, gen, crashes, mode, late, dir,
                 token, port, ret, depth>>

\* A plausible bug: a lease socket that shares its address binds a live owner's port.
BindRecoveryShared(t) ==
  /\ pc[t] = "bind"
  /\ bound' = [bound EXCEPT ![seen[t].port] = t]
  /\ Goto(t, "recheck")
  /\ UNCHANGED <<lockFile, tlock, orphans, gen, crashes, mode, late, dir, token,
                 port, seen, ret, depth>>

\* Binding the port named in the file succeeds only when its owner has let go.
BindRecovery(t) ==
  LET q == seen[t].port
  IN /\ pc[t] = "bind"
     /\ IF bound[q] = NoThread
        THEN /\ bound' = [bound EXCEPT ![q] = t]
             /\ Goto(t, "recheck")
             /\ UNCHANGED seen
        ELSE /\ Goto(t, ret[t])
             /\ seen' = [seen EXCEPT ![t] = NoFile]
             /\ UNCHANGED bound
     /\ UNCHANGED <<lockFile, tlock, orphans, gen, crashes, mode, late, dir,
                    token, port, ret, depth>>

\* A plausible bug: once the port is bound the file is unlinked unread.
RecheckTrusting(t) ==
  /\ pc[t] = "recheck"
  /\ Goto(t, "unlink")
  /\ UNCHANGED <<lockFile, bound, tlock, orphans, gen, crashes, mode, late, dir,
                 token, port, seen, ret, depth>>

\* unlink_if_unchanged, first half: another recovery may have replaced the file.
RecheckLockFile(t) ==
  /\ pc[t] = "recheck"
  /\ IF lockFile[dir[t]] = seen[t]
     THEN /\ Goto(t, "unlink")
          /\ UNCHANGED <<bound, seen>>
     ELSE /\ Goto(t, ret[t])
          /\ Close(seen[t].port)
          /\ seen' = [seen EXCEPT ![t] = NoFile]
  /\ UNCHANGED <<lockFile, tlock, orphans, gen, crashes, mode, late, dir, token,
                 port, ret, depth>>

\* unlink_if_unchanged, second half: the path is unlinked, whatever is there now.
UnlinkStale(t) ==
  /\ pc[t] = "unlink"
  /\ lockFile' = [lockFile EXCEPT ![dir[t]] = NoFile]
  /\ Close(seen[t].port)
  /\ seen' = [seen EXCEPT ![t] = NoFile]
  /\ Goto(t, ret[t])
  /\ UNCHANGED <<tlock, orphans, gen, crashes, mode, late, dir, token, port,
                 ret, depth>>

\* The file cannot be read again, or the unlink keeps failing: the orphan path logs it
\* and goes on, otherwise the error leaves _acquire_mutation_lock, whose finally frees
\* the thread lock.
UnlinkStaleFails(t) ==
  /\ Faults
  /\ pc[t] \in {"recheck", "unlink"}
  /\ Close(seen[t].port)
  /\ seen' = [seen EXCEPT ![t] = NoFile]
  /\ IF ret[t] = "orphanEnd"
     THEN /\ Goto(t, "stat")
          /\ ret' = [ret EXCEPT ![t] = "lease"]
          /\ UNCHANGED <<tlock, token, late, mode, dir>>
     ELSE Return(t)
  /\ UNCHANGED <<lockFile, orphans, gen, crashes, port, depth>>

-----------------------------------------------------------------------------
(* Publishing a claim. *)

\* _new_lock_lease: the kernel hands out any free port, a dead owner's included.
NewLease(t) ==
  /\ pc[t] = "lease"
  /\ \E q \in Ports : /\ bound[q] = NoThread
                      /\ bound' = [bound EXCEPT ![q] = t]
                      /\ port' = [port EXCEPT ![t] = q]
  /\ Goto(t, "publish")
  /\ UNCHANGED <<lockFile, tlock, orphans, gen, crashes, mode, late, dir, token,
                 seen, ret, depth>>

\* The kernel has no port to hand out, or the socket fails otherwise: _new_lock_lease
\* closes it and the error leaves the acquisition.
LeaseFails(t) ==
  /\ pc[t] = "lease"
  /\ Faults \/ \A q \in Ports : bound[q] # NoThread
  /\ Return(t)
  /\ UNCHANGED <<lockFile, bound, orphans, gen, crashes, port, seen, depth>>

\* A plausible bug: the claim is renamed over the lock file.
PublishByRename(t) ==
  /\ pc[t] = "publish"
  /\ lockFile' = [lockFile EXCEPT ![dir[t]] = Claim(token[t], port[t])]
  /\ Goto(t, "confirm")
  /\ UNCHANGED <<bound, tlock, orphans, gen, crashes, mode, late, dir, token,
                 port, seen, ret, depth>>

\* _publish_lock: os.link creates the lock file only where there is none.
Publish(t) ==
  /\ pc[t] = "publish"
  /\ ~lockFile[dir[t]].there
  /\ lockFile' = [lockFile EXCEPT ![dir[t]] = Claim(token[t], port[t])]
  /\ Goto(t, "confirm")
  /\ UNCHANGED <<bound, tlock, orphans, gen, crashes, mode, late, dir, token,
                 port, seen, ret, depth>>

\* A plausible bug: giving up leaves the candidate bound.
PublishRefusedLeaking(t) ==
  /\ pc[t] = "publish"
  /\ lockFile[dir[t]].there
  /\ port' = [port EXCEPT ![t] = NoPort]
  /\ IF mode[t] = "try" \/ late[t]
     THEN Return(t)
     ELSE /\ Goto(t, "stat")
          /\ UNCHANGED <<tlock, token, late, mode, dir, ret>>
  /\ UNCHANGED <<lockFile, bound, orphans, gen, crashes, seen, depth>>

\* A plausible bug: the retry loop forgets the deadline.
PublishRefusedForever(t) ==
  /\ pc[t] = "publish"
  /\ lockFile[dir[t]].there
  /\ Close(port[t])
  /\ port' = [port EXCEPT ![t] = NoPort]
  /\ IF mode[t] = "try"
     THEN Return(t)
     ELSE /\ Goto(t, "stat")
          /\ UNCHANGED <<tlock, token, late, mode, dir, ret>>
  /\ UNCHANGED <<lockFile, orphans, gen, crashes, seen, depth>>

\* FileExistsError: close the candidate; give up, or sleep and start over.
PublishRefused(t) ==
  /\ pc[t] = "publish"
  /\ lockFile[dir[t]].there
  /\ Close(port[t])
  /\ port' = [port EXCEPT ![t] = NoPort]
  /\ IF mode[t] = "try" \/ late[t]
     THEN Return(t)
     ELSE /\ Goto(t, "stat")
          /\ UNCHANGED <<tlock, token, late, mode, dir, ret>>
  /\ UNCHANGED <<lockFile, orphans, gen, crashes, seen, depth>>

\* Any other error of the publication (the claim file cannot be written, the link is
\* refused) leaves the acquisition, whose finally closes the lease and not the candidate:
\* the port stays bound by the process until the interpreter drops the socket.
PublishFails(t) ==
  /\ Faults
  /\ pc[t] = "publish"
  /\ bound' = [bound EXCEPT ![port[t]] = ProcOf[t]]
  /\ port' = [port EXCEPT ![t] = NoPort]
  /\ Return(t)
  /\ UNCHANGED <<lockFile, orphans, gen, crashes, seen, depth>>

\* A plausible bug: the lock is used whatever directory it is beside.
ConfirmBlindly(t) ==
  /\ pc[t] = "confirm"
  /\ Goto(t, "cs")
  /\ depth' = [depth EXCEPT ![t] = IF mode[t] = "migrate" THEN 0 ELSE 1]
  /\ UNCHANGED <<lockFile, bound, tlock, orphans, gen, crashes, mode, late, dir,
                 token, port, seen, ret>>

\* The active directory is resolved again under the lock.  A writer whose lock is
\* beside a directory that is no longer active starts over there; a migration that
\* finds the marker has nothing left to do.
Confirm(t) ==
  /\ pc[t] = "confirm"
  /\ IF dir[t] = gen
     THEN /\ Goto(t, "cs")
          /\ depth' = [depth EXCEPT ![t] = IF mode[t] = "migrate" THEN 0 ELSE 1]
          /\ UNCHANGED ret
     ELSE /\ Goto(t, "check")
          /\ ret' = [ret EXCEPT ![t] = IF mode[t] = "migrate" THEN "idle"
                                                                ELSE "orphan"]
          /\ UNCHANGED depth
  /\ UNCHANGED <<lockFile, bound, tlock, orphans, gen, crashes, mode, late, dir,
                 token, port, seen>>

\* The directory cannot be resolved again: the error closes the lease and frees the
\* thread lock, and the lock file stays, as a dead owner's does.
ConfirmFails(t) ==
  /\ Faults
  /\ pc[t] = "confirm"
  /\ mode[t] # "migrate"
  /\ Goto(t, "close")
  /\ ret' = [ret EXCEPT ![t] = "idle"]
  /\ UNCHANGED <<lockFile, bound, tlock, orphans, gen, crashes, mode, late, dir,
                 token, port, seen, depth>>

-----------------------------------------------------------------------------
(* Inside the critical section. *)

\* A nested mutation_lock() of the owning thread only counts.
Reenter(t) ==
  /\ pc[t] = "cs"
  /\ depth[t] \in 1..(MaxDepth - 1)
  /\ depth' = [depth EXCEPT ![t] = @ + 1]
  /\ UNCHANGED <<lockFile, bound, tlock, orphans, gen, crashes, pc, mode, late,
                 dir, token, port, seen, ret>>

\* Leaving a nested mutation_lock() releases nothing; leaving the outermost does.
Leave(t) ==
  /\ pc[t] = "cs"
  /\ IF depth[t] > 1
     THEN /\ depth' = [depth EXCEPT ![t] = @ - 1]
          /\ UNCHANGED <<pc, ret>>
     ELSE /\ depth' = [depth EXCEPT ![t] = 0]
          /\ Goto(t, "check")
          /\ ret' = [ret EXCEPT ![t] = "idle"]
  /\ UNCHANGED <<lockFile, bound, tlock, orphans, gen, crashes, mode, late, dir,
                 token, port, seen>>

\* migrate_legacy_journal_dir publishes the commit marker: from here on every
\* process resolves the new directory.  It still renames the old one.
CommitMigration(t) ==
  /\ pc[t] = "cs"
  /\ mode[t] = "migrate"
  /\ gen' = "refine"
  /\ Goto(t, "renaming")
  /\ UNCHANGED <<lockFile, bound, tlock, orphans, crashes, mode, late, dir,
                 token, port, seen, ret, depth>>

Renamed(t) ==
  /\ pc[t] = "renaming"
  /\ Goto(t, "check")
  /\ ret' = [ret EXCEPT ![t] = "idle"]
  /\ UNCHANGED <<lockFile, bound, tlock, orphans, gen, crashes, mode, late, dir,
                 token, port, seen, depth>>

-----------------------------------------------------------------------------
(* _release_owned_lock, then lease.close(), then _THREAD_LOCK.release(). *)

\* Only a file that carries this acquisition's token is unlinked.
CheckOwn(t) ==
  /\ pc[t] = "check"
  /\ Goto(t, IF lockFile[dir[t]].token = token[t] THEN "unlinkOwn" ELSE "close")
  /\ UNCHANGED <<lockFile, bound, tlock, orphans, gen, crashes, mode, late, dir,
                 token, port, seen, ret, depth>>

UnlinkOwn(t) ==
  /\ pc[t] = "unlinkOwn"
  /\ lockFile' = [lockFile EXCEPT ![dir[t]] = NoFile]
  /\ Goto(t, "close")
  /\ UNCHANGED <<bound, tlock, orphans, gen, crashes, mode, late, dir, token,
                 port, seen, ret, depth>>

\* The file cannot be read, or the unlink keeps failing: the token is remembered for the
\* next acquisition.
UnlinkOwnFails(t) ==
  /\ Faults
  /\ pc[t] \in {"check", "unlinkOwn"}
  /\ orphans' = [orphans EXCEPT ![ProcOf[t]][dir[t]] = token[t]]
  /\ Goto(t, "close")
  /\ UNCHANGED <<lockFile, bound, tlock, gen, crashes, mode, late, dir, token,
                 port, seen, ret, depth>>

\* The lease goes last; a thread that only changes directory keeps the thread lock.
CloseLease(t) ==
  /\ pc[t] = "close"
  /\ Close(port[t])
  /\ port' = [port EXCEPT ![t] = NoPort]
  /\ IF ret[t] = "idle"
     THEN Return(t)
     ELSE /\ Goto(t, "orphan")
          /\ dir' = [dir EXCEPT ![t] = gen]
          /\ UNCHANGED <<tlock, token, late, mode, ret>>
  /\ UNCHANGED <<lockFile, orphans, gen, crashes, seen, depth>>

-----------------------------------------------------------------------------
(* The environment. *)

\* A process dies: its ports are freed and its memory is gone; its files stay.
Crash(p) ==
  LET mine == {t \in Threads : ProcOf[t] = p}
  IN /\ crashes < MaxCrashes
     /\ crashes' = crashes + 1
     /\ \E t \in mine : pc[t] # "idle"
     /\ bound' = [q \in Ports |-> IF bound[q] \in mine \cup {p} THEN NoThread
                                                               ELSE bound[q]]
     /\ tlock' = [tlock EXCEPT ![p] = NoThread]
     /\ orphans' = [orphans EXCEPT ![p] = [g \in Generations |-> NoToken]]
     /\ pc' = [t \in Threads |-> IF t \in mine THEN "idle" ELSE pc[t]]
     /\ late' = [t \in Threads |-> IF t \in mine THEN FALSE ELSE late[t]]
     /\ token' = [t \in Threads |-> IF t \in mine THEN NoToken ELSE token[t]]
     /\ port' = [t \in Threads |-> IF t \in mine THEN NoPort ELSE port[t]]
     /\ seen' = [t \in Threads |-> IF t \in mine THEN NoFile ELSE seen[t]]
     /\ depth' = [t \in Threads |-> IF t \in mine THEN 0 ELSE depth[t]]
     /\ mode' = [t \in Threads |-> IF t \in mine THEN "wait" ELSE mode[t]]
     /\ dir' = [t \in Threads |-> IF t \in mine THEN "legacy" ELSE dir[t]]
     /\ ret' = [t \in Threads |-> IF t \in mine THEN "idle" ELSE ret[t]]
     /\ UNCHANGED <<lockFile, gen>>

\* An unrelated program binds a free port, or lets it go.
ForeignBind(q) ==
  /\ bound[q] = NoThread
  /\ bound' = [bound EXCEPT ![q] = Foreign]
  /\ UNCHANGED <<lockFile, tlock, orphans, gen, crashes, threadVars>>

ForeignClose(q) ==
  /\ bound[q] = Foreign
  /\ bound' = [bound EXCEPT ![q] = NoThread]
  /\ UNCHANGED <<lockFile, tlock, orphans, gen, crashes, threadVars>>

\* The interpreter drops a candidate no thread knows any more, and so closes it.
Drop(q) ==
  /\ bound[q] \in Procs
  /\ bound' = [bound EXCEPT ![q] = NoThread]
  /\ UNCHANGED <<lockFile, tlock, orphans, gen, crashes, threadVars>>

-----------------------------------------------------------------------------
\* The steps a thread takes by itself once it has asked for the lock.
Step(t) ==
  \/ TakeThreadLock(t) \/ ThreadLockBusy(t) \/ ClearOwnedOrphan(t)
  \/ OrphanCleared(t) \/ ReadLockFile(t) \/ BindRecovery(t)
  \/ RecheckLockFile(t) \/ UnlinkStale(t) \/ UnlinkStaleFails(t)
  \/ NewLease(t) \/ LeaseFails(t) \/ Publish(t) \/ PublishRefused(t)
  \/ PublishFails(t) \/ Confirm(t) \/ ConfirmFails(t) \/ Renamed(t) \/ CheckOwn(t) \/ UnlinkOwn(t)
  \/ UnlinkOwnFails(t) \/ CloseLease(t)

Next ==
  \/ \E t \in Threads :
        \/ \E m \in Callers : Request(t, m)
        \/ Expire(t) \/ Step(t) \/ Reenter(t) \/ Leave(t) \/ CommitMigration(t)
  \/ \E p \in Procs : Crash(p)
  \/ \E q \in ForeignPorts : ForeignBind(q) \/ ForeignClose(q)
  \/ \E q \in Ports : Drop(q)

Spec == Init /\ [][Next]_vars

\* Threads keep running, deadlines pass, and callers leave the critical section;
\* nobody has to ask for the lock, nothing has to crash, and a candidate nobody knows
\* need not ever be dropped.
FairSpec ==
  /\ Spec
  /\ \A t \in Threads : WF_vars(Step(t)) /\ WF_vars(Expire(t)) /\ WF_vars(Leave(t))
-----------------------------------------------------------------------------
(* Properties. *)

TypeOK ==
  /\ lockFile \in [Generations -> LockFiles]
  /\ bound \in [Ports -> Threads \cup Procs \cup {NoThread, Foreign}]
  /\ tlock \in [Procs -> Threads \cup {NoThread}]
  /\ orphans \in [Procs -> [Generations -> Tokens \cup {NoToken}]]
  /\ gen \in Generations
  /\ pc \in [Threads -> Locations]
  /\ mode \in [Threads -> Modes]
  /\ late \in [Threads -> BOOLEAN]
  /\ dir \in [Threads -> Generations]
  /\ token \in [Threads -> Tokens \cup {NoToken}]
  /\ port \in [Threads -> Ports \cup {NoPort}]
  /\ seen \in [Threads -> LockFiles \ {Malformed}]
  /\ ret \in [Threads -> Returns]
  /\ depth \in [Threads -> 0..MaxDepth]
  /\ crashes \in 0..MaxCrashes

\* No two threads, of one process or of two, are in a refine mutation at once,
\* through crashes, recovery of dead owners' files and a change of directory
\* (_acquire_mutation_lock, _try_clear_stale_lock).
MutualExclusion ==
  \A t, u \in Threads : pc[t] = "cs" /\ pc[u] = "cs" => t = u

\* Nobody mutates a journal directory that a finished migration has left behind:
\* the directory is resolved again after the lock is published
\* (_acquire_mutation_lock, "ensure_dirs() == locked_directory").
CurrentGeneration ==
  \A t \in Threads : pc[t] = "cs" => dir[t] = gen

\* Where a thread owns the lock file of its directory.
Owning == {"confirm", "cs", "renaming", "check", "unlinkOwn"}

\* A live owner's lock file stays its own until it unlinks it: recovery removes
\* only a dead owner's (_try_clear_stale_lock).
OwnerKeepsFile ==
  \A t \in Threads : pc[t] \in Owning =>
      lockFile[dir[t]] = Claim(token[t], port[t])

\* A caller that is back from an acquisition, however it ended, has left neither the
\* thread lock nor a port of its own behind; and a thread that is about to prove an
\* owner dead, or to ask for a lease, has no port bound either, so that its own candidate
\* cannot stand in the way of the proof (_acquire_mutation_lock: "Never allocate a
\* candidate lease before stale recovery").  The one port that outlives its acquisition
\* is the candidate of PublishFails, which the process has bound and no thread.
NothingLeaked ==
  \A t \in Threads :
    /\ pc[t] \in {"idle", "thread"} => tlock[ProcOf[t]] # t
    /\ pc[t] \in {"idle", "thread", "orphan", "orphanEnd", "stat", "bind", "lease"} =>
         \A q \in Ports : bound[q] # t

\* A lock file without a lease is left for the operator: no step of the protocol
\* removes or replaces it ("remain fail-closed for explicit operator recovery").
MalformedKept ==
  [][\A g \in Generations : lockFile[g] = Malformed => lockFile'[g] = Malformed]_vars

\* Every bounded request ends, inside the critical section or back at the caller:
\* neither another thread of the process nor a lock file nobody can clear holds it
\* longer than its deadline (mutation_lock, try_mutation_lock).
EveryRequestEnds ==
  \A t \in Threads :
      (pc[t] = "thread" /\ mode[t] # "migrate") ~> (pc[t] \in {"idle", "cs"})

\* The thread in the critical section, as the abstract lock sees it.
Holder == IF \E t \in Threads : pc[t] = "cs"
          THEN CHOOSE t \in Threads : pc[t] = "cs"
          ELSE NoThread

\* Ports, files, recovery and retries together behave as one abstract lock.
AbstractLock == INSTANCE Mutex WITH holder <- Holder
ImplementsMutex == AbstractLock!Spec
=============================================================================
