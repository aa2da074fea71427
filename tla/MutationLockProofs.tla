-------------------------- MODULE MutationLockProofs --------------------------
(***************************************************************************)
(* The mutation lock excludes for any number of threads, processes, ports, *)
(* crashes and stale files.  The argument is about ports: whoever owns,    *)
(* compares or unlinks a lock file has the port that file names bound, and *)
(* a port is bound by one thread.                                          *)
(***************************************************************************)
EXTENDS MutationLock, TLAPS

\* A thread that has bound a candidate or a lease.
Leasing == Owning \cup {"publish", "close"}

\* An acquisition under way has drawn its token.
TokenDrawn ==
  \A t \in Threads : pc[t] \notin {"idle", "thread"} => token[t] \in Tokens

\* A bound port belongs to the thread that counts on it.
LeaseHeld ==
  \A t \in Threads : pc[t] \in Leasing => port[t] \in Ports /\ bound[port[t]] = t

\* A recovering thread has the port of the file it read bound.
RecoveryHeld ==
  \A t \in Threads :
    /\ pc[t] \in {"bind", "recheck", "unlink"} => seen[t].there /\ seen[t].port \in Ports
    /\ pc[t] \in {"recheck", "unlink"} => bound[seen[t].port] = t

\* What a thread is about to unlink as stale is still what it read.
StaleUnchanged ==
  \A t \in Threads : pc[t] = "unlink" => lockFile[dir[t]] = seen[t]

\* Every step of one thread or of its environment, as one list.
LEMMA Steps ==
  ASSUME Next
  PROVE  \/ \E t \in Threads : \E m \in Callers : Request(t, m)
         \/ \E t \in Threads :
              \/ Expire(t) \/ TakeThreadLock(t) \/ ThreadLockBusy(t)
              \/ ClearOwnedOrphan(t) \/ OrphanCleared(t) \/ ReadLockFile(t)
              \/ BindRecovery(t) \/ RecheckLockFile(t) \/ UnlinkStale(t)
              \/ UnlinkStaleFails(t) \/ NewLease(t) \/ LeaseFails(t) \/ Publish(t)
              \/ PublishRefused(t) \/ PublishFails(t) \/ Confirm(t) \/ ConfirmFails(t)
              \/ Renamed(t) \/ CheckOwn(t) \/ UnlinkOwn(t) \/ UnlinkOwnFails(t) \/ CloseLease(t)
              \/ Reenter(t) \/ Leave(t) \/ CommitMigration(t)
         \/ \E p \in Procs : Crash(p)
         \/ \E q \in ForeignPorts : ForeignBind(q) \/ ForeignClose(q)
         \/ \E q \in Ports : Drop(q)
  BY DEF Next, Step

\* The two records with no lease name no port, and a claim names one.
LEMMA LockFileFacts ==
  /\ NoFile \in LockFiles \ {Malformed}
  /\ Malformed \in LockFiles
  /\ ~NoFile.there
  /\ \A k \in Tokens, q \in Ports :
       Claim(k, q) \in LockFiles \ {Malformed} /\ Claim(k, q).there
         /\ Claim(k, q).port = q /\ Claim(k, q).token = k
  /\ \A f \in LockFiles : f.port # NoPort => f # Malformed /\ f.there /\ f.port \in Ports
  /\ \A f \in LockFiles : f.token \in Tokens \cup {NoToken}
  <1>1. NoFile.there = FALSE /\ Malformed.there = TRUE
    BY DEF NoFile, Malformed
  <1>2. NoFile.port = NoPort /\ Malformed.port = NoPort
    BY DEF NoFile, Malformed
  <1>3. NoFile.token = NoToken /\ Malformed.token = NoToken
    BY DEF NoFile, Malformed
  <1>4. \A k \in Tokens, q \in Ports :
          Claim(k, q).there = TRUE /\ Claim(k, q).port = q /\ Claim(k, q).token = k
    BY DEF Claim
  <1>5. \A f \in LockFiles : \/ f = NoFile \/ f = Malformed
                             \/ \E k \in Tokens, q \in Ports : f = Claim(k, q)
    BY DEF LockFiles
  <1>6. /\ NoFile \in LockFiles /\ Malformed \in LockFiles
        /\ \A k \in Tokens, q \in Ports : Claim(k, q) \in LockFiles
    BY DEF LockFiles
  <1>7. NoFile # Malformed
    BY <1>1
  <1>8. ASSUME NEW k \in Tokens, NEW q \in Ports PROVE Claim(k, q) # Malformed
    BY <1>2, <1>4, PortAssumption
  <1>9. ASSUME NEW f \in LockFiles, f.port # NoPort
        PROVE  f # Malformed /\ f.there /\ f.port \in Ports
    BY <1>2, <1>4, <1>5, <1>9
  <1>10. ASSUME NEW f \in LockFiles PROVE f.token \in Tokens \cup {NoToken}
    BY <1>3, <1>4, <1>5
  <1>11. QED
    BY <1>1, <1>4, <1>6, <1>7, <1>8, <1>9, <1>10

\* Every place and mode an action names is one of the declared ones.
LEMMA NameFacts ==
  /\ "idle" \in Locations /\ "thread" \in Locations /\ "orphan" \in Locations
  /\ "stat" \in Locations /\ "bind" \in Locations /\ "recheck" \in Locations
  /\ "unlink" \in Locations /\ "orphanEnd" \in Locations /\ "lease" \in Locations
  /\ "publish" \in Locations /\ "confirm" \in Locations /\ "cs" \in Locations
  /\ "renaming" \in Locations /\ "check" \in Locations
  /\ "unlinkOwn" \in Locations /\ "close" \in Locations
  /\ Returns \subseteq Locations
  /\ "idle" \in Returns /\ "orphan" \in Returns
  /\ "orphanEnd" \in Returns /\ "lease" \in Returns
  /\ "wait" \in Modes /\ Callers \subseteq Modes
  /\ "legacy" \in Generations /\ "refine" \in Generations
  BY BoundAssumption DEF Locations, Returns, Modes, Generations

\* Every variable keeps its type: the type invariant of the lock
\* (_acquire_mutation_lock).
LEMMA TypeStep == ASSUME TypeOK, TokenDrawn, LeaseHeld, [Next]_vars PROVE TypeOK'
  <1>1. ASSUME NEW t \in Threads, NEW m \in Callers, Request(t, m) PROVE TypeOK'
    BY <1>1, NameFacts DEF TypeOK, Request, Goto
  <1>2. ASSUME NEW t \in Threads, Expire(t) PROVE TypeOK'
    BY <1>2, NameFacts DEF TypeOK, Expire
  <1>3. ASSUME NEW t \in Threads, TakeThreadLock(t) PROVE TypeOK'
    <2>1. pc' \in [Threads -> Locations]
      BY <1>3, NameFacts DEF TypeOK, TakeThreadLock, Goto
    <2>2. tlock' \in [Procs -> Threads \cup {NoThread}]
      BY <1>3 DEF TypeOK, TakeThreadLock
    <2>3. token' \in [Threads -> Tokens \cup {NoToken}]
      BY <1>3 DEF TypeOK, TakeThreadLock
    <2>4. dir' \in [Threads -> Generations]
      BY <1>3, NameFacts DEF TypeOK, TakeThreadLock
    <2>5. QED
      BY <1>3, <2>1, <2>2, <2>3, <2>4 DEF TypeOK, TakeThreadLock
  <1>4. ASSUME NEW t \in Threads, ThreadLockBusy(t) PROVE TypeOK'
    BY <1>4, NameFacts DEF TypeOK, ThreadLockBusy, Goto
  <1>5. ASSUME NEW t \in Threads, ClearOwnedOrphan(t) PROVE TypeOK'
    <2>1. pc' \in [Threads -> Locations]
      BY <1>5, NameFacts DEF TypeOK, ClearOwnedOrphan, Goto
    <2>2. ret' \in [Threads -> Returns]
      BY <1>5, NameFacts DEF TypeOK, ClearOwnedOrphan
    <2>3. orphans' \in [Procs -> [Generations -> Tokens \cup {NoToken}]]
      <3> DEFINE k == orphans[ProcOf[t]][dir[t]]
                 left == IF k # NoToken /\ lockFile[dir[t]].token = k THEN k ELSE NoToken
      <3>1. k \in Tokens \cup {NoToken}
        BY ThreadAssumption DEF TypeOK
      <3>2. left \in Tokens \cup {NoToken}
        BY <3>1
      <3>3. orphans' = [orphans EXCEPT ![ProcOf[t]][dir[t]] = left]
        BY <1>5, ThreadAssumption DEF TypeOK, ClearOwnedOrphan
      <3> HIDE DEF left
      <3>4. QED
        BY <3>2, <3>3, ThreadAssumption DEF TypeOK
    <2>4. QED
      BY <1>5, <2>1, <2>2, <2>3 DEF TypeOK, ClearOwnedOrphan
  <1>6. ASSUME NEW t \in Threads, OrphanCleared(t) PROVE TypeOK'
    <2>1. pc' \in [Threads -> Locations]
      BY <1>6, NameFacts DEF TypeOK, OrphanCleared, Goto
    <2>2. ret' \in [Threads -> Returns]
      BY <1>6, NameFacts DEF TypeOK, OrphanCleared
    <2>3. orphans' \in [Procs -> [Generations -> Tokens \cup {NoToken}]]
      <3> DEFINE k == orphans[ProcOf[t]][dir[t]]
                 left == IF lockFile[dir[t]].token = k THEN k ELSE NoToken
      <3>1. k \in Tokens \cup {NoToken}
        BY ThreadAssumption DEF TypeOK
      <3>2. left \in Tokens \cup {NoToken}
        BY <3>1
      <3>3. orphans' = [orphans EXCEPT ![ProcOf[t]][dir[t]] = left]
        BY <1>6, ThreadAssumption DEF TypeOK, OrphanCleared
      <3> HIDE DEF left
      <3>4. QED
        BY <3>2, <3>3, ThreadAssumption DEF TypeOK
    <2>4. QED
      BY <1>6, <2>1, <2>2, <2>3 DEF TypeOK, OrphanCleared
  <1>7. ASSUME NEW t \in Threads, ReadLockFile(t) PROVE TypeOK'
    <2>1. pc' \in [Threads -> Locations]
      BY <1>7, NameFacts DEF TypeOK, ReadLockFile, Goto
    <2>2. seen' \in [Threads -> LockFiles \ {Malformed}]
      BY <1>7, LockFileFacts DEF TypeOK, ReadLockFile, Goto
    <2>3. QED
      BY <1>7, <2>1, <2>2 DEF TypeOK, ReadLockFile
  <1>8. ASSUME NEW t \in Threads, BindRecovery(t) PROVE TypeOK'
    <2>1. pc' \in [Threads -> Locations]
      BY <1>8, NameFacts DEF TypeOK, BindRecovery, Goto
    <2>2. bound' \in [Ports -> Threads \cup Procs \cup {NoThread, Foreign}]
      BY <1>8 DEF TypeOK, BindRecovery, Goto
    <2>3. seen' \in [Threads -> LockFiles \ {Malformed}]
      BY <1>8, LockFileFacts DEF TypeOK, BindRecovery, Goto
    <2>4. QED
      BY <1>8, <2>1, <2>2, <2>3 DEF TypeOK, BindRecovery
  <1>9. ASSUME NEW t \in Threads, RecheckLockFile(t) PROVE TypeOK'
    <2>1. pc' \in [Threads -> Locations]
      BY <1>9, NameFacts DEF TypeOK, RecheckLockFile, Goto, Close
    <2>2. bound' \in [Ports -> Threads \cup Procs \cup {NoThread, Foreign}]
      BY <1>9 DEF TypeOK, RecheckLockFile, Goto, Close
    <2>3. seen' \in [Threads -> LockFiles \ {Malformed}]
      BY <1>9, LockFileFacts DEF TypeOK, RecheckLockFile, Goto, Close
    <2>4. QED
      BY <1>9, <2>1, <2>2, <2>3 DEF TypeOK, RecheckLockFile
  <1>10. ASSUME NEW t \in Threads, UnlinkStale(t) PROVE TypeOK'
    BY <1>10, NameFacts, LockFileFacts DEF TypeOK, UnlinkStale, Goto, Close
  <1>11. ASSUME NEW t \in Threads, UnlinkStaleFails(t) PROVE TypeOK'
    <2>1. pc' \in [Threads -> Locations]
      BY <1>11, NameFacts DEF TypeOK, UnlinkStaleFails, Return, Goto, Close
    <2>2. bound' \in [Ports -> Threads \cup Procs \cup {NoThread, Foreign}]
      BY <1>11 DEF TypeOK, UnlinkStaleFails, Return, Goto, Close
    <2>3. seen' \in [Threads -> LockFiles \ {Malformed}]
      BY <1>11, LockFileFacts DEF TypeOK, UnlinkStaleFails, Return, Goto, Close
    <2>4. tlock' \in [Procs -> Threads \cup {NoThread}]
      BY <1>11 DEF TypeOK, UnlinkStaleFails, Return, Goto, Close
    <2>5. token' \in [Threads -> Tokens \cup {NoToken}]
      BY <1>11 DEF TypeOK, UnlinkStaleFails, Return, Goto, Close
    <2>6. late' \in [Threads -> BOOLEAN]
      BY <1>11 DEF TypeOK, UnlinkStaleFails, Return, Goto, Close
    <2>7. mode' \in [Threads -> Modes]
      BY <1>11, NameFacts DEF TypeOK, UnlinkStaleFails, Return, Goto, Close
    <2>8. dir' \in [Threads -> Generations]
      BY <1>11, NameFacts DEF TypeOK, UnlinkStaleFails, Return, Goto, Close
    <2>9. ret' \in [Threads -> Returns]
      <3>1. CASE ret[t] = "orphanEnd"
        BY <1>11, <3>1, NameFacts DEF TypeOK, UnlinkStaleFails
      <3>2. CASE ret[t] # "orphanEnd"
        BY <1>11, <3>2, NameFacts DEF TypeOK, UnlinkStaleFails, Return
      <3>3. QED
        BY <3>1, <3>2
    <2>10. QED
      BY <1>11, <2>1, <2>2, <2>3, <2>4, <2>5, <2>6, <2>7, <2>8, <2>9 DEF TypeOK, UnlinkStaleFails
  <1>12. ASSUME NEW t \in Threads, NewLease(t) PROVE TypeOK'
    BY <1>12, NameFacts DEF TypeOK, NewLease, Goto
  <1>13. ASSUME NEW t \in Threads, Publish(t) PROVE TypeOK'
    <2>1. pc' \in [Threads -> Locations]
      BY <1>13, NameFacts DEF TypeOK, Publish, Goto, LeaseHeld, TokenDrawn, Leasing
    <2>2. lockFile' \in [Generations -> LockFiles]
      BY <1>13, LockFileFacts DEF TypeOK, Publish, Goto, LeaseHeld, TokenDrawn, Leasing
    <2>3. QED
      BY <1>13, <2>1, <2>2 DEF TypeOK, Publish
  <1>14. ASSUME NEW t \in Threads, PublishRefused(t) PROVE TypeOK'
    <2>1. pc' \in [Threads -> Locations]
      BY <1>14, NameFacts DEF TypeOK, PublishRefused, Return, Goto, Close
    <2>2. bound' \in [Ports -> Threads \cup Procs \cup {NoThread, Foreign}]
      BY <1>14 DEF TypeOK, PublishRefused, Return, Goto, Close
    <2>3. port' \in [Threads -> Ports \cup {NoPort}]
      BY <1>14 DEF TypeOK, PublishRefused, Return, Goto, Close
    <2>4. tlock' \in [Procs -> Threads \cup {NoThread}]
      BY <1>14 DEF TypeOK, PublishRefused, Return, Goto, Close
    <2>5. token' \in [Threads -> Tokens \cup {NoToken}]
      BY <1>14 DEF TypeOK, PublishRefused, Return, Goto, Close
    <2>6. late' \in [Threads -> BOOLEAN]
      BY <1>14 DEF TypeOK, PublishRefused, Return, Goto, Close
    <2>7. mode' \in [Threads -> Modes]
      BY <1>14, NameFacts DEF TypeOK, PublishRefused, Return, Goto, Close
    <2>8. dir' \in [Threads -> Generations]
      BY <1>14, NameFacts DEF TypeOK, PublishRefused, Return, Goto, Close
    <2>9. ret' \in [Threads -> Returns]
      BY <1>14, NameFacts DEF TypeOK, PublishRefused, Return, Goto, Close
    <2>10. QED
      BY <1>14, <2>1, <2>2, <2>3, <2>4, <2>5, <2>6, <2>7, <2>8, <2>9 DEF TypeOK, PublishRefused
  <1>15. ASSUME NEW t \in Threads, Confirm(t) PROVE TypeOK'
    <2>1. pc' \in [Threads -> Locations]
      BY <1>15, NameFacts DEF TypeOK, Confirm, Goto
    <2>2. depth' \in [Threads -> 0..MaxDepth]
      BY <1>15, BoundAssumption DEF TypeOK, Confirm, Goto
    <2>3. ret' \in [Threads -> Returns]
      BY <1>15, NameFacts DEF TypeOK, Confirm, Goto
    <2>4. QED
      BY <1>15, <2>1, <2>2, <2>3 DEF TypeOK, Confirm
  <1>16. ASSUME NEW t \in Threads, Renamed(t) PROVE TypeOK'
    BY <1>16, NameFacts DEF TypeOK, Renamed, Goto
  <1>17. ASSUME NEW t \in Threads, CheckOwn(t) PROVE TypeOK'
    BY <1>17, NameFacts DEF TypeOK, CheckOwn, Goto
  <1>18. ASSUME NEW t \in Threads, UnlinkOwn(t) PROVE TypeOK'
    BY <1>18, NameFacts, LockFileFacts DEF TypeOK, UnlinkOwn, Goto
  <1>19. ASSUME NEW t \in Threads, UnlinkOwnFails(t) PROVE TypeOK'
    BY <1>19, NameFacts, LockFileFacts DEF TypeOK, UnlinkOwnFails, Goto
  <1>20. ASSUME NEW t \in Threads, CloseLease(t) PROVE TypeOK'
    <2>1. pc' \in [Threads -> Locations]
      BY <1>20, NameFacts DEF TypeOK, CloseLease, Return, Goto, Close
    <2>2. bound' \in [Ports -> Threads \cup Procs \cup {NoThread, Foreign}]
      BY <1>20 DEF TypeOK, CloseLease, Return, Goto, Close
    <2>3. port' \in [Threads -> Ports \cup {NoPort}]
      BY <1>20 DEF TypeOK, CloseLease, Return, Goto, Close
    <2>4. tlock' \in [Procs -> Threads \cup {NoThread}]
      BY <1>20 DEF TypeOK, CloseLease, Return, Goto, Close
    <2>5. token' \in [Threads -> Tokens \cup {NoToken}]
      BY <1>20 DEF TypeOK, CloseLease, Return, Goto, Close
    <2>6. late' \in [Threads -> BOOLEAN]
      BY <1>20 DEF TypeOK, CloseLease, Return, Goto, Close
    <2>7. mode' \in [Threads -> Modes]
      BY <1>20, NameFacts DEF TypeOK, CloseLease, Return, Goto, Close
    <2>8. dir' \in [Threads -> Generations]
      BY <1>20, NameFacts DEF TypeOK, CloseLease, Return, Goto, Close
    <2>9. ret' \in [Threads -> Returns]
      BY <1>20, NameFacts DEF TypeOK, CloseLease, Return, Goto, Close
    <2>10. QED
      BY <1>20, <2>1, <2>2, <2>3, <2>4, <2>5, <2>6, <2>7, <2>8, <2>9 DEF TypeOK, CloseLease
  <1>21. ASSUME NEW t \in Threads, Reenter(t) PROVE TypeOK'
    BY <1>21, NameFacts, BoundAssumption DEF TypeOK, Reenter
  <1>22. ASSUME NEW t \in Threads, Leave(t) PROVE TypeOK'
    <2>1. pc' \in [Threads -> Locations]
      BY <1>22, NameFacts DEF TypeOK, Leave, Goto
    <2>2. depth' \in [Threads -> 0..MaxDepth]
      BY <1>22, BoundAssumption DEF TypeOK, Leave, Goto
    <2>3. ret' \in [Threads -> Returns]
      BY <1>22, NameFacts DEF TypeOK, Leave, Goto
    <2>4. QED
      BY <1>22, <2>1, <2>2, <2>3 DEF TypeOK, Leave
  <1>23. ASSUME NEW t \in Threads, CommitMigration(t) PROVE TypeOK'
    BY <1>23, NameFacts DEF TypeOK, CommitMigration, Goto
  <1>24. ASSUME NEW p \in Procs, Crash(p) PROVE TypeOK'
    <2>1. bound' \in [Ports -> Threads \cup Procs \cup {NoThread, Foreign}]
      BY <1>24 DEF TypeOK, Crash
    <2>2. tlock' \in [Procs -> Threads \cup {NoThread}]
      BY <1>24 DEF TypeOK, Crash
    <2>3. orphans' \in [Procs -> [Generations -> Tokens \cup {NoToken}]]
      BY <1>24 DEF TypeOK, Crash
    <2>4. pc' \in [Threads -> Locations]
      BY <1>24, NameFacts DEF TypeOK, Crash
    <2>5. late' \in [Threads -> BOOLEAN]
      BY <1>24 DEF TypeOK, Crash
    <2>6. token' \in [Threads -> Tokens \cup {NoToken}]
      BY <1>24 DEF TypeOK, Crash
    <2>7. port' \in [Threads -> Ports \cup {NoPort}]
      BY <1>24 DEF TypeOK, Crash
    <2>8. seen' \in [Threads -> LockFiles \ {Malformed}]
      BY <1>24, LockFileFacts DEF TypeOK, Crash
    <2>9. depth' \in [Threads -> 0..MaxDepth]
      BY <1>24, BoundAssumption DEF TypeOK, Crash
    <2>10. mode' \in [Threads -> Modes]
      BY <1>24, NameFacts DEF TypeOK, Crash
    <2>11. dir' \in [Threads -> Generations]
      BY <1>24, NameFacts DEF TypeOK, Crash
    <2>12. ret' \in [Threads -> Returns]
      BY <1>24, NameFacts DEF TypeOK, Crash
    <2>13. crashes' \in 0..MaxCrashes
      BY <1>24, BoundAssumption DEF TypeOK, Crash
    <2>14. QED
      BY <1>24, <2>1, <2>2, <2>3, <2>4, <2>5, <2>6, <2>7, <2>8, <2>9, <2>10, <2>11, <2>12, <2>13 DEF TypeOK, Crash
  <1>25. ASSUME NEW q \in ForeignPorts, ForeignBind(q) \/ ForeignClose(q) PROVE TypeOK'
    BY <1>25, NameFacts, PortAssumption DEF TypeOK, ForeignBind, ForeignClose, threadVars
  <1>26. CASE UNCHANGED vars
    BY <1>26, NameFacts DEF TypeOK, vars, threadVars
  <1>27. ASSUME NEW t \in Threads, LeaseFails(t) PROVE TypeOK'
    <2>1. /\ pc' \in [Threads -> Locations] /\ ret' \in [Threads -> Returns]
          /\ mode' \in [Threads -> Modes] /\ dir' \in [Threads -> Generations]
      BY <1>27, NameFacts DEF TypeOK, LeaseFails, Return, Goto
    <2>2. QED
      BY <1>27, <2>1 DEF TypeOK, LeaseFails, Return
  <1>28. ASSUME NEW t \in Threads, PublishFails(t) PROVE TypeOK'
    <2>1. /\ pc' \in [Threads -> Locations] /\ ret' \in [Threads -> Returns]
          /\ mode' \in [Threads -> Modes] /\ dir' \in [Threads -> Generations]
      BY <1>28, NameFacts DEF TypeOK, PublishFails, Return, Goto
    <2>2. bound' \in [Ports -> Threads \cup Procs \cup {NoThread, Foreign}]
      BY <1>28, ThreadAssumption DEF TypeOK, PublishFails
    <2>3. QED
      BY <1>28, <2>1, <2>2 DEF TypeOK, PublishFails, Return
  <1>29. ASSUME NEW t \in Threads, ConfirmFails(t) PROVE TypeOK'
    BY <1>29, NameFacts DEF TypeOK, ConfirmFails, Goto
  <1>30. ASSUME NEW q \in Ports, Drop(q) PROVE TypeOK'
    BY <1>30 DEF TypeOK, Drop, threadVars
  <1>31. QED
    BY <1>1, <1>2, <1>3, <1>4, <1>5, <1>6, <1>7, <1>8, <1>9, <1>10, <1>11, <1>12,
       <1>13, <1>14, <1>15, <1>16, <1>17, <1>18, <1>19, <1>20, <1>21, <1>22, <1>23,
       <1>24, <1>25, <1>26, <1>27, <1>28, <1>29, <1>30, Steps

-----------------------------------------------------------------------------
(* The inductive part of the invariant beside the types. *)

Safe == /\ TokenDrawn
        /\ LeaseHeld
        /\ RecoveryHeld
        /\ OwnerKeepsFile
        /\ StaleUnchanged
        /\ CurrentGeneration

\* Two owners of one lock file have the port it names bound, so they are one.
LEMMA OneOwner ==
  ASSUME LeaseHeld, OwnerKeepsFile, NEW t \in Threads, NEW u \in Threads,
         pc[t] \in Owning, pc[u] \in Owning, dir[t] = dir[u]
  PROVE  t = u
  <1>1. Claim(token[t], port[t]) = Claim(token[u], port[u])
    BY DEF OwnerKeepsFile
  <1>2. port[t] = port[u]
    BY <1>1 DEF Claim
  <1>3. bound[port[t]] = t /\ bound[port[u]] = u
    BY DEF LeaseHeld, Leasing
  <1>4. QED
    BY <1>2, <1>3

\* What a recovery is about to unlink has no owner: its port is not the owner's.
LEMMA NoOwnerUnlinked ==
  ASSUME Safe, NEW t \in Threads, NEW u \in Threads,
         pc[t] = "unlink", pc[u] \in Owning, dir[t] = dir[u]
  PROVE  FALSE
  <1>1. seen[t] = Claim(token[u], port[u])
    BY DEF Safe, OwnerKeepsFile, StaleUnchanged
  <1>2. seen[t].port = port[u]
    BY <1>1 DEF Claim
  <1>3. bound[seen[t].port] = t /\ bound[port[u]] = u
    BY DEF Safe, LeaseHeld, RecoveryHeld, Leasing
  <1>4. QED
    BY <1>2, <1>3 DEF Owning

\* Two recoveries of one lock file have the port it names bound, so they are one.
LEMMA OneUnlinker ==
  ASSUME Safe, NEW t \in Threads, NEW u \in Threads,
         pc[t] = "unlink", pc[u] = "unlink", dir[t] = dir[u]
  PROVE  t = u
  BY DEF Safe, RecoveryHeld, StaleUnchanged

\* Where a thread has nothing bound and owns no file.
Resting == {"idle", "thread", "orphan", "stat", "orphanEnd", "lease"}

\* A thread that lets go of what it has, and binds nothing, disturbs nobody.
LEMMA LetGo ==
  ASSUME Safe, ThreadAssumption, NEW t \in Threads, NEW l \in Resting,
         pc \in [Threads -> Locations], pc' = [pc EXCEPT ![t] = l],
         l \notin {"idle", "thread"} => token'[t] \in Tokens,
         \A u \in Threads \ {t} : /\ token'[u] = token[u] /\ dir'[u] = dir[u]
                                  /\ port'[u] = port[u] /\ seen'[u] = seen[u],
         \A q \in Ports : bound[q] \in Threads \ {t} => bound'[q] = bound[q],
         lockFile' = lockFile, gen' = gen
  PROVE  Safe'
  <1>1. pc'[t] \in Resting /\ \A u \in Threads \ {t} : pc'[u] = pc[u]
    OBVIOUS
  <1>2. TokenDrawn'
    BY <1>1 DEF Safe, TokenDrawn
  <1>3. LeaseHeld'
    BY <1>1 DEF Safe, LeaseHeld, Leasing, Owning, Resting
  <1>4. RecoveryHeld'
    BY <1>1 DEF Safe, RecoveryHeld, Resting
  <1>5. OwnerKeepsFile'
    BY <1>1 DEF Safe, OwnerKeepsFile, Owning, Resting
  <1>6. StaleUnchanged'
    BY <1>1 DEF Safe, StaleUnchanged, Resting
  <1>7. CurrentGeneration'
    BY <1>1 DEF Safe, CurrentGeneration, Resting
  <1>8. QED
    BY <1>2, <1>3, <1>4, <1>5, <1>6, <1>7 DEF Safe

\* An owner that goes on as owner, or leaves its file, disturbs nobody.
LEMMA OwnerMoves ==
  ASSUME Safe, NEW t \in Threads, NEW l \in Owning \cup {"close"},
         pc \in [Threads -> Locations], pc' = [pc EXCEPT ![t] = l],
         pc[t] \in Owning, l = "cs" => dir[t] = gen,
         UNCHANGED <<lockFile, bound, gen, dir, token, port, seen>>
  PROVE  Safe'
  <1>1. pc'[t] = l /\ \A u \in Threads \ {t} : pc'[u] = pc[u]
    OBVIOUS
  <1>2. TokenDrawn'
    BY <1>1 DEF Safe, TokenDrawn, Owning
  <1>3. LeaseHeld'
    BY <1>1 DEF Safe, LeaseHeld, Leasing, Owning
  <1>4. RecoveryHeld'
    BY <1>1 DEF Safe, RecoveryHeld, Owning
  <1>5. OwnerKeepsFile'
    BY <1>1 DEF Safe, OwnerKeepsFile, Owning
  <1>6. StaleUnchanged'
    BY <1>1 DEF Safe, StaleUnchanged, Owning
  <1>7. CurrentGeneration'
    BY <1>1 DEF Safe, CurrentGeneration, Owning
  <1>8. QED
    BY <1>2, <1>3, <1>4, <1>5, <1>6, <1>7 DEF Safe

\* Where neither a thread's place nor what it counts on changes.
LEMMA Frame ==
  ASSUME Safe, UNCHANGED <<pc, lockFile, bound, gen, dir, token, port, seen>>
  PROVE  Safe'
  BY DEF Safe, TokenDrawn, LeaseHeld, RecoveryHeld, OwnerKeepsFile, StaleUnchanged,
         CurrentGeneration

-----------------------------------------------------------------------------
\* A thread that goes back to its caller or to its loop.
LEMMA LettingGo ==
  ASSUME TypeOK, Safe, NEW t \in Threads,
         \/ \E m \in Callers : Request(t, m)
         \/ ThreadLockBusy(t) \/ TakeThreadLock(t) \/ ClearOwnedOrphan(t)
         \/ OrphanCleared(t) \/ UnlinkStaleFails(t)
         \/ LeaseFails(t) \/ PublishRefused(t) \/ PublishFails(t) \/ CloseLease(t)
  PROVE  Safe'
  <1> USE ThreadAssumption
  <1> DEFINE Others == /\ \A u \in Threads \ {t} :
                             /\ token'[u] = token[u] /\ dir'[u] = dir[u]
                             /\ port'[u] = port[u] /\ seen'[u] = seen[u]
                       /\ \A q \in Ports : bound[q] \in Threads \ {t} => bound'[q] = bound[q]
                       /\ lockFile' = lockFile /\ gen' = gen
             Drawn(l) == l \notin {"idle", "thread"} => token'[t] \in Tokens
  <1>1. pc[t] \notin {"idle", "thread"} => token[t] \in Tokens
    BY DEF Safe, TokenDrawn
  <1>2. ASSUME NEW l \in Resting, pc' = [pc EXCEPT ![t] = l], Others, Drawn(l)
        PROVE  Safe'
    BY <1>2, LetGo DEF TypeOK
  <1> HIDE DEF Others, Drawn
  <1>3. CASE \E m \in Callers : Request(t, m)
    BY <1>2, <1>3 DEF Request, Goto, Others, Drawn, Resting
  <1>4. CASE ThreadLockBusy(t)
    BY <1>2, <1>4 DEF ThreadLockBusy, Goto, Others, Drawn, Resting
  <1>5. CASE TakeThreadLock(t)
    <2>1. token'[t] \in Tokens
      BY <1>5 DEF TypeOK, TakeThreadLock
    <2>2. Others
      BY <1>5 DEF TypeOK, TakeThreadLock, Others
    <2>3. QED
      BY <1>2, <1>5, <2>1, <2>2 DEF TakeThreadLock, Goto, Drawn, Resting
  <1>6. CASE ClearOwnedOrphan(t)
    BY <1>1, <1>2, <1>6 DEF ClearOwnedOrphan, Goto, Others, Drawn, Resting
  <1>7. CASE OrphanCleared(t)
    BY <1>1, <1>2, <1>7 DEF OrphanCleared, Goto, Others, Drawn, Resting
  <1>8. CASE UnlinkStaleFails(t)
    <2>1. bound[seen[t].port] = t
      BY <1>8 DEF UnlinkStaleFails, Safe, RecoveryHeld
    <2>2. Others
      BY <1>8, <2>1 DEF TypeOK, UnlinkStaleFails, Close, Return, Others
    <2>3. CASE ret[t] = "orphanEnd"
      BY <1>1, <1>2, <1>8, <2>2, <2>3 DEF UnlinkStaleFails, Goto, Drawn, Resting
    <2>4. CASE ret[t] # "orphanEnd"
      BY <1>2, <1>8, <2>2, <2>4 DEF UnlinkStaleFails, Return, Goto, Drawn, Resting
    <2>5. QED
      BY <2>3, <2>4
  <1>9. CASE PublishRefused(t)
    <2>1. bound[port[t]] = t
      BY <1>9 DEF PublishRefused, Safe, LeaseHeld, Leasing
    <2>2. Others
      BY <1>9, <2>1 DEF TypeOK, PublishRefused, Close, Return, Others
    <2>3. CASE mode[t] = "try" \/ late[t]
      BY <1>2, <1>9, <2>2, <2>3 DEF PublishRefused, Return, Goto, Drawn, Resting
    <2>4. CASE ~(mode[t] = "try" \/ late[t])
      BY <1>1, <1>2, <1>9, <2>2, <2>4 DEF PublishRefused, Goto, Drawn, Resting
    <2>5. QED
      BY <2>3, <2>4
  <1>10. CASE CloseLease(t)
    <2>1. bound[port[t]] = t
      BY <1>10 DEF CloseLease, Safe, LeaseHeld, Leasing
    <2>2. Others
      BY <1>10, <2>1 DEF TypeOK, CloseLease, Close, Return, Others
    <2>3. CASE ret[t] = "idle"
      BY <1>2, <1>10, <2>2, <2>3 DEF CloseLease, Return, Goto, Drawn, Resting
    <2>4. CASE ret[t] # "idle"
      BY <1>1, <1>2, <1>10, <2>2, <2>4 DEF CloseLease, Goto, Drawn, Resting
    <2>5. QED
      BY <2>3, <2>4
  <1>11. CASE LeaseFails(t)
    <2>1. Others
      BY <1>11 DEF TypeOK, LeaseFails, Return, Others
    <2>2. QED
      BY <1>2, <1>11, <2>1 DEF LeaseFails, Return, Goto, Drawn, Resting
  <1>12. CASE PublishFails(t)
    <2>1. bound[port[t]] = t
      BY <1>12 DEF PublishFails, Safe, LeaseHeld, Leasing
    <2>2. Others
      BY <1>12, <2>1 DEF TypeOK, PublishFails, Return, Others
    <2>3. QED
      BY <1>2, <1>12, <2>2 DEF PublishFails, Return, Goto, Drawn, Resting
  <1>13. QED
    BY <1>3, <1>4, <1>5, <1>6, <1>7, <1>8, <1>9, <1>10, <1>11, <1>12

-----------------------------------------------------------------------------
\* A waiter on its way through the stale check of a dead owner's file.
LEMMA Recovering ==
  ASSUME TypeOK, Safe, NEW t \in Threads,
         ReadLockFile(t) \/ BindRecovery(t) \/ RecheckLockFile(t) \/ UnlinkStale(t)
  PROVE  Safe'
  <1> USE ThreadAssumption
  <1> DEFINE Others == /\ \A u \in Threads \ {t} :
                             /\ token'[u] = token[u] /\ dir'[u] = dir[u]
                             /\ port'[u] = port[u] /\ seen'[u] = seen[u]
                       /\ \A q \in Ports : bound[q] \in Threads \ {t} => bound'[q] = bound[q]
                       /\ lockFile' = lockFile /\ gen' = gen
  <1>1. pc[t] \in {"stat", "bind", "recheck", "unlink"}
    BY DEF ReadLockFile, BindRecovery, RecheckLockFile, UnlinkStale
  <1>2. token[t] \in Tokens /\ token'[t] = token[t] /\ ret[t] \in Resting
    BY <1>1 DEF TypeOK, Safe, TokenDrawn, Returns, Resting, ReadLockFile,
                BindRecovery, RecheckLockFile, UnlinkStale
  <1>3. ASSUME pc' = [pc EXCEPT ![t] = ret[t]], Others PROVE Safe'
    BY <1>2, <1>3, LetGo DEF TypeOK
  <1> HIDE DEF Others
  <1>4. CASE ReadLockFile(t)
    <2>1. CASE lockFile[dir[t]].port = NoPort
      BY <1>3, <1>4, <2>1 DEF ReadLockFile, Goto, Others
    <2>2. CASE lockFile[dir[t]].port # NoPort
      <3>1. /\ pc' = [pc EXCEPT ![t] = "bind"]
            /\ seen' = [seen EXCEPT ![t] = lockFile[dir[t]]]
            /\ UNCHANGED <<lockFile, bound, gen, dir, token, port>>
        BY <1>4, <2>2 DEF ReadLockFile, Goto
      <3>2. seen'[t].there /\ seen'[t].port \in Ports
        BY <2>2, <3>1, LockFileFacts DEF TypeOK
      <3>3. pc'[t] = "bind" /\ \A u \in Threads \ {t} : pc'[u] = pc[u] /\ seen'[u] = seen[u]
        BY <3>1 DEF TypeOK
      <3>4. TokenDrawn' /\ LeaseHeld' /\ OwnerKeepsFile' /\ CurrentGeneration'
        BY <1>2, <3>1, <3>3 DEF Safe, TokenDrawn, LeaseHeld, OwnerKeepsFile,
                                CurrentGeneration, Leasing, Owning
      <3>5. RecoveryHeld' /\ StaleUnchanged'
        BY <3>1, <3>2, <3>3 DEF Safe, RecoveryHeld, StaleUnchanged
      <3>6. QED
        BY <3>4, <3>5 DEF Safe
    <2>3. QED
      BY <2>1, <2>2
  <1>5. CASE BindRecovery(t)
    <2>1. CASE bound[seen[t].port] # NoThread
      <3>1. Others
        BY <1>5, <2>1 DEF BindRecovery, Others, TypeOK
      <3>2. QED
        BY <1>3, <1>5, <2>1, <3>1 DEF BindRecovery, Goto
    <2>2. CASE bound[seen[t].port] = NoThread
      <3>1. /\ pc[t] = "bind"
            /\ pc' = [pc EXCEPT ![t] = "recheck"]
            /\ bound' = [bound EXCEPT ![seen[t].port] = t]
            /\ UNCHANGED <<lockFile, gen, dir, token, port, seen>>
        BY <1>5, <2>2 DEF BindRecovery, Goto
      <3>2. pc'[t] = "recheck" /\ \A u \in Threads \ {t} : pc'[u] = pc[u]
        BY <3>1 DEF TypeOK
      <3>3. seen[t].port \in Ports /\ bound'[seen[t].port] = t
        BY <3>1 DEF TypeOK, Safe, RecoveryHeld
      <3>4. \A q \in Ports : bound[q] \in Threads => bound'[q] = bound[q]
        BY <2>2, <3>1 DEF TypeOK
      <3>5. TokenDrawn' /\ OwnerKeepsFile' /\ CurrentGeneration' /\ StaleUnchanged'
        BY <1>2, <3>1, <3>2 DEF Safe, TokenDrawn, OwnerKeepsFile, CurrentGeneration,
                                StaleUnchanged, Owning
      <3>6. LeaseHeld'
        BY <3>1, <3>2, <3>4 DEF Safe, LeaseHeld, Leasing, Owning
      <3>7. RecoveryHeld'
        BY <3>1, <3>2, <3>3, <3>4 DEF Safe, RecoveryHeld
      <3>8. QED
        BY <3>5, <3>6, <3>7 DEF Safe
    <2>3. QED
      BY <2>1, <2>2
  <1>6. CASE RecheckLockFile(t)
    <2>1. CASE lockFile[dir[t]] # seen[t]
      <3>1. bound[seen[t].port] = t
        BY <1>6 DEF RecheckLockFile, Safe, RecoveryHeld
      <3>2. Others
        BY <1>6, <2>1, <3>1 DEF RecheckLockFile, Close, Others, TypeOK
      <3>3. QED
        BY <1>3, <1>6, <2>1, <3>2 DEF RecheckLockFile, Goto
    <2>2. CASE lockFile[dir[t]] = seen[t]
      <3>1. /\ pc[t] = "recheck"
            /\ pc' = [pc EXCEPT ![t] = "unlink"]
            /\ UNCHANGED <<lockFile, bound, gen, dir, token, port, seen>>
        BY <1>6, <2>2 DEF RecheckLockFile, Goto
      <3>2. pc'[t] = "unlink" /\ \A u \in Threads \ {t} : pc'[u] = pc[u]
        BY <3>1 DEF TypeOK
      <3>3. TokenDrawn' /\ LeaseHeld' /\ OwnerKeepsFile' /\ CurrentGeneration'
        BY <1>2, <3>1, <3>2 DEF Safe, TokenDrawn, LeaseHeld, OwnerKeepsFile,
                                CurrentGeneration, Leasing, Owning
      <3>4. RecoveryHeld' /\ StaleUnchanged'
        BY <2>2, <3>1, <3>2 DEF Safe, RecoveryHeld, StaleUnchanged
      <3>5. QED
        BY <3>3, <3>4 DEF Safe
    <2>3. QED
      BY <2>1, <2>2
  <1>7. CASE UnlinkStale(t)
    <2>1. /\ pc[t] = "unlink" /\ gen' = gen
          /\ pc' = [pc EXCEPT ![t] = ret[t]]
          /\ lockFile' = [lockFile EXCEPT ![dir[t]] = NoFile]
          /\ bound' = [bound EXCEPT ![seen[t].port] = NoThread]
          /\ seen' = [seen EXCEPT ![t] = NoFile]
          /\ UNCHANGED <<dir, token, port>>
      BY <1>7 DEF UnlinkStale, Goto, Close
    <2>2. /\ pc'[t] = ret[t]
          /\ \A u \in Threads \ {t} : pc'[u] = pc[u] /\ seen'[u] = seen[u]
      BY <2>1 DEF TypeOK
    <2>3. \A q \in Ports : bound[q] \in Threads \ {t} => bound'[q] = bound[q]
      BY <2>1 DEF TypeOK, Safe, RecoveryHeld
    <2>4. ASSUME NEW u \in Threads \ {t}, pc[u] \in Owning \cup {"unlink"}
          PROVE  lockFile'[dir[u]] = lockFile[dir[u]]
      <3>1. dir[u] # dir[t]
        BY <2>1, <2>4, NoOwnerUnlinked, OneUnlinker
      <3>2. QED
        BY <2>1, <3>1 DEF TypeOK
    <2>5. TokenDrawn' /\ CurrentGeneration'
      BY <1>2, <2>1, <2>2 DEF Safe, TokenDrawn, CurrentGeneration, Resting
    <2>6. LeaseHeld'
      BY <1>2, <2>1, <2>2, <2>3 DEF Safe, LeaseHeld, Leasing, Owning, Resting
    <2>7. RecoveryHeld'
      BY <1>2, <2>1, <2>2, <2>3 DEF Safe, RecoveryHeld, Resting
    <2>8. OwnerKeepsFile'
      BY <1>2, <2>1, <2>2, <2>4 DEF Safe, OwnerKeepsFile, Owning, Resting
    <2>9. StaleUnchanged'
      BY <1>2, <2>1, <2>2, <2>4 DEF Safe, StaleUnchanged, Resting
    <2>10. QED
      BY <2>5, <2>6, <2>7, <2>8, <2>9 DEF Safe
  <1>8. QED
    BY <1>4, <1>5, <1>6, <1>7

-----------------------------------------------------------------------------
\* Publishing: the kernel hands out a port nobody has, os.link creates a file
\* nobody owns.
LEMMA Publishing ==
  ASSUME TypeOK, Safe, NEW t \in Threads, NewLease(t) \/ Publish(t)
  PROVE  Safe'
  <1> USE ThreadAssumption
  <1>1. CASE NewLease(t)
    <2>1. /\ pc[t] = "lease" /\ pc' = [pc EXCEPT ![t] = "publish"]
          /\ UNCHANGED <<lockFile, gen, dir, token, seen>>
      BY <1>1 DEF NewLease, Goto
    <2>2. PICK q \in Ports : /\ bound[q] = NoThread
                             /\ bound' = [bound EXCEPT ![q] = t]
                             /\ port' = [port EXCEPT ![t] = q]
      BY <1>1 DEF NewLease
    <2>3. /\ pc'[t] = "publish" /\ port'[t] = q /\ bound'[q] = t
          /\ \A u \in Threads \ {t} : pc'[u] = pc[u] /\ port'[u] = port[u]
          /\ \A r \in Ports : bound[r] \in Threads => bound'[r] = bound[r]
      BY <2>1, <2>2 DEF TypeOK
    <2>4. /\ TokenDrawn' /\ OwnerKeepsFile' /\ StaleUnchanged' /\ CurrentGeneration'
      BY <2>1, <2>3 DEF Safe, TokenDrawn, OwnerKeepsFile, StaleUnchanged,
                        CurrentGeneration, Owning
    <2>5. LeaseHeld'
      BY <2>1, <2>3 DEF Safe, LeaseHeld, Leasing, Owning
    <2>6. RecoveryHeld'
      BY <2>1, <2>3 DEF Safe, RecoveryHeld
    <2>7. QED
      BY <2>4, <2>5, <2>6 DEF Safe
  <1>2. CASE Publish(t)
    <2>1. /\ pc[t] = "publish" /\ pc' = [pc EXCEPT ![t] = "confirm"]
          /\ ~lockFile[dir[t]].there
          /\ lockFile' = [lockFile EXCEPT ![dir[t]] = Claim(token[t], port[t])]
          /\ UNCHANGED <<gen, bound, dir, token, port, seen>>
      BY <1>2 DEF Publish, Goto
    <2>2. pc'[t] = "confirm" /\ \A u \in Threads \ {t} : pc'[u] = pc[u]
      BY <2>1 DEF TypeOK
    <2>3. lockFile'[dir[t]] = Claim(token[t], port[t])
      BY <2>1 DEF TypeOK
    <2>4. ASSUME NEW u \in Threads \ {t}, pc[u] \in Owning \cup {"unlink"}
          PROVE  lockFile'[dir[u]] = lockFile[dir[u]]
      <3>1. CASE pc[u] = "unlink"
        BY <2>1, <3>1 DEF TypeOK, Safe, StaleUnchanged, RecoveryHeld
      <3>2. CASE pc[u] \in Owning
        <4>1. lockFile[dir[u]] = Claim(token[u], port[u])
          BY <3>2 DEF Safe, OwnerKeepsFile
        <4>2. lockFile[dir[u]].there
          BY <4>1 DEF Claim
        <4>3. QED
          BY <2>1, <4>2 DEF TypeOK
      <3>3. QED
        BY <2>4, <3>1, <3>2
    <2>5. TokenDrawn' /\ LeaseHeld' /\ RecoveryHeld' /\ CurrentGeneration'
      BY <2>1, <2>2 DEF Safe, TokenDrawn, LeaseHeld, RecoveryHeld, CurrentGeneration,
                        Leasing, Owning
    <2>6. OwnerKeepsFile'
      BY <2>1, <2>2, <2>3, <2>4 DEF Safe, OwnerKeepsFile
    <2>7. StaleUnchanged'
      BY <2>1, <2>2, <2>4 DEF Safe, StaleUnchanged
    <2>8. QED
      BY <2>5, <2>6, <2>7 DEF Safe
  <1>3. QED
    BY <1>1, <1>2

\* From the published file to its removal: the owner's own steps.
LEMMA OwnersSteps ==
  ASSUME TypeOK, Safe, NEW t \in Threads,
         \/ Confirm(t) \/ ConfirmFails(t) \/ Leave(t) \/ CommitMigration(t) \/ Renamed(t)
         \/ CheckOwn(t) \/ UnlinkOwn(t) \/ UnlinkOwnFails(t)
  PROVE  Safe'
  <1>1. ASSUME NEW l \in Owning \cup {"close"}, pc' = [pc EXCEPT ![t] = l],
               pc[t] \in Owning, l = "cs" => dir[t] = gen,
               UNCHANGED <<lockFile, bound, gen, dir, token, port, seen>>
        PROVE  Safe'
    BY <1>1, OwnerMoves DEF TypeOK
  <1>2. CASE Confirm(t)
    <2>1. CASE dir[t] = gen
      BY <1>1, <1>2, <2>1 DEF Confirm, Goto, Owning
    <2>2. CASE dir[t] # gen
      BY <1>1, <1>2, <2>2 DEF Confirm, Goto, Owning
    <2>3. QED
      BY <2>1, <2>2
  <1>3. CASE Leave(t)
    <2>1. CASE depth[t] > 1
      BY <1>3, <2>1, Frame DEF Leave
    <2>2. CASE ~(depth[t] > 1)
      BY <1>1, <1>3, <2>2 DEF Leave, Goto, Owning
    <2>3. QED
      BY <2>1, <2>2
  <1>4. CASE CommitMigration(t)
    <2>1. /\ pc[t] = "cs" /\ pc' = [pc EXCEPT ![t] = "renaming"]
          /\ UNCHANGED <<lockFile, bound, dir, token, port, seen>>
      BY <1>4 DEF CommitMigration, Goto
    <2>2. pc'[t] = "renaming" /\ \A u \in Threads \ {t} : pc'[u] = pc[u]
      BY <2>1 DEF TypeOK
    <2>3. \A u \in Threads \ {t} : pc[u] # "cs"
      BY <2>1, OneOwner DEF Safe, CurrentGeneration, Owning
    <2>4. CurrentGeneration'
      BY <2>2, <2>3 DEF CurrentGeneration
    <2>5. TokenDrawn' /\ LeaseHeld' /\ RecoveryHeld' /\ StaleUnchanged'
      BY <2>1, <2>2 DEF Safe, TokenDrawn, LeaseHeld, RecoveryHeld, StaleUnchanged,
                        Leasing, Owning
    <2>6. OwnerKeepsFile'
      BY <2>1, <2>2 DEF Safe, OwnerKeepsFile, Owning
    <2>7. QED
      BY <2>4, <2>5, <2>6 DEF Safe
  <1>5. CASE Renamed(t)
    BY <1>1, <1>5 DEF Renamed, Goto, Owning
  <1>6. CASE CheckOwn(t)
    BY <1>1, <1>6 DEF CheckOwn, Goto, Owning
  <1>7. CASE UnlinkOwn(t)
    <2>1. /\ pc[t] = "unlinkOwn" /\ pc' = [pc EXCEPT ![t] = "close"]
          /\ lockFile' = [lockFile EXCEPT ![dir[t]] = NoFile]
          /\ UNCHANGED <<gen, bound, dir, token, port, seen>>
      BY <1>7 DEF UnlinkOwn, Goto
    <2>2. pc'[t] = "close" /\ \A u \in Threads \ {t} : pc'[u] = pc[u]
      BY <2>1 DEF TypeOK
    <2>3. ASSUME NEW u \in Threads \ {t}, pc[u] \in Owning \cup {"unlink"}
          PROVE  lockFile'[dir[u]] = lockFile[dir[u]]
      <3>1. dir[u] # dir[t]
        BY <2>1, <2>3, NoOwnerUnlinked, OneOwner DEF Safe, Owning
      <3>2. QED
        BY <2>1, <3>1 DEF TypeOK
    <2>4. TokenDrawn' /\ LeaseHeld' /\ RecoveryHeld' /\ CurrentGeneration'
      BY <2>1, <2>2 DEF Safe, TokenDrawn, LeaseHeld, RecoveryHeld, CurrentGeneration,
                        Leasing, Owning
    <2>5. OwnerKeepsFile' /\ StaleUnchanged'
      BY <2>1, <2>2, <2>3 DEF Safe, OwnerKeepsFile, StaleUnchanged, Owning
    <2>6. QED
      BY <2>4, <2>5 DEF Safe
  <1>8. CASE UnlinkOwnFails(t)
    BY <1>1, <1>8 DEF UnlinkOwnFails, Goto, Owning
  <1>9. CASE ConfirmFails(t)
    BY <1>1, <1>9 DEF ConfirmFails, Goto, Owning
  <1>10. QED
    BY <1>2, <1>3, <1>4, <1>5, <1>6, <1>7, <1>8, <1>9

\* A death frees only the dead process's ports, a process drops only ports no thread
\* knows, and an unrelated program takes only ports that are free.
LEMMA Environment ==
  ASSUME TypeOK, Safe,
         \/ \E p \in Procs : Crash(p)
         \/ \E q \in ForeignPorts : ForeignBind(q) \/ ForeignClose(q)
         \/ \E q \in Ports : Drop(q)
  PROVE  Safe'
  <1> USE ThreadAssumption
  <1>1. ASSUME NEW p \in Procs, Crash(p) PROVE Safe'
    <2> DEFINE dead == {t \in Threads : ProcOf[t] = p}
    <2>1. /\ \A t \in dead : pc'[t] = "idle"
          /\ \A t \in Threads \ dead :
               /\ pc'[t] = pc[t] /\ dir'[t] = dir[t] /\ token'[t] = token[t]
               /\ port'[t] = port[t] /\ seen'[t] = seen[t]
          /\ lockFile' = lockFile /\ gen' = gen
      BY <1>1 DEF Crash
    <2>2. \A q \in Ports : bound[q] \in Threads \ dead => bound'[q] = bound[q]
      BY <1>1, p \notin Threads DEF Crash
    <2> HIDE DEF dead
    <2>3. TokenDrawn' /\ OwnerKeepsFile' /\ StaleUnchanged' /\ CurrentGeneration'
      BY <2>1 DEF Safe, TokenDrawn, OwnerKeepsFile, StaleUnchanged, CurrentGeneration,
                  Owning
    <2>4. LeaseHeld'
      BY <2>1, <2>2 DEF Safe, LeaseHeld, Leasing, Owning
    <2>5. RecoveryHeld'
      BY <2>1, <2>2 DEF Safe, RecoveryHeld
    <2>6. QED
      BY <2>3, <2>4, <2>5 DEF Safe
  <1>2. ASSUME NEW q \in ForeignPorts, ForeignBind(q) \/ ForeignClose(q) PROVE Safe'
    <2>1. UNCHANGED <<pc, lockFile, gen, dir, token, port, seen>>
      BY <1>2 DEF ForeignBind, ForeignClose, threadVars
    <2>2. \A r \in Ports : bound[r] \in Threads => bound'[r] = bound[r]
      BY <1>2, PortAssumption DEF ForeignBind, ForeignClose, TypeOK
    <2>3. TokenDrawn' /\ OwnerKeepsFile' /\ StaleUnchanged' /\ CurrentGeneration'
      BY <2>1 DEF Safe, TokenDrawn, OwnerKeepsFile, StaleUnchanged, CurrentGeneration
    <2>4. LeaseHeld' /\ RecoveryHeld'
      BY <2>1, <2>2 DEF Safe, LeaseHeld, RecoveryHeld
    <2>5. QED
      BY <2>3, <2>4 DEF Safe
  <1>3. ASSUME NEW q \in Ports, Drop(q) PROVE Safe'
    <2>1. UNCHANGED <<pc, lockFile, gen, dir, token, port, seen>>
      BY <1>3 DEF Drop, threadVars
    <2>2. \A r \in Ports : bound[r] \in Threads => bound'[r] = bound[r]
      BY <1>3 DEF Drop, TypeOK
    <2>3. TokenDrawn' /\ OwnerKeepsFile' /\ StaleUnchanged' /\ CurrentGeneration'
      BY <2>1 DEF Safe, TokenDrawn, OwnerKeepsFile, StaleUnchanged, CurrentGeneration
    <2>4. LeaseHeld' /\ RecoveryHeld'
      BY <2>1, <2>2 DEF Safe, LeaseHeld, RecoveryHeld
    <2>5. QED
      BY <2>3, <2>4 DEF Safe
  <1>4. QED
    BY <1>1, <1>2, <1>3

\* Every step keeps the inductive part.
LEMMA SafeStep == ASSUME TypeOK, Safe, [Next]_vars PROVE Safe'
  <1>1. CASE UNCHANGED vars
    BY <1>1, Frame DEF vars, threadVars
  <1>2. ASSUME NEW t \in Threads, Expire(t) \/ Reenter(t) PROVE Safe'
    BY <1>2, Frame DEF Expire, Reenter
  <1>3. QED
    BY <1>1, <1>2, Steps, LettingGo, Recovering, Publishing, OwnersSteps, Environment

-----------------------------------------------------------------------------
\* What every reachable state satisfies.
Inv == TypeOK /\ Safe

\* The lock starts unowned, every thread idle.
LEMMA Initially == Init => Inv
  <1> SUFFICES ASSUME Init PROVE Inv
    OBVIOUS
  <1>1. TypeOK
    <2>1. /\ lockFile \in [Generations -> LockFiles]
          /\ seen \in [Threads -> LockFiles \ {Malformed}]
      BY LockFileFacts DEF Init
    <2>2. /\ bound \in [Ports -> Threads \cup Procs \cup {NoThread, Foreign}]
          /\ tlock \in [Procs -> Threads \cup {NoThread}]
          /\ orphans \in [Procs -> [Generations -> Tokens \cup {NoToken}]]
      BY DEF Init
    <2>3. /\ pc \in [Threads -> Locations] /\ mode \in [Threads -> Modes]
          /\ dir \in [Threads -> Generations] /\ ret \in [Threads -> Returns]
          /\ gen \in Generations
      BY NameFacts DEF Init
    <2>4. /\ late \in [Threads -> BOOLEAN] /\ token \in [Threads -> Tokens \cup {NoToken}]
          /\ port \in [Threads -> Ports \cup {NoPort}]
          /\ depth \in [Threads -> 0..MaxDepth] /\ crashes \in 0..MaxCrashes
      BY BoundAssumption DEF Init
    <2>5. QED
      BY <2>1, <2>2, <2>3, <2>4 DEF TypeOK
  <1>2. Safe
    BY DEF Init, Safe, TokenDrawn, LeaseHeld, RecoveryHeld, OwnerKeepsFile,
           StaleUnchanged, CurrentGeneration, Leasing, Owning
  <1>3. QED
    BY <1>1, <1>2 DEF Inv

\* The inductive invariant: whoever owns, compares or unlinks a lock file has the
\* port it names bound (_try_clear_stale_lock).
THEOREM Invariance == Spec => []Inv
  <1>1. Inv /\ [Next]_vars => Inv'
    BY TypeStep, SafeStep DEF Inv, Safe
  <1>2. QED
    BY <1>1, Initially, PTL DEF Spec

\* Every variable of the lock protocol keeps its type (_acquire_mutation_lock).
THEOREM TypesHold == Spec => []TypeOK
  BY Invariance, PTL DEF Inv

\* A live owner's lock file stays its own (_try_clear_stale_lock).
THEOREM OwnersKeepTheirFiles == Spec => []OwnerKeepsFile
  BY Invariance, PTL DEF Inv, Safe

\* The directory a thread mutates is the active one (_acquire_mutation_lock).
THEOREM DirectoryIsCurrent == Spec => []CurrentGeneration
  BY Invariance, PTL DEF Inv, Safe

\* Two threads in the critical section own the active directory's lock file both.
LEMMA InvExcludes == Inv => MutualExclusion
  BY OneOwner DEF Inv, Safe, CurrentGeneration, MutualExclusion, Owning

\* No two threads mutate at once, however many threads, processes, ports, deaths
\* and stale files there are (_acquire_mutation_lock, _try_clear_stale_lock).
THEOREM Exclusion == Spec => []MutualExclusion
  BY Invariance, InvExcludes, PTL

-----------------------------------------------------------------------------
(* The protocol implements the abstract lock. *)

\* A step moves one thread, or sends a dead process's threads home.
LEMMA OneMoves ==
  ASSUME TypeOK, Next
  PROVE  \/ \E t \in Threads : \A u \in Threads \ {t} : pc'[u] = pc[u]
         \/ \A u \in Threads : pc'[u] \in {pc[u], "idle"}
  <1>1. ASSUME NEW t \in Threads, NEW l, pc' = [pc EXCEPT ![t] = l] \/ pc' = pc
        PROVE  \A u \in Threads \ {t} : pc'[u] = pc[u]
    BY <1>1 DEF TypeOK
  <1>2. ASSUME NEW t \in Threads, Step(t)
        PROVE  \A u \in Threads \ {t} : pc'[u] = pc[u]
    <2>1. CASE TakeThreadLock(t) \/ ThreadLockBusy(t) \/ ClearOwnedOrphan(t) \/ OrphanCleared(t)
      BY <1>1, <2>1 DEF TakeThreadLock, ThreadLockBusy, ClearOwnedOrphan, OrphanCleared, Goto
    <2>2. CASE ReadLockFile(t) \/ BindRecovery(t)
      BY <1>1, <2>2 DEF ReadLockFile, BindRecovery, Goto
    <2>3. CASE RecheckLockFile(t) \/ UnlinkStale(t)
      BY <1>1, <2>3 DEF RecheckLockFile, UnlinkStale, Goto
    <2>4. CASE UnlinkStaleFails(t)
      BY <1>1, <2>4 DEF UnlinkStaleFails, Return, Goto
    <2>5. CASE PublishRefused(t)
      BY <1>1, <2>5 DEF PublishRefused, Return, Goto
    <2>6. CASE CloseLease(t)
      BY <1>1, <2>6 DEF CloseLease, Return, Goto
    <2>7. CASE NewLease(t) \/ Publish(t) \/ Renamed(t)
      BY <1>1, <2>7 DEF NewLease, Publish, Renamed, Goto
    <2>8. CASE Confirm(t)
      BY <1>1, <2>8 DEF Confirm, Goto
    <2>9. CASE CheckOwn(t) \/ UnlinkOwn(t) \/ UnlinkOwnFails(t)
      BY <1>1, <2>9 DEF CheckOwn, UnlinkOwn, UnlinkOwnFails, Goto
    <2>10. CASE LeaseFails(t) \/ PublishFails(t) \/ ConfirmFails(t)
      BY <1>1, <2>10 DEF LeaseFails, PublishFails, ConfirmFails, Return, Goto
    <2>11. QED
      BY <1>2, <2>1, <2>2, <2>3, <2>4, <2>5, <2>6, <2>7, <2>8, <2>9, <2>10 DEF Step
  <1>3. ASSUME NEW t \in Threads,
               \/ \E m \in Callers : Request(t, m)
               \/ Expire(t) \/ Reenter(t) \/ Leave(t) \/ CommitMigration(t)
        PROVE  \A u \in Threads \ {t} : pc'[u] = pc[u]
    BY <1>1, <1>3 DEF Request, Expire, Reenter, Leave, CommitMigration, Goto
  <1>4. ASSUME NEW p \in Procs, Crash(p)
        PROVE  \A u \in Threads : pc'[u] \in {pc[u], "idle"}
    BY <1>4 DEF Crash
  <1>5. ASSUME NEW q \in ForeignPorts, ForeignBind(q) \/ ForeignClose(q)
        PROVE  \A u \in Threads : pc'[u] \in {pc[u], "idle"}
    BY <1>5 DEF ForeignBind, ForeignClose, threadVars
  <1>6. ASSUME NEW q \in Ports, Drop(q)
        PROVE  \A u \in Threads : pc'[u] \in {pc[u], "idle"}
    BY <1>6 DEF Drop, threadVars
  <1>7. QED
    BY <1>2, <1>3, <1>4, <1>5, <1>6 DEF Next

-----------------------------------------------------------------------------
(* Nothing is left behind. *)

\* A port a thread has bound is its lease or the port of the file it recovers.
UsedBy(t, q) ==
  \/ pc[t] \in Leasing /\ port[t] = q
  \/ pc[t] \in {"recheck", "unlink"} /\ seen[t].port = q

\* Who has the thread lock of its process is in an acquisition, where the stale check comes
\* back to.
Trying == {"stat", "bind", "recheck", "unlink", "lease", "publish"}
Tidy(t) ==
  /\ tlock[ProcOf[t]] = t => pc[t] \notin {"idle", "thread"}
  /\ pc[t] \in Trying => ret[t] \in {"orphanEnd", "lease"}
  /\ \A q \in Ports : bound[q] = t => UsedBy(t, q)
AllTidy == \A t \in Threads : Tidy(t)

\* A thread's step leaves the others what they have.
Elsewhere(t) ==
  \A u \in Threads \ {t} :
    /\ pc'[u] = pc[u] /\ port'[u] = port[u] /\ seen'[u] = seen[u] /\ ret'[u] = ret[u]
    /\ tlock'[ProcOf[u]] = u => tlock[ProcOf[u]] = u
    /\ \A q \in Ports : bound'[q] = u => bound[q] = u

LEMMA TidyElsewhere ==
  ASSUME AllTidy, NEW t \in Threads, Elsewhere(t), Tidy(t)'
  PROVE  AllTidy'
<1>1. SUFFICES ASSUME NEW u \in Threads, u # t PROVE Tidy(u)'
  BY DEF AllTidy
<1>2. Tidy(u) BY DEF AllTidy
<1>3. /\ pc'[u] = pc[u] /\ port'[u] = port[u] /\ seen'[u] = seen[u] /\ ret'[u] = ret[u]
      /\ tlock'[ProcOf[u]] = u => tlock[ProcOf[u]] = u
      /\ \A q \in Ports : bound'[q] = u => bound[q] = u
  BY <1>1 DEF Elsewhere
<1>4. QED BY <1>2, <1>3 DEF Tidy, UsedBy

\* Steps that neither bind nor close a port.
LEMMA QuietTidy ==
  ASSUME TypeOK, AllTidy, NEW t \in Threads,
         \/ \E m \in Callers : Request(t, m)
         \/ Expire(t) \/ TakeThreadLock(t) \/ ThreadLockBusy(t) \/ ClearOwnedOrphan(t)
         \/ OrphanCleared(t) \/ ReadLockFile(t)
         \/ Publish(t) \/ Confirm(t) \/ ConfirmFails(t) \/ Reenter(t) \/ Leave(t)
         \/ CommitMigration(t) \/ Renamed(t) \/ CheckOwn(t) \/ UnlinkOwn(t) \/ UnlinkOwnFails(t)
  PROVE  AllTidy'
<1>1. Tidy(t) BY DEF AllTidy
<1> USE ThreadAssumption DEF TypeOK, Tidy, UsedBy, Elsewhere, Leasing, Owning, Goto, Trying
<1>2. CASE (\E m \in Callers : Request(t, m)) \/ Expire(t) \/ ThreadLockBusy(t)
  <2>1. Elsewhere(t) BY <1>2 DEF Request, Expire, ThreadLockBusy
  <2>2. Tidy(t)' BY <1>1, <1>2 DEF Request, Expire, ThreadLockBusy
  <2>3. QED BY <2>1, <2>2, TidyElsewhere
<1>3. CASE TakeThreadLock(t)
  <2>1. Elsewhere(t) BY <1>3 DEF TakeThreadLock
  <2>2. Tidy(t)' BY <1>1, <1>3 DEF TakeThreadLock
  <2>3. QED BY <2>1, <2>2, TidyElsewhere
<1>4. CASE ClearOwnedOrphan(t) \/ OrphanCleared(t) \/ ReadLockFile(t)
  <2>1. Elsewhere(t) BY <1>4 DEF ClearOwnedOrphan, OrphanCleared, ReadLockFile
  <2>2. Tidy(t)'
    <3>1. /\ UNCHANGED <<tlock, bound>> /\ pc[t] \in {"orphan", "orphanEnd", "stat"}
          /\ \/ pc'[t] \in {"stat", "bind"} /\ ret'[t] \in {"orphanEnd", "lease"}
             \/ pc'[t] = ret[t] /\ ret'[t] = ret[t] /\ ret[t] \in {"orphanEnd", "lease"}
      <4>1. CASE ClearOwnedOrphan(t) BY <4>1 DEF ClearOwnedOrphan
      <4>2. CASE OrphanCleared(t) BY <4>2 DEF OrphanCleared
      <4>3. CASE ReadLockFile(t) BY <1>1, <4>3 DEF ReadLockFile
      <4>4. QED BY <1>4, <4>1, <4>2, <4>3
    <3>2. QED BY <1>1, <3>1
  <2>3. QED BY <2>1, <2>2, TidyElsewhere
<1>5. CASE \/ Publish(t) \/ Confirm(t) \/ ConfirmFails(t) \/ Reenter(t) \/ Leave(t)
           \/ CommitMigration(t) \/ Renamed(t) \/ CheckOwn(t) \/ UnlinkOwn(t) \/ UnlinkOwnFails(t)
  <2>1. /\ UNCHANGED <<tlock, bound, port, seen>> /\ pc[t] \in Leasing
        /\ pc'[t] \in Leasing \ {"publish"}
        /\ \A u \in Threads \ {t} : pc'[u] = pc[u] /\ ret'[u] = ret[u]
    BY <1>5 DEF Publish, Confirm, ConfirmFails, Reenter, Leave, CommitMigration, Renamed,
                CheckOwn, UnlinkOwn, UnlinkOwnFails
  <2>2. Elsewhere(t) BY <2>1
  <2>3. Tidy(t)' BY <1>1, <2>1
  <2>4. QED BY <2>2, <2>3, TidyElsewhere
<1>6. QED BY <1>2, <1>3, <1>4, <1>5

\* A thread that closes the one port it has bound has none.
LEMMA OneClosed ==
  ASSUME TypeOK, NEW t \in Threads, NEW q \in Ports, Close(q),
         \A x \in Ports : bound[x] = t => x = q
  PROVE  /\ \A x \in Ports : bound'[x] # t
         /\ \A u \in Threads, x \in Ports : bound'[x] = u => bound[x] = u
BY ThreadAssumption DEF TypeOK, Close

\* A thread that binds a free port while it has none has that one.
LEMMA OneBound ==
  ASSUME TypeOK, NEW t \in Threads, NEW q \in Ports, bound' = [bound EXCEPT ![q] = t],
         \A x \in Ports : bound[x] # t
  PROVE  /\ \A x \in Ports : bound'[x] = t => x = q
         /\ \A u \in Threads \ {t}, x \in Ports : bound'[x] = u => bound[x] = u
BY DEF TypeOK

\* Steps that bind a port or close one.
LEMMA PortTidy ==
  ASSUME TypeOK, LeaseHeld, RecoveryHeld, AllTidy, NEW t \in Threads,
         \/ BindRecovery(t) \/ RecheckLockFile(t) \/ UnlinkStale(t) \/ UnlinkStaleFails(t)
         \/ NewLease(t) \/ LeaseFails(t) \/ PublishRefused(t) \/ PublishFails(t) \/ CloseLease(t)
  PROVE  AllTidy'
<1>1. Tidy(t) BY DEF AllTidy
<1>2. pc[t] \notin Leasing \cup {"recheck", "unlink"} => \A x \in Ports : bound[x] # t
  BY <1>1 DEF Tidy, UsedBy
<1>3. pc[t] \in {"recheck", "unlink"} =>
        seen[t].port \in Ports /\ \A x \in Ports : bound[x] = t => x = seen[t].port
  BY <1>1 DEF Tidy, UsedBy, Leasing, Owning, RecoveryHeld
<1>4. pc[t] \in {"publish", "close"} =>
        port[t] \in Ports /\ \A x \in Ports : bound[x] = t => x = port[t]
  BY <1>1 DEF Tidy, UsedBy, Leasing, Owning, LeaseHeld
<1>5. CASE BindRecovery(t)
  <2>1. pc[t] = "bind" /\ UNCHANGED <<tlock, port, ret>> /\ seen[t].port \in Ports
    BY <1>5 DEF BindRecovery, RecoveryHeld
  <2>2. \A x \in Ports : bound[x] # t BY <1>2, <2>1 DEF Leasing, Owning
  <2>3. /\ \A u \in Threads \ {t} : pc'[u] = pc[u] /\ seen'[u] = seen[u]
        /\ \/ /\ bound' = [bound EXCEPT ![seen[t].port] = t]
              /\ pc'[t] = "recheck" /\ seen'[t] = seen[t]
           \/ UNCHANGED bound /\ pc'[t] = ret[t]
    BY <1>5 DEF BindRecovery, TypeOK, Goto
  <2>4. /\ \A u \in Threads \ {t}, x \in Ports : bound'[x] = u => bound[x] = u
        /\ \/ \A x \in Ports : bound'[x] # t
           \/ /\ \A x \in Ports : bound'[x] = t => x = seen[t].port
              /\ pc'[t] = "recheck" /\ seen'[t] = seen[t]
    BY <2>1, <2>2, <2>3, OneBound
  <2>5. ret[t] \in {"orphanEnd", "lease"} BY <1>1, <2>1 DEF Tidy, Trying
  <2>6. Elsewhere(t) BY <2>1, <2>3, <2>4 DEF Elsewhere
  <2>7. Tidy(t)' BY <2>1, <2>3, <2>4, <2>5 DEF Tidy, UsedBy
  <2>8. QED BY <2>6, <2>7, TidyElsewhere
<1>6. CASE RecheckLockFile(t) \/ UnlinkStale(t)
  <2>1. /\ pc[t] \in {"recheck", "unlink"} /\ UNCHANGED <<tlock, port, ret>>
        /\ \A u \in Threads \ {t} : pc'[u] = pc[u] /\ seen'[u] = seen[u]
        /\ \/ UNCHANGED <<bound, seen>> /\ pc'[t] = "unlink"
           \/ Close(seen[t].port) /\ pc'[t] = ret[t]
    BY <1>6 DEF RecheckLockFile, UnlinkStale, TypeOK, Goto
  <2>2. /\ seen[t].port \in Ports /\ \A x \in Ports : bound[x] = t => x = seen[t].port
        /\ ret[t] \in {"orphanEnd", "lease"}
    BY <1>1, <1>3, <2>1 DEF Tidy, Trying
  <2>3. /\ \A u \in Threads \ {t}, x \in Ports : bound'[x] = u => bound[x] = u
        /\ \/ \A x \in Ports : bound'[x] # t
           \/ UNCHANGED <<bound, seen>> /\ pc'[t] = "unlink"
    BY <2>1, <2>2, OneClosed
  <2>4. Elsewhere(t) BY <2>1, <2>3 DEF Elsewhere
  <2>5. Tidy(t)' BY <2>1, <2>2, <2>3 DEF Tidy, UsedBy
  <2>6. QED BY <2>4, <2>5, TidyElsewhere
<1>7. CASE NewLease(t)
  <2>1. PICK q \in Ports : bound' = [bound EXCEPT ![q] = t] /\ port' = [port EXCEPT ![t] = q]
    BY <1>7 DEF NewLease
  <2>2. /\ pc[t] = "lease" /\ pc'[t] = "publish" /\ UNCHANGED <<tlock, seen, ret>>
        /\ \A u \in Threads \ {t} : pc'[u] = pc[u] /\ port'[u] = port[u]
        /\ port'[t] = q
    BY <1>7, <2>1 DEF NewLease, TypeOK, Goto
  <2>3. \A x \in Ports : bound[x] # t BY <1>2, <2>2 DEF Leasing, Owning
  <2>4. /\ \A x \in Ports : bound'[x] = t => x = q
        /\ \A u \in Threads \ {t}, x \in Ports : bound'[x] = u => bound[x] = u
    BY <2>1, <2>3, OneBound
  <2>5. Elsewhere(t) BY <2>2, <2>4 DEF Elsewhere
  <2>6. Tidy(t)' BY <1>1, <2>2, <2>4 DEF Tidy, UsedBy, Leasing, Trying
  <2>7. QED BY <2>5, <2>6, TidyElsewhere
<1>8. CASE UnlinkStaleFails(t) \/ PublishRefused(t) \/ CloseLease(t)
  <2>1. \E q \in Ports : Close(q) /\ \A x \in Ports : bound[x] = t => x = q
    <3>1. CASE UnlinkStaleFails(t)
      BY <1>3, <3>1 DEF UnlinkStaleFails
    <3>2. CASE PublishRefused(t) \/ CloseLease(t)
      BY <1>4, <3>2 DEF PublishRefused, CloseLease
    <3>3. QED BY <1>8, <3>1, <3>2
  <2>2. /\ \A x \in Ports : bound'[x] # t
        /\ \A u \in Threads, x \in Ports : bound'[x] = u => bound[x] = u
    BY <2>1, OneClosed
  <2>3. /\ \A u \in Threads \ {t} :
             /\ pc'[u] = pc[u] /\ port'[u] = port[u] /\ seen'[u] = seen[u] /\ ret'[u] = ret[u]
        /\ \/ tlock' = [tlock EXCEPT ![ProcOf[t]] = NoThread] /\ pc'[t] = "idle"
           \/ /\ UNCHANGED tlock /\ pc'[t] \in {"stat", "orphan"}
              /\ pc'[t] = "stat" => ret'[t] \in {"orphanEnd", "lease"}
    <3>1. CASE UnlinkStaleFails(t)
      BY <1>1, <3>1 DEF UnlinkStaleFails, Return, Goto, TypeOK, Tidy, Trying
    <3>2. CASE PublishRefused(t)
      BY <1>1, <3>2 DEF PublishRefused, Return, Goto, TypeOK, Tidy, Trying
    <3>3. CASE CloseLease(t)
      BY <1>1, <3>3 DEF CloseLease, Return, Goto, TypeOK, Tidy, Trying
    <3>4. QED BY <1>8, <3>1, <3>2, <3>3
  <2>4. Elsewhere(t) BY <2>2, <2>3, ThreadAssumption DEF Elsewhere, TypeOK
  <2>5. Tidy(t)' BY <2>2, <2>3, ThreadAssumption DEF Tidy, TypeOK, Trying
  <2>6. QED BY <2>4, <2>5, TidyElsewhere
<1>9. CASE LeaseFails(t) \/ PublishFails(t)
  <2>1. /\ \A x \in Ports : bound'[x] # t
        /\ \A u \in Threads, x \in Ports : bound'[x] = u => bound[x] = u
    <3>1. CASE LeaseFails(t)
      <4>1. pc[t] = "lease" /\ bound' = bound BY <3>1 DEF LeaseFails
      <4>2. QED BY <1>2, <4>1 DEF Leasing, Owning
    <3>2. CASE PublishFails(t)
      <4>1. pc[t] = "publish" /\ bound' = [bound EXCEPT ![port[t]] = ProcOf[t]]
        BY <3>2 DEF PublishFails
      <4>2. port[t] \in Ports /\ \A x \in Ports : bound[x] = t => x = port[t] BY <1>4, <4>1
      <4>3. ProcOf[t] \notin Threads BY ThreadAssumption
      <4>4. QED BY <4>1, <4>2, <4>3 DEF TypeOK
    <3>3. QED BY <1>9, <3>1, <3>2
  <2>2. /\ pc' = [pc EXCEPT ![t] = "idle"] /\ ret' = [ret EXCEPT ![t] = "idle"]
        /\ tlock' = [tlock EXCEPT ![ProcOf[t]] = NoThread] /\ seen' = seen
        /\ \A u \in Threads \ {t} : port'[u] = port[u]
    BY <1>9 DEF LeaseFails, PublishFails, Return, Goto, TypeOK
  <2>3. Elsewhere(t) BY <2>1, <2>2, ThreadAssumption DEF Elsewhere, TypeOK
  <2>4. Tidy(t)' BY <2>1, <2>2, ThreadAssumption DEF Tidy, TypeOK, Trying
  <2>5. QED BY <2>3, <2>4, TidyElsewhere
<1>10. QED BY <1>5, <1>6, <1>7, <1>8, <1>9

LEMMA TidyStep == Inv /\ AllTidy /\ [Next]_vars => AllTidy'
<1>1. SUFFICES ASSUME Inv, AllTidy, [Next]_vars PROVE AllTidy' OBVIOUS
<1>2. TypeOK /\ LeaseHeld /\ RecoveryHeld BY <1>1 DEF Inv, Safe
<1>3. CASE UNCHANGED vars
  BY <1>1, <1>3 DEF vars, threadVars, AllTidy, Tidy, UsedBy
<1>4. ASSUME NEW p \in Procs, Crash(p) PROVE AllTidy'
  <2>1. SUFFICES ASSUME NEW t \in Threads PROVE Tidy(t)' BY DEF AllTidy
  <2>2. Tidy(t) BY <1>1 DEF AllTidy
  <2>3. CASE ProcOf[t] = p
    <3>1. pc'[t] = "idle" /\ tlock'[p] = NoThread /\ \A q \in Ports : bound'[q] # t
      BY <1>2, <1>4, <2>3, ThreadAssumption DEF Crash, TypeOK
    <3>2. QED BY <2>3, <3>1, ThreadAssumption DEF Tidy, Trying
  <2>4. CASE ProcOf[t] # p
    <3>1. /\ pc'[t] = pc[t] /\ port'[t] = port[t] /\ seen'[t] = seen[t] /\ ret'[t] = ret[t]
          /\ tlock'[ProcOf[t]] = tlock[ProcOf[t]]
          /\ \A q \in Ports : bound'[q] = t => bound[q] = t
      BY <1>2, <1>4, <2>4, ThreadAssumption DEF Crash, TypeOK
    <3>2. QED BY <2>2, <3>1 DEF Tidy, UsedBy
  <2>5. QED BY <2>3, <2>4
<1>5. ASSUME NEW q \in ForeignPorts, ForeignBind(q) \/ ForeignClose(q) PROVE AllTidy'
  <2>1. UNCHANGED <<tlock, pc, port, seen, ret>> BY <1>5 DEF ForeignBind, ForeignClose, threadVars
  <2>2. \A t \in Threads : \A x \in Ports : bound'[x] = t => bound[x] = t
    BY <1>2, <1>5, ThreadAssumption, PortAssumption DEF ForeignBind, ForeignClose, TypeOK
  <2>3. QED BY <1>1, <2>1, <2>2 DEF AllTidy, Tidy, UsedBy
<1>6. ASSUME NEW q \in Ports, Drop(q) PROVE AllTidy'
  <2>1. UNCHANGED <<tlock, pc, port, seen, ret>> BY <1>6 DEF Drop, threadVars
  <2>2. \A t \in Threads : \A x \in Ports : bound'[x] = t => bound[x] = t
    BY <1>2, <1>6, ThreadAssumption DEF Drop, TypeOK
  <2>3. QED BY <1>1, <2>1, <2>2 DEF AllTidy, Tidy, UsedBy
<1>7. QED BY <1>1, <1>2, <1>3, <1>4, <1>5, <1>6, QuietTidy, PortTidy, Steps

\* A caller that is back holds neither the thread lock nor a port, and a thread that is about
\* to prove an owner dead has none bound either, except for a candidate that a publication
\* failing otherwise than on an existing file leaves to the process (_acquire_mutation_lock).
THEOREM NothingIsLeaked == Spec => []NothingLeaked
<1>1. Init => AllTidy
  BY ThreadAssumption DEF Init, AllTidy, Tidy, Trying
<1>2. AllTidy => NothingLeaked
  BY DEF AllTidy, Tidy, UsedBy, NothingLeaked, Leasing, Owning
<1>3. QED BY <1>1, <1>2, TidyStep, Invariance, PTL DEF Spec

\* A lock file without a lease is not removed or replaced by any step
\* (_try_clear_stale_lock, _publish_lock, _release_owned_lock).
THEOREM MalformedStays == Spec => MalformedKept
<1>1. ASSUME Inv, [Next]_vars
      PROVE  [\A g \in Generations : lockFile[g] = Malformed => lockFile'[g] = Malformed]_vars
  <2>1. TypeOK /\ StaleUnchanged /\ OwnerKeepsFile BY <1>1 DEF Inv, Safe
  <2>2. SUFFICES ASSUME NEW g \in Generations, lockFile[g] = Malformed, Next
                 PROVE  lockFile'[g] = Malformed
    BY <1>1
  <2>3. Malformed.there BY DEF Malformed
  <2>4. ASSUME NEW t \in Threads, Publish(t) PROVE lockFile'[g] = Malformed
    BY <2>1, <2>2, <2>3, <2>4 DEF Publish, TypeOK
  <2>5. ASSUME NEW t \in Threads, UnlinkStale(t) PROVE lockFile'[g] = Malformed
    <3>1. lockFile[dir[t]] = seen[t] /\ seen[t] # Malformed
      BY <2>1, <2>5 DEF UnlinkStale, StaleUnchanged, TypeOK
    <3>2. QED BY <2>1, <2>2, <2>5, <3>1 DEF UnlinkStale, TypeOK
  <2>6. ASSUME NEW t \in Threads, UnlinkOwn(t) PROVE lockFile'[g] = Malformed
    <3>1. lockFile[dir[t]] = Claim(token[t], port[t])
      BY <2>1, <2>6 DEF UnlinkOwn, OwnerKeepsFile, Owning
    <3>2. token[t] \in Tokens
      BY <1>1, <2>6 DEF UnlinkOwn, Inv, Safe, TokenDrawn
    <3>3. Claim(token[t], port[t]).token # Malformed.token
      BY <3>2, TokenAssumption DEF Claim, Malformed
    <3>4. QED BY <2>1, <2>2, <2>6, <3>1, <3>3 DEF UnlinkOwn, TypeOK
  <2>7. ASSUME NEW t \in Threads,
               \/ \E m \in Callers : Request(t, m)
               \/ Expire(t) \/ TakeThreadLock(t) \/ ThreadLockBusy(t)
               \/ ClearOwnedOrphan(t) \/ OrphanCleared(t) \/ ReadLockFile(t)
               \/ BindRecovery(t) \/ RecheckLockFile(t)
               \/ UnlinkStaleFails(t) \/ NewLease(t) \/ LeaseFails(t)
               \/ PublishRefused(t) \/ PublishFails(t) \/ Confirm(t) \/ ConfirmFails(t)
               \/ Renamed(t) \/ CheckOwn(t)
               \/ UnlinkOwnFails(t) \/ CloseLease(t)
               \/ Reenter(t) \/ Leave(t) \/ CommitMigration(t)
        PROVE  UNCHANGED lockFile
    BY <2>7 DEF Request, Expire, TakeThreadLock, ThreadLockBusy, ClearOwnedOrphan, OrphanCleared,
                ReadLockFile, BindRecovery, RecheckLockFile, UnlinkStaleFails, NewLease, LeaseFails,
                PublishRefused, PublishFails, Confirm, ConfirmFails, Renamed, CheckOwn, UnlinkOwnFails, CloseLease, Reenter,
                Leave, CommitMigration
  <2>8. ASSUME NEW p \in Procs, Crash(p) PROVE UNCHANGED lockFile
    BY <2>8 DEF Crash
  <2>9. ASSUME NEW q \in ForeignPorts, ForeignBind(q) \/ ForeignClose(q) PROVE UNCHANGED lockFile
    BY <2>9 DEF ForeignBind, ForeignClose
  <2>10. ASSUME NEW q \in Ports, Drop(q) PROVE UNCHANGED lockFile
    BY <2>10 DEF Drop
  <2>11. QED BY <2>2, <2>4, <2>5, <2>6, <2>7, <2>8, <2>9, <2>10, Steps
<1>2. QED BY <1>1, Invariance, PTL DEF Spec, MalformedKept

-----------------------------------------------------------------------------
(* The abstract lock. *)

\* The holder is the thread in the critical section, if there is one.
LEMMA HolderIs ==
  ASSUME MutualExclusion
  PROVE  /\ \A t \in Threads : pc[t] = "cs" => Holder = t
         /\ (\A t \in Threads : pc[t] # "cs") => Holder = NoThread
  BY DEF Holder, MutualExclusion

\* Every step is the abstract lock's: it is taken, given up, or left alone.
LEMMA HolderSteps ==
  ASSUME Inv, Inv', [Next]_vars
  PROVE  [AbstractLock!Next]_Holder
  <1>1. CASE UNCHANGED vars
    BY <1>1 DEF vars, threadVars, Holder
  <1>2. CASE Next
    <2>1. MutualExclusion /\ MutualExclusion'
      <3>1. Inv => MutualExclusion
        BY InvExcludes
      <3>2. (Inv => MutualExclusion)'
        BY InvExcludes, PTL
      <3>3. QED
        BY <3>1, <3>2
    <2>2. /\ \A t \in Threads : pc'[t] = "cs" => Holder' = t
          /\ (\A t \in Threads : pc'[t] # "cs") => Holder' = NoThread
      BY <2>1 DEF Holder, MutualExclusion
    <2>3. CASE \A t \in Threads : pc[t] # "cs"
      <3>1. Holder = NoThread
        BY <2>1, <2>3, HolderIs
      <3>2. Holder' = NoThread \/ \E t \in Threads : Holder' = t
        BY <2>2
      <3>3. QED
        BY <3>1, <3>2 DEF AbstractLock!Next, AbstractLock!Acquire
    <2>4. ASSUME NEW t \in Threads, pc[t] = "cs" PROVE [AbstractLock!Next]_Holder
      <3>1. Holder = t
        BY <2>1, <2>4, HolderIs
      <3>2. CASE pc'[t] = "cs"
        BY <2>2, <3>1, <3>2
      <3>3. CASE pc'[t] # "cs"
        <4>1. \A u \in Threads \ {t} : pc[u] # "cs"
          BY <2>1, <2>4 DEF MutualExclusion
        <4>2. \A u \in Threads : pc'[u] # "cs"
          BY <1>2, <2>4, <3>3, <4>1, OneMoves DEF Inv
        <4>3. Holder' = NoThread
          BY <2>2, <4>2
        <4>4. QED
          BY <3>1, <4>3 DEF AbstractLock!Next, AbstractLock!Release
      <3>4. QED
        BY <3>2, <3>3
    <2>5. QED
      BY <2>3, <2>4
  <1>3. QED
    BY <1>1, <1>2

\* Ports, files, recovery and retries together are one lock that one thread holds
\* at a time and that a death gives up (mutation_lock).
THEOREM Implements == Spec => ImplementsMutex
  <1>1. Init => AbstractLock!Init
    BY DEF Init, Holder, AbstractLock!Init
  <1>2. QED
    BY <1>1, Invariance, HolderSteps, PTL DEF Spec, ImplementsMutex, AbstractLock!Spec
=============================================================================
