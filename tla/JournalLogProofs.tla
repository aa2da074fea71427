--------------------------- MODULE JournalLogProofs ---------------------------
(***************************************************************************)
(* Theorems about JournalLog for any processes, records and bounds.        *)
(*                                                                         *)
(* Nothing a reader has seen is lost, because what an append cuts off or   *)
(* writes over is torn, never a record: only the holder of the lock        *)
(* writes, and the tail is its own from the first byte to the newline.     *)
(*                                                                         *)
(* A backup is kept as long as a record may need it, and the records       *)
(* follow the declared transitions, because what a writer is about to      *)
(* append is lawful from the moment it looked until the newline is down:   *)
(* nobody else appends meanwhile.                                          *)
(***************************************************************************)
EXTENDS JournalLog, WellFoundedInduction, FiniteSetTheorems, TLAPS

Inside == {"locked", "append", "writing", "written", "host"}

\* Whoever is inside has the lock.
Holds == \A a \in Writers : pc[a] \in Inside => lock = a

\* What a writer has written is what follows the last line.
Wrote == \A a \in Writers : /\ pc[a] = "writing" => tail = Torn
                            /\ pc[a] = "written" => tail \in Records \cup {Note}

\* What is appended to a record is an outcome.
Appending == {"append", "writing", "written"}
Asked == \A a \in Writers :
           pc[a] \in Appending => work[a] = NoEntry \/ next[a] \in Outcomes

IInv == TypeOK /\ Holds /\ Wrote /\ Asked

\* A sequence is a prefix of itself and of what is appended to it.
LEMMA PrefixOfAppend ==
  ASSUME NEW S, NEW s \in Seq(S), NEW x \in S
  PROVE  IsPrefix(s, s) /\ IsPrefix(s, Append(s, x))
<1>1. IsPrefix(s, s) BY DEF IsPrefix
<1>2. Len(s) <= Len(Append(s, x)) OBVIOUS
<1>3. SubSeq(s, 1, Len(s)) = SubSeq(Append(s, x), 1, Len(s)) OBVIOUS
<1>4. QED BY <1>1, <1>2, <1>3 DEF IsPrefix

\* Leaving keeps the types and the lock's discipline.
LEMMA DoneKeeps ==
  ASSUME IInv, NEW a \in Writers, Done(a)
  PROVE  /\ lock' \in Writers \cup {NoWriter}
         /\ pc' \in [Writers -> Locations]
         /\ kind' \in [Writers -> {"auto", "manual"}]
         /\ work' \in [Writers -> Entries \cup {NoEntry}]
         /\ next' \in [Writers -> Outcomes \cup {"none"}]
         /\ Holds'
         /\ Asked'
         /\ \A b \in Writers : pc'[b] \in Inside => pc'[b] = pc[b] /\ lock = b /\ b # a
<1>1. /\ pc' \in [Writers -> Locations]
      /\ kind' \in [Writers -> {"auto", "manual"}]
      /\ work' \in [Writers -> Entries \cup {NoEntry}]
      /\ next' \in [Writers -> Outcomes \cup {"none"}]
      /\ lock' \in Writers \cup {NoWriter}
  BY DEF IInv, TypeOK, Done, Goto, Locations
<1>2. \A b \in Writers : pc'[b] \in Inside => pc'[b] = pc[b] /\ lock = b /\ b # a
  BY DEF IInv, TypeOK, Holds, Done, Goto, Inside
<1>3. Holds' BY <1>2 DEF Holds, Done
<1>4. Asked'
  <2>1. \A b \in Writers \ {a} : work'[b] = work[b] /\ next'[b] = next[b]
    BY DEF IInv, TypeOK, Done
  <2>2. QED BY <1>2, <2>1 DEF IInv, Asked, Appending, Inside
<1>5. QED BY <1>1, <1>2, <1>3, <1>4

\* A process that leaves and writes no more than a whole line keeps the invariant.
LEMMA LeaveKeeps ==
  ASSUME IInv, NEW a \in Writers, Done(a),
         lines' \in Seq(Records \cup {Bad}),
         tail' \in Records \cup {Clean, Torn, Note},
         tail' = tail \/ lock = a,
         backup' \in [Entries -> Writers \cup {"none", "dead"}],
         age' \in [Entries -> 0..1],
         mishaps' \in Nat
  PROVE  IInv'
<1>1. TypeOK' BY DoneKeeps DEF TypeOK
<1>2. Wrote' BY DoneKeeps DEF IInv, Wrote, Inside
<1>3. QED BY <1>1, <1>2, DoneKeeps DEF IInv

\* Cleanup keeps the types of what it works on.
LEMMA CleanUpKeeps ==
  ASSUME TypeOK, CleanUp
  PROVE  /\ backup' \in [Entries -> Writers \cup {"none", "dead"}]
         /\ age' \in [Entries -> 0..1]
BY DEF TypeOK, CleanUp, Unlink

\* While the lock is free nobody is inside.
LEMMA FreeIsEmpty ==
  ASSUME IInv, lock = NoWriter
  PROVE  \A b \in Writers : pc[b] \notin Inside
BY NameAssumption DEF IInv, Holds

\* A process that goes inside with the lock taken just now keeps the invariant.
LEMMA EnterKeeps ==
  ASSUME IInv, NEW a \in Writers, TakeLock(a), UNCHANGED <<fileVars, mishaps>>,
         NEW l \in {"locked", "append"}, Goto(a, l),
         kind' \in [Writers -> {"auto", "manual"}],
         work' \in [Writers -> Entries \cup {NoEntry}],
         next' \in [Writers -> Outcomes \cup {"none"}],
         l = "append" => work'[a] = NoEntry \/ next'[a] \in Outcomes
  PROVE  IInv'
<1>1. pc' \in [Writers -> Locations] /\ \A b \in Writers : pc'[b] \in Inside => b = a
  BY FreeIsEmpty DEF IInv, TypeOK, TakeLock, CleanUp, Goto, Inside, Locations
<1>2. TypeOK' BY <1>1, CleanUpKeeps DEF IInv, TypeOK, TakeLock, fileVars
<1>3. Holds' BY <1>1 DEF Holds, TakeLock
<1>4. Wrote' BY <1>1 DEF IInv, TypeOK, Wrote, Goto, Inside
<1>5. Asked' BY <1>1 DEF IInv, TypeOK, Asked, Goto, Inside, Appending
<1>6. QED BY <1>2, <1>3, <1>4, <1>5 DEF IInv

\* A step of the holder inside that keeps what is not its own keeps the invariant.
LEMMA InsideKeeps ==
  ASSUME IInv, NEW a \in Writers, pc[a] \in Inside, UNCHANGED lock,
         pc' \in [Writers -> Locations], \A b \in Writers \ {a} : pc'[b] = pc[b],
         TypeOK',
         pc'[a] = "writing" => tail' = Torn,
         pc'[a] = "written" => tail' \in Records \cup {Note},
         pc'[a] \in Appending => work'[a] = NoEntry \/ next'[a] \in Outcomes
  PROVE  IInv'
<1>1. \A b \in Writers : pc[b] \in Inside => b = a BY DEF IInv, Holds
<1>2. Holds' BY <1>1 DEF IInv, Holds
<1>3. Wrote' BY <1>1 DEF Wrote, Inside
<1>4. Asked' BY <1>1 DEF IInv, Asked, Appending, Inside
<1>5. QED BY <1>2, <1>3, <1>4 DEF IInv

LEMMA InitHolds == Init => IInv
BY DEF Init, IInv, TypeOK, Holds, Wrote, Asked, Appending, Inside, Locations, Entries, NoEntry

-----------------------------------------------------------------------------
(* The invariant, step by step. *)

\* A line gets its newline.
LEMMA TerminatedType ==
  ASSUME TypeOK, tail \in Records \cup {Note}
  PROVE  Terminated(tail) \in Seq(Records \cup {Bad})
<1>1. CASE tail \in Records
  <2>1. Append(lines, tail) \in Seq(Records \cup {Bad}) BY <1>1 DEF TypeOK
  <2>2. QED BY <2>1 DEF TypeOK, Terminated
<1>2. CASE tail = Note BY <1>2 DEF TypeOK, Terminated
<1>3. QED BY <1>1, <1>2

\* The holder of the lock that asks for an append keeps the invariant.
LEMMA AskKeeps ==
  ASSUME IInv, NEW a \in Writers, pc[a] \in Inside,
         NEW e \in Entries \cup {NoEntry}, NEW o \in Outcomes \cup {"none"}, Ask(a, e, o),
         e = NoEntry \/ o \in Outcomes,
         UNCHANGED <<fileVars, lock, mishaps>>,
         backup' \in [Entries -> Writers \cup {"none", "dead"}],
         age' \in [Entries -> 0..1]
  PROVE  IInv'
<1>1. TypeOK' BY DEF IInv, TypeOK, Ask, Goto, Locations, fileVars
<1>2. pc'[a] = "append" /\ \A b \in Writers \ {a} : pc'[b] = pc[b]
  BY DEF IInv, TypeOK, Ask, Goto
<1>3. work'[a] = e /\ next'[a] = o BY DEF IInv, TypeOK, Ask
<1>4. QED BY <1>1, <1>2, <1>3, InsideKeeps DEF TypeOK

\* An append writes at the end, under the lock, until the newline gives it back.
LEMMA AppendKeeps ==
  ASSUME IInv, NEW a \in Writers, AppendStep(a) \/ AppendFails(a)
  PROVE  IInv'
<1>1. CASE Repair(a)
  <2>1. TypeOK' /\ pc[a] \in Inside
    BY <1>1 DEF IInv, TypeOK, Repair, Inside, backupVars, writerVars
  <2>2. QED BY <2>1, <1>1, InsideKeeps DEF IInv, TypeOK, Repair, Asked, writerVars
<1>2. CASE WriteSome(a)
  <2>1. lines' \in Seq(Records \cup {Bad})
    <3>1. CASE tail \in Records
      <4>1. Append(lines, tail) \in Seq(Records \cup {Bad}) BY <3>1 DEF IInv, TypeOK
      <4>2. QED BY <4>1, <1>2 DEF IInv, TypeOK, WriteSome, Terminated
    <3>2. CASE tail \notin Records BY <3>2, <1>2 DEF IInv, TypeOK, WriteSome, Terminated
    <3>3. QED BY <3>1, <3>2
  <2>2. TypeOK' /\ pc[a] \in Inside
    BY <2>1, <1>2
    DEF IInv, TypeOK, WriteSome, Goto, Inside, Locations, backupVars, writerVars
  <2>3. \A b \in Writers \ {a} : pc'[b] = pc[b] BY <1>2 DEF IInv, TypeOK, WriteSome, Goto
  <2>4. pc'[a] = "writing" /\ tail' = Torn BY <1>2 DEF IInv, TypeOK, WriteSome, Goto
  <2>5. lock' = lock BY <1>2 DEF WriteSome
  <2>6. work'[a] = NoEntry \/ next'[a] \in Outcomes
    BY <1>2 DEF IInv, Asked, Appending, WriteSome, writerVars
  <2>7. QED BY <2>2, <2>3, <2>4, <2>5, <2>6, InsideKeeps DEF TypeOK
<1>3. CASE WriteRecord(a)
  <2>1. work[a] = NoEntry \/ next[a] \in Outcomes
    BY <1>3 DEF IInv, Asked, Appending, WriteRecord
  <2>2. Entry(a) \in Records \cup {Note}
    BY <2>1 DEF IInv, TypeOK, Entry, Record, Records
  <2>3. TypeOK' /\ pc[a] \in Inside
    BY <2>2, <1>3
    DEF IInv, TypeOK, WriteRecord, Goto, Inside, Locations, backupVars, writerVars
  <2>4. \A b \in Writers \ {a} : pc'[b] = pc[b] BY <1>3 DEF IInv, TypeOK, WriteRecord, Goto
  <2>5. pc'[a] = "written" /\ tail' \in Records \cup {Note}
    BY <1>3, <2>2 DEF IInv, TypeOK, WriteRecord, Goto
  <2>6. lock' = lock BY <1>3 DEF WriteRecord
  <2>7. work'[a] = NoEntry \/ next'[a] \in Outcomes BY <2>1, <1>3 DEF WriteRecord, writerVars
  <2>8. QED BY <2>3, <2>4, <2>5, <2>6, <2>7, InsideKeeps DEF TypeOK
<1>4. CASE WriteNewline(a)
  <2>1. tail \in Records \cup {Note} /\ lock = a /\ pc[a] \in Inside
    BY <1>4 DEF IInv, Wrote, Holds, Inside, WriteNewline
  <2>2. lines' \in Seq(Records \cup {Bad}) BY <2>1, <1>4, TerminatedType DEF IInv, WriteNewline
  <2>3. CASE next[a] \in {"prepared", "rollback_prepared"}
    <3>1. TypeOK'
      BY <2>2, <2>3, <1>4
      DEF IInv, TypeOK, WriteNewline, Goto, Locations, backupVars, writerVars
    <3>2. \A b \in Writers \ {a} : pc'[b] = pc[b]
      BY <2>3, <1>4 DEF IInv, TypeOK, WriteNewline, Goto
    <3>3. pc'[a] = "host" /\ lock' = lock
      BY <2>3, <1>4 DEF IInv, TypeOK, WriteNewline, Goto
    <3>4. QED BY <2>1, <3>1, <3>2, <3>3, InsideKeeps DEF TypeOK, Appending
  <2>4. CASE next[a] \notin {"prepared", "rollback_prepared"}
    <3>1. Done(a) /\ tail' = Clean BY <2>4, <1>4 DEF WriteNewline
    <3>2. QED
      BY <2>1, <2>2, <3>1, <1>4, LeaveKeeps DEF IInv, TypeOK, WriteNewline, backupVars
  <2>5. QED BY <2>3, <2>4
<1>5. CASE AppendFails(a)
  <2>1. Done(a) /\ lock = a /\ mishaps' \in Nat
    BY <1>5 DEF IInv, TypeOK, Holds, Inside, AppendFails
  <2>2. lines' \in Seq(Records \cup {Bad}) /\ tail' \in Records \cup {Clean, Torn, Note}
    <3>1. CASE UNCHANGED fileVars BY <3>1 DEF IInv, TypeOK, fileVars
    <3>2. CASE pc[a] = "written" /\ lines' = Terminated(tail) /\ tail' = Clean
      BY <3>2, TerminatedType DEF IInv, Wrote
    <3>3. QED BY <3>1, <3>2, <1>5 DEF AppendFails
  <2>3. QED BY <2>1, <2>2, <1>5, LeaveKeeps DEF IInv, TypeOK, AppendFails, backupVars
<1>6. QED BY <1>1, <1>2, <1>3, <1>4, <1>5 DEF AppendStep

\* A pass looks, takes the lock, backs up, asks for an append, or ends.
LEMMA PassKeeps ==
  ASSUME IInv, NEW a \in Writers, PassStep(a)
  PROVE  IInv'
<1>1. CASE ReadRecords(a) \/ ProbeTail(a)
  <2>1. CASE Done(a)
    BY <2>1, <1>1, LeaveKeeps DEF IInv, TypeOK, ReadRecords, ProbeTail, fileVars, backupVars
  <2>2. CASE ~Done(a)
    BY <2>2, <1>1
    DEF IInv, TypeOK, Holds, Wrote, Asked, Appending, ReadRecords, ProbeTail, Goto, Inside,
        Locations, fileVars, backupVars, writerVars
  <2>3. QED BY <2>1, <2>2
<1>2. CASE Refuse(a)
  BY <1>2, EnterKeeps DEF IInv, TypeOK, Refuse, Ask
<1>3. CASE Lock(a)
  BY <1>3, EnterKeeps DEF IInv, TypeOK, Lock, writerVars
<1>4. CASE GiveUp(a) \/ Undecided(a)
  BY <1>4, LeaveKeeps DEF IInv, TypeOK, GiveUp, Undecided, fileVars, backupVars
<1>5. CASE Admit(a)
  <2>1. PICK e \in Entries : Ask(a, e, "prepared") /\ BackUp(a, e) BY <1>5 DEF Admit
  <2>2. /\ backup' \in [Entries -> Writers \cup {"none", "dead"}]
        /\ age' \in [Entries -> 0..1]
    BY <2>1 DEF IInv, TypeOK, BackUp
  <2>3. QED BY <2>1, <2>2, <1>5, AskKeeps DEF Admit, Inside, Outcomes
<1>6. CASE Decline(a)
  <2>1. CASE Readable /\ (kind[a] = "auto" \/ GateOpen)
    BY <2>1, <1>6, AskKeeps DEF IInv, TypeOK, Decline, Inside, fileVars, backupVars
  <2>2. CASE ~(Readable /\ (kind[a] = "auto" \/ GateOpen))
    BY <2>2, <1>6, LeaveKeeps DEF IInv, TypeOK, Decline, fileVars, backupVars
  <2>3. QED BY <2>1, <2>2
<1>7. CASE AfterHost(a)
  <2>1. PICK o \in Outcomes : Ask(a, work[a], o) BY <1>7 DEF AfterHost
  <2>2. work[a] \in Entries \cup {NoEntry} BY DEF IInv, TypeOK
  <2>3. QED
    BY <2>1, <2>2, <1>7, AskKeeps DEF IInv, TypeOK, AfterHost, Inside, backupVars
<1>8. QED BY <1>1, <1>2, <1>3, <1>4, <1>5, <1>6, <1>7 DEF PassStep

LEMMA OthersKeep ==
  ASSUME IInv,
         \/ \E a \in Writers : \/ Crash(a) \/ FinalizeRefused(a)
                               \/ \E k \in Kinds : StartPass(a, k)
                               \/ \E e \in Entries, o \in Outcomes : Finalize(a, e, o)
         \/ Month \/ Spoil
  PROVE  IInv'
<1>1. ASSUME NEW a \in Writers, Crash(a) PROVE IInv'
  BY <1>1, LeaveKeeps DEF IInv, TypeOK, Crash, fileVars
<1>2. ASSUME NEW a \in Writers, FinalizeRefused(a) PROVE IInv'
  BY <1>2, CleanUpKeeps
  DEF IInv, TypeOK, Holds, Wrote, Asked, FinalizeRefused, fileVars, writerVars
<1>3. ASSUME NEW a \in Writers, NEW k \in Kinds, StartPass(a, k) PROVE IInv'
  BY <1>3, NameAssumption
  DEF IInv, TypeOK, Holds, Wrote, Asked, Appending, StartPass, Goto, Inside, Locations,
      fileVars, backupVars
<1>4. ASSUME NEW a \in Writers, NEW e \in Entries, NEW o \in Outcomes, Finalize(a, e, o)
      PROVE  IInv'
  BY <1>4, EnterKeeps DEF IInv, TypeOK, Finalize, Ask
<1>5. CASE Month
  BY <1>5 DEF IInv, TypeOK, Holds, Wrote, Asked, Month, fileVars, writerVars
<1>6. CASE Spoil
  BY <1>6 DEF IInv, TypeOK, Holds, Wrote, Asked, Spoil, backupVars, writerVars
<1>7. QED BY <1>1, <1>2, <1>3, <1>4, <1>5, <1>6

LEMMA StepKeeps == IInv /\ [Next]_vars => IInv'
<1>1. ASSUME IInv, Next PROVE IInv'
  BY <1>1, AppendKeeps, PassKeeps, OthersKeep DEF Next
<1>2. ASSUME IInv, UNCHANGED vars PROVE IInv'
  BY <1>2
  DEF IInv, TypeOK, Holds, Wrote, Asked, vars, fileVars, backupVars, writerVars
<1>3. QED BY <1>1, <1>2

LEMMA Invariance == Spec => []IInv
BY InitHolds, StepKeeps, PTL DEF Spec

\* The lines, the tail, the backups and the processes keep their types, for any number of
\* processes, records and mishaps.
THEOREM TypesHold == Spec => []TypeOK
<1>1. IInv => TypeOK BY DEF IInv
<1>2. QED BY Invariance, <1>1, PTL

-----------------------------------------------------------------------------
(* What is committed stays committed. *)

\* The file is left alone by everything but an append and the one who spoils it.
LEMMA FileIsAppended ==
  ASSUME IInv, [Next]_vars
  PROVE  \/ UNCHANGED fileVars
         \/ Spoil
         \/ \E a \in Writers : AppendStep(a) \/ AppendFails(a)
<1>1. ASSUME NEW a \in Writers, PassStep(a) PROVE UNCHANGED fileVars
  BY <1>1
  DEF PassStep, ReadRecords, ProbeTail, Refuse, Lock, GiveUp, Admit, Decline, AfterHost,
      Undecided
<1>2. ASSUME NEW a \in Writers,
             \/ Crash(a) \/ FinalizeRefused(a)
             \/ \E k \in Kinds : StartPass(a, k)
             \/ \E e \in Entries, o \in Outcomes : Finalize(a, e, o)
      PROVE  UNCHANGED fileVars
  BY <1>2 DEF Crash, FinalizeRefused, StartPass, Finalize
<1>3. CASE Month BY <1>3 DEF Month
<1>4. CASE UNCHANGED vars BY <1>4 DEF vars
<1>5. QED BY <1>1, <1>2, <1>3, <1>4 DEF Next

\* The last byte of a line but its newline makes it a record, that of a refusal none.
LEMMA WriteRecordAppends ==
  ASSUME IInv, NEW a \in Writers, WriteRecord(a)
  PROVE  \/ Committed' = Committed
         \/ /\ work[a] \in Entries /\ next[a] \in Outcomes
            /\ Committed' = Append(Committed, Record(work[a], next[a]))
<1>1. tail = Torn /\ (work[a] = NoEntry \/ next[a] \in Outcomes)
  BY DEF IInv, Wrote, Asked, Appending, WriteRecord
<1>2. Committed = lines /\ lines' = lines /\ tail' = Entry(a)
  BY <1>1, ValueAssumption DEF Committed, WriteRecord
<1>3. CASE work[a] = NoEntry BY <1>2, <1>3, ValueAssumption DEF Committed, Entry
<1>4. CASE work[a] \in Entries /\ next[a] \in Outcomes
  <2>1. tail' = Record(work[a], next[a]) BY <1>2, <1>4 DEF Entry, Entries, NoEntry
  <2>2. tail' \in Records BY <1>4, <2>1 DEF Record, Records
  <2>3. QED BY <1>2, <1>4, <2>1, <2>2 DEF Committed
<1>5. QED BY <1>1, <1>3, <1>4 DEF IInv, TypeOK

\* A step adds at most one record to what readers see, a line that does not decode, or none.
LEMMA StepAppends ==
  ASSUME IInv, [Next]_vars
  PROVE  \/ Committed' = Committed
         \/ Spoil /\ Committed' = Append(Committed, Bad)
         \/ \E a \in Writers :
              /\ WriteRecord(a) /\ work[a] \in Entries /\ next[a] \in Outcomes
              /\ Committed' = Append(Committed, Record(work[a], next[a]))
<1>1. CASE UNCHANGED fileVars BY <1>1 DEF Committed, fileVars
<1>2. CASE Spoil
  BY <1>2, ValueAssumption DEF Spoil, Committed
<1>3. ASSUME NEW a \in Writers, Repair(a) PROVE Committed' = Committed
  BY <1>3, ValueAssumption DEF Repair, Committed
<1>4. ASSUME NEW a \in Writers, WriteSome(a) PROVE Committed' = Committed
  BY <1>4, ValueAssumption DEF IInv, TypeOK, WriteSome, Committed, Terminated
<1>5. ASSUME NEW a \in Writers, pc[a] = "written", lines' = Terminated(tail), tail' = Clean
      PROVE  Committed' = Committed
  BY <1>5, ValueAssumption DEF IInv, Wrote, Committed, Terminated
<1>6. ASSUME NEW a \in Writers, WriteNewline(a) PROVE Committed' = Committed
  BY <1>5, <1>6 DEF WriteNewline
<1>7. ASSUME NEW a \in Writers, AppendFails(a) PROVE Committed' = Committed
  BY <1>1, <1>5, <1>7 DEF AppendFails, Committed, fileVars
<1>8. QED
  BY <1>1, <1>2, <1>3, <1>4, <1>6, <1>7, FileIsAppended, WriteRecordAppends DEF AppendStep

\* No record that a reader has seen is lost, whatever dies, fails, or is moved aside.
THEOREM NothingLost == Spec => NoneLost
<1>1. IInv /\ [Next]_vars => [IsPrefix(Committed, Committed')]_vars
  <2>1. SUFFICES ASSUME IInv, [Next]_vars PROVE IsPrefix(Committed, Committed')
    OBVIOUS
  <2>2. Committed \in Seq(Records \cup {Bad})
    <3>1. CASE tail \in Records
      <4>1. Append(lines, tail) \in Seq(Records \cup {Bad}) BY <2>1, <3>1 DEF IInv, TypeOK
      <4>2. QED BY <3>1, <4>1 DEF Committed
    <3>2. CASE tail \notin Records BY <2>1, <3>2 DEF IInv, TypeOK, Committed
    <3>3. QED BY <3>1, <3>2
  <2>3. CASE Committed' = Committed
    <3>1. Bad \in Records \cup {Bad} OBVIOUS
    <3>2. QED BY <2>2, <2>3, <3>1, PrefixOfAppend
  <2>4. ASSUME NEW r \in Records \cup {Bad}, Committed' = Append(Committed, r)
        PROVE  IsPrefix(Committed, Committed')
    BY <2>2, <2>4, PrefixOfAppend
  <2>5. \A e \in Entries, o \in Outcomes : Record(e, o) \in Records \cup {Bad}
    BY DEF Record, Records
  <2>6. Bad \in Records \cup {Bad} OBVIOUS
  <2>7. QED BY <2>1, <2>3, <2>4, <2>5, <2>6, StepAppends
<1>2. QED BY Invariance, <1>1, PTL DEF Spec, NoneLost

-----------------------------------------------------------------------------
(* What the last line about a record says. *)

\* The outcome that the first n lines of s give record e (LatestIn, of any lines).
LastOf(s, e, n) ==
  LET of == {i \in 1..n : s[i] # Bad /\ s[i].id = e}
  IN IF of = {} THEN "none" ELSE s[Max(of)].outcome

\* Replay accepts s (Readable, of any lines).
Accepted(s) ==
  \A i \in 1..Len(s) :
    s[i] # Bad /\ s[i].outcome \in Transitions[LastOf(s, s[i].id, i - 1)]

LEMMA HasLeast ==
  ASSUME NEW T, T \subseteq Nat, T # {}
  PROVE  \E x \in T : \A y \in T : ~(y < x)
<1>1. \E x \in T : \A y \in T : ~(<<y, x>> \in OpToRel(<, Nat))
  BY NatLessThanWellFounded, WFMin
<1>2. QED BY <1>1 DEF OpToRel

LEMMA HasMax ==
  ASSUME NEW n \in Nat, NEW S, S \subseteq 1..n, S # {}
  PROVE  Max(S) \in S /\ \A y \in S : y <= Max(S)
<1> DEFINE T == {n - i : i \in S}
<1>1. PICK x \in T : \A y \in T : ~(y < x)
  <2>1. \A i \in S : i \in 1..n /\ n - i \in Nat OBVIOUS
  <2>2. T \subseteq Nat BY <2>1
  <2>3. T # {} OBVIOUS
  <2>4. QED BY ONLY <2>2, <2>3, HasLeast
<1>2. PICK m \in S : x = n - m BY <1>1
<1>3. \A y \in S : y <= m
  <2>1. TAKE y \in S
  <2>2. ~(n - y < n - m) BY <1>1, <1>2
  <2>3. QED BY <2>2
<1>4. QED BY <1>2, <1>3 DEF Max

\* The greatest of a set of numbers is the one that is.
LEMMA IsMax ==
  ASSUME NEW S, NEW m \in S, S \subseteq Nat, \A y \in S : y <= m
  PROVE  Max(S) = m
<1>1. \A x \in S : (\A y \in S : x >= y) => x = m
  <2>1. TAKE x \in S
  <2>2. x \in Nat /\ m \in Nat OBVIOUS
  <2>3. QED BY <2>2
<1>2. \A y \in S : m >= y
  <2>1. TAKE y \in S
  <2>2. y \in Nat /\ m \in Nat /\ y <= m OBVIOUS
  <2>3. QED BY <2>2
<1>3. QED BY <1>1, <1>2 DEF Max

LogLines == Records \cup {Bad}

\* It is an outcome, or none.
LEMMA LastType ==
  ASSUME NEW s \in Seq(LogLines), NEW e, NEW n \in 0..Len(s)
  PROVE  LastOf(s, e, n) \in Outcomes \cup {"none"}
<1> DEFINE of == {i \in 1..n : s[i] # Bad /\ s[i].id = e}
<1>1. CASE of = {} BY <1>1 DEF LastOf
<1>2. CASE of # {}
  <2>1. Max(of) \in of
    <3>1. n \in Nat /\ of \subseteq 1..n OBVIOUS
    <3>2. QED BY ONLY <1>2, <3>1, HasMax
  <2>2. s[Max(of)] \in Records BY <2>1 DEF LogLines
  <2>3. QED BY <1>2, <2>2 DEF LastOf, Records
<1>3. QED BY <1>1, <1>2

\* What is appended changes nothing about the lines before it.
LEMMA LastBefore ==
  ASSUME NEW s \in Seq(LogLines), NEW x \in LogLines, NEW e, NEW n \in 0..Len(s)
  PROVE  LastOf(Append(s, x), e, n) = LastOf(s, e, n)
<1> DEFINE of == {i \in 1..n : s[i] # Bad /\ s[i].id = e}
<1>1. \A i \in 1..n : Append(s, x)[i] = s[i] OBVIOUS
<1>2. of = {i \in 1..n : Append(s, x)[i] # Bad /\ Append(s, x)[i].id = e} BY <1>1
<1>3. CASE of = {} BY <1>2, <1>3 DEF LastOf
<1>4. CASE of # {}
  <2>1. Max(of) \in of
    <3>1. n \in Nat /\ of \subseteq 1..n OBVIOUS
    <3>2. QED BY ONLY <1>4, <3>1, HasMax
  <2>2. Append(s, x)[Max(of)] = s[Max(of)] BY <1>1, <2>1
  <2>3. QED BY <1>2, <1>4, <2>2 DEF LastOf
<1>5. QED BY <1>3, <1>4

\* A line about another record, or none, leaves what is known of this one.
LEMMA LastOfOthers ==
  ASSUME NEW s \in Seq(LogLines), NEW x \in LogLines, NEW e, x = Bad \/ x.id # e
  PROVE  LastOf(Append(s, x), e, Len(s) + 1) = LastOf(s, e, Len(s))
<1> DEFINE t == Append(s, x)
<1>1. t[Len(s) + 1] = x OBVIOUS
<1>2. {i \in 1..Len(s) + 1 : t[i] # Bad /\ t[i].id = e}
       = {i \in 1..Len(s) : t[i] # Bad /\ t[i].id = e}
  BY <1>1
<1>3. LastOf(t, e, Len(s) + 1) = LastOf(t, e, Len(s)) BY <1>2 DEF LastOf
<1>4. QED BY <1>3, LastBefore

\* A line about this record is what is known of it.
LEMMA LastOfNew ==
  ASSUME NEW s \in Seq(LogLines), NEW x \in Records
  PROVE  LastOf(Append(s, x), x.id, Len(s) + 1) = x.outcome
<1> DEFINE t == Append(s, x)
           of == {i \in 1..Len(s) + 1 : t[i] # Bad /\ t[i].id = x.id}
<1>1. t[Len(s) + 1] = x /\ x # Bad BY ValueAssumption
<1>2. Len(s) + 1 \in of BY <1>1
<1>3. Max(of) = Len(s) + 1
  <2>1. of \subseteq Nat /\ \A y \in of : y <= Len(s) + 1 OBVIOUS
  <2>2. QED BY ONLY <1>2, <2>1, IsMax
<1>4. QED BY <1>1, <1>2, <1>3 DEF LastOf

\* Replay accepts one line more if it is a transition.
LEMMA AcceptedMore ==
  ASSUME NEW s \in Seq(LogLines), Accepted(s), NEW x \in Records,
         x.outcome \in Transitions[LastOf(s, x.id, Len(s))]
  PROVE  Accepted(Append(s, x))
<1> DEFINE t == Append(s, x)
<1>1. \A i \in 1..Len(s) : t[i] = s[i] /\ LastOf(t, s[i].id, i - 1) = LastOf(s, s[i].id, i - 1)
  <2>1. TAKE i \in 1..Len(s)
  <2>2. i - 1 \in 0..Len(s) /\ x \in LogLines BY DEF LogLines
  <2>3. LastOf(t, s[i].id, i - 1) = LastOf(s, s[i].id, i - 1) BY <2>2, LastBefore
  <2>4. QED BY <2>3
<1>2. t[Len(s) + 1] = x /\ x # Bad /\ Len(t) = Len(s) + 1 BY ValueAssumption
<1>3. LastOf(t, x.id, Len(s)) = LastOf(s, x.id, Len(s)) BY LastBefore DEF LogLines
<1>4. \A i \in 1..Len(t) : t[i] # Bad /\ t[i].outcome \in Transitions[LastOf(t, t[i].id, i - 1)]
  <2>1. TAKE i \in 1..Len(t)
  <2>2. CASE i \in 1..Len(s) BY <1>1, <2>2 DEF Accepted
  <2>3. CASE i = Len(s) + 1 BY <1>2, <1>3, <2>3
  <2>4. QED BY <1>2, <2>2, <2>3
<1>5. QED BY <1>4 DEF Accepted

-----------------------------------------------------------------------------
(* What a reader makes of a step. *)

LEMMA CommittedIsLog == ASSUME TypeOK PROVE Committed \in Seq(LogLines)
<1>1. CASE tail \in Records
  <2>1. Append(lines, tail) \in Seq(LogLines) BY <1>1 DEF TypeOK, LogLines
  <2>2. QED BY <1>1, <2>1 DEF Committed
<1>2. CASE tail \notin Records BY <1>2 DEF TypeOK, Committed, LogLines
<1>3. QED BY <1>1, <1>2

LEMMA LatestType ==
  ASSUME TypeOK, NEW e
  PROVE  Latest(e) \in Outcomes \cup {"none"}
<1>1. Committed \in Seq(LogLines) /\ Len(Committed) \in 0..Len(Committed)
  BY CommittedIsLog
<1>2. Latest(e) = LastOf(Committed, e, Len(Committed)) BY DEF Latest, LatestIn, LastOf
<1>3. QED BY <1>1, <1>2, LastType

LEMMA SameReading ==
  ASSUME Committed' = Committed
  PROVE  (\A e : Latest(e)' = Latest(e)) /\ Consumed' = Consumed /\ Readable' = Readable
BY DEF Latest, LatestIn, Consumed, Readable

\* A line that does not decode says nothing of any record.
LEMMA BadReading ==
  ASSUME TypeOK, Committed' = Append(Committed, Bad)
  PROVE  (\A e : Latest(e)' = Latest(e)) /\ Consumed' = Consumed
<1>1. Committed \in Seq(LogLines) /\ Bad \in LogLines BY CommittedIsLog DEF LogLines
<1>2. Len(Committed') = Len(Committed) + 1 BY <1>1
<1>3. \A e : Latest(e)' = Latest(e)
  <2>1. TAKE e
  <2>2. Latest(e)' = LastOf(Append(Committed, Bad), e, Len(Committed) + 1)
    BY <1>2 DEF Latest, LatestIn, LastOf
  <2>3. Latest(e) = LastOf(Committed, e, Len(Committed)) BY DEF Latest, LatestIn, LastOf
  <2>4. QED BY <1>1, <2>2, <2>3, LastOfOthers
<1>4. QED BY <1>3 DEF Consumed

\* A record moves, the others stay, and replay accepts the move if it is a transition.
LEMMA RecordReading ==
  ASSUME TypeOK, NEW e \in Entries, NEW o \in Outcomes,
         Committed' = Append(Committed, Record(e, o))
  PROVE  /\ Latest(e)' = o
         /\ \A f \in Entries \ {e} : Latest(f)' = Latest(f)
         /\ Readable /\ o \in Transitions[Latest(e)] => Readable'
<1> DEFINE x == Record(e, o)
<1>1. Committed \in Seq(LogLines) BY CommittedIsLog
<1>2. x \in Records /\ x \in LogLines /\ x.id = e /\ x.outcome = o
  BY DEF Record, Records, LogLines
<1> HIDE DEF x
<1>3. Committed' = Append(Committed, x) BY DEF x
<1>4. Len(Committed') = Len(Committed) + 1 BY <1>1, <1>3
<1>5. \A f : /\ Latest(f)' = LastOf(Append(Committed, x), f, Len(Committed) + 1)
             /\ Latest(f) = LastOf(Committed, f, Len(Committed))
  BY <1>3, <1>4 DEF Latest, LatestIn, LastOf
<1>6. Latest(e)' = o
  <2>1. LastOf(Append(Committed, x), x.id, Len(Committed) + 1) = x.outcome
    BY <1>1, <1>2, LastOfNew
  <2>2. QED BY <1>2, <1>5, <2>1
<1>7. ASSUME NEW f \in Entries \ {e} PROVE Latest(f)' = Latest(f)
  <2>1. x.id # f BY <1>2
  <2>2. LastOf(Append(Committed, x), f, Len(Committed) + 1) = LastOf(Committed, f, Len(Committed))
    BY <1>1, <1>2, <2>1, LastOfOthers
  <2>3. QED BY <1>5, <2>2
<1>8. ASSUME Readable, o \in Transitions[Latest(e)] PROVE Readable'
  <2>1. Accepted(Committed) BY <1>8 DEF Readable, Accepted, LatestIn, LastOf
  <2>2. x.outcome \in Transitions[LastOf(Committed, x.id, Len(Committed))]
    BY <1>2, <1>5, <1>8
  <2>3. Accepted(Append(Committed, x)) BY <1>1, <1>2, <2>1, <2>2, AcceptedMore
  <2>4. Accepted(Committed') BY <1>3, <2>3
  <2>5. QED BY <2>4 DEF Readable, Accepted, LatestIn, LastOf
<1>9. QED BY <1>6, <1>7, <1>8

-----------------------------------------------------------------------------
(* What the holder of the lock is about to append is still what replay accepts, has the room *)
(* the gate saw, and has its backup. *)

\* A new intent has room, any other outcome is a transition of the record as it is.
Lawful(a) ==
  pc[a] \in {"append", "writing"} /\ work[a] # NoEntry =>
    /\ next[a] \in Transitions[Latest(work[a])]
    /\ Latest(work[a]) = "none" => next[a] = "prepared" /\ Cardinality(Consumed) < MaxPerDay

\* What was written is the entry, and the host is called for a record that is there.
Finished(a) ==
  /\ pc[a] = "written" => tail = Entry(a)
  /\ pc[a] \in Appending /\ work[a] = NoEntry => next[a] = "none"
  /\ pc[a] = "host" => work[a] \in Entries /\ Latest(work[a]) # "none"

\* A record that is being written has its backup already.
Guarded(a) ==
  pc[a] \in Appending \cup {"host"} /\ work[a] # NoEntry => backup[work[a]] # "none"

LogInv == IInv /\ BackupsKept /\ \A a \in Writers : Lawful(a) /\ Finished(a) /\ Guarded(a)

\* A step that changes no record and takes no backup that counts keeps what the others know.
LEMMA OutsiderKeeps ==
  ASSUME LogInv, IInv', \A e : Latest(e)' = Latest(e), Consumed' = Consumed,
         \A b \in Writers : pc'[b] \in Inside =>
           pc'[b] = pc[b] /\ work'[b] = work[b] /\ next'[b] = next[b] /\ tail' = tail,
         \A e \in Entries : backup'[e] = "none" =>
           \/ backup[e] = "none"
           \/ Latest(e) = "none" /\ \A b \in Writers : pc'[b] \notin Inside
  PROVE  LogInv'
<1>1. BackupsKept' BY DEF LogInv, BackupsKept, Rollbackable
<1>2. ASSUME NEW b \in Writers PROVE Lawful(b)' /\ Finished(b)' /\ Guarded(b)'
  <2>1. CASE pc'[b] \notin Inside
    BY <2>1 DEF Lawful, Finished, Guarded, Inside, Appending
  <2>2. CASE pc'[b] \in Inside
    <3>1. pc'[b] = pc[b] /\ work'[b] = work[b] /\ next'[b] = next[b] /\ tail' = tail BY <2>2
    <3>2. Lawful(b) /\ Finished(b) /\ Guarded(b) BY DEF LogInv
    <3>3. work[b] \in Entries \cup {NoEntry} BY DEF LogInv, IInv, TypeOK
    <3>4. Lawful(b)' BY <3>1, <3>2 DEF Lawful
    <3>5. Finished(b)' BY <3>1, <3>2 DEF Finished, Entry
    <3>6. Guarded(b)' BY <2>2, <3>1, <3>2, <3>3 DEF Guarded
    <3>7. QED BY <3>4, <3>5, <3>6
  <2>3. QED BY <2>1, <2>2
<1>3. QED BY <1>1, <1>2 DEF LogInv

\* Whoever leaves, and leaves the records and the backups as they are.
LEMMA DoneLeaves ==
  ASSUME LogInv, IInv', NEW a \in Writers, Done(a), Committed' = Committed,
         tail' = tail \/ pc[a] \in Inside,
         \A e \in Entries : backup'[e] = "none" => backup[e] = "none"
  PROVE  LogInv'
<1>1. IInv BY DEF LogInv
<1>2. ASSUME NEW b \in Writers, pc'[b] \in Inside
      PROVE  pc'[b] = pc[b] /\ work'[b] = work[b] /\ next'[b] = next[b] /\ tail' = tail
  <2>1. pc'[b] = pc[b] /\ lock = b /\ b # a BY <1>1, <1>2, DoneKeeps
  <2>2. work'[b] = work[b] /\ next'[b] = next[b] BY <1>1, <2>1 DEF Done, IInv, TypeOK
  <2>3. pc[a] \notin Inside BY <1>1, <2>1 DEF IInv, Holds
  <2>4. QED BY <2>1, <2>2, <2>3
<1>3. QED BY <1>2, SameReading, OutsiderKeeps

\* Whoever is alone inside.
LEMMA HolderKeeps ==
  ASSUME IInv', BackupsKept', NEW a \in Writers, pc'[a] \in Inside,
         Lawful(a)' /\ Finished(a)' /\ Guarded(a)'
  PROVE  LogInv'
<1>1. \A b \in Writers \ {a} : pc'[b] \notin Inside BY DEF IInv, Holds
<1>2. \A b \in Writers \ {a} : Lawful(b)' /\ Finished(b)' /\ Guarded(b)'
  BY <1>1 DEF Lawful, Finished, Guarded, Inside, Appending
<1>3. QED BY <1>2 DEF LogInv

\* The next thing the holder does is to append a transition of e.
LEMMA AskLawful ==
  ASSUME IInv, IInv', BackupsKept', NEW a \in Writers, NEW e \in Entries \cup {NoEntry}, NEW o,
         Ask(a, e, o), UNCHANGED fileVars,
         e = NoEntry => o = "none",
         e # NoEntry => /\ o \in Transitions[Latest(e)]
                        /\ Latest(e) = "none" => o = "prepared" /\ Cardinality(Consumed) < MaxPerDay
                        /\ backup'[e] # "none"
  PROVE  LogInv'
<1>1. pc'[a] = "append" /\ work'[a] = e /\ next'[a] = o BY DEF Ask, Goto, IInv, TypeOK
<1>2. Latest(e)' = Latest(e) /\ Consumed' = Consumed
  <2>1. Committed' = Committed BY DEF Committed, fileVars
  <2>2. QED BY <2>1, SameReading
<1>3. Lawful(a)'
  <2>1. CASE e = NoEntry BY <1>1, <2>1 DEF Lawful
  <2>2. CASE e # NoEntry BY <1>1, <1>2, <2>2 DEF Lawful
  <2>3. QED BY <2>1, <2>2
<1>4. Finished(a)' /\ Guarded(a)' BY <1>1 DEF Finished, Guarded
<1>5. QED BY <1>1, <1>3, <1>4, HolderKeeps DEF Inside

\* What cleanup takes is of no record, and nobody is inside meanwhile.
LEMMA CleanUpSpares ==
  ASSUME LogInv, CleanUp
  PROVE  /\ \A e \in Entries : backup'[e] = "none" => backup[e] = "none" \/ Latest(e) = "none"
         /\ \A b \in Writers : pc[b] \notin Inside
<1>1. lock = NoWriter /\ Unlink(Orphans) BY DEF CleanUp
<1>2. \A b \in Writers : pc[b] \notin Inside BY <1>1, FreeIsEmpty DEF LogInv
<1>3. \A e \in Entries : backup'[e] = "none" => backup[e] = "none" \/ Latest(e) = "none"
  BY <1>1 DEF Unlink, Orphans
<1>4. QED BY <1>2, <1>3

\* A record that needs its backup has it after a cleanup too.
LEMMA CleanUpKeepsBackups ==
  ASSUME LogInv, CleanUp, UNCHANGED fileVars
  PROVE  BackupsKept'
<1>1. \A e : Latest(e)' = Latest(e)
  <2>1. Committed' = Committed BY DEF Committed, fileVars
  <2>2. QED BY <2>1, SameReading
<1>2. QED BY <1>1, CleanUpSpares DEF LogInv, BackupsKept, Rollbackable

-----------------------------------------------------------------------------
(* Step by step. *)

LEMMA LogAppend ==
  ASSUME LogInv, IInv', NEW a \in Writers, AppendStep(a) \/ AppendFails(a)
  PROVE  LogInv'
<1> USE DEF LogInv
<1>1. CASE Repair(a)
  <2>1. Committed' = Committed BY <1>1, ValueAssumption DEF Repair, Committed
  <2>2. /\ pc' = pc /\ work' = work /\ next' = next /\ backup' = backup
        /\ pc[a] = "append" /\ pc'[a] \in Inside
    BY <1>1 DEF Repair, backupVars, writerVars, Inside
  <2>3. (\A e : Latest(e)' = Latest(e)) /\ Consumed' = Consumed BY <2>1, SameReading
  <2>4. BackupsKept' BY <2>2, <2>3 DEF BackupsKept
  <2>5. Lawful(a)' /\ Finished(a)' /\ Guarded(a)' BY <2>2, <2>3 DEF Lawful, Finished, Guarded
  <2>6. QED BY <2>2, <2>4, <2>5, HolderKeeps
<1>2. CASE WriteSome(a)
  <2>1. Committed' = Committed
    BY <1>2, ValueAssumption DEF IInv, TypeOK, WriteSome, Committed, Terminated
  <2>2. /\ pc[a] = "append" /\ pc'[a] = "writing"
        /\ work' = work /\ next' = next /\ backup' = backup
    BY <1>2 DEF WriteSome, Goto, backupVars, writerVars, IInv, TypeOK
  <2>3. (\A e : Latest(e)' = Latest(e)) /\ Consumed' = Consumed BY <2>1, SameReading
  <2>4. BackupsKept' BY <2>2, <2>3 DEF BackupsKept
  <2>5. Lawful(a)' /\ Finished(a)' /\ Guarded(a)'
    BY <2>2, <2>3 DEF Lawful, Finished, Guarded, Appending
  <2>6. QED BY <2>2, <2>4, <2>5, HolderKeeps DEF Inside
<1>3. CASE WriteRecord(a)
  <2>1. /\ pc[a] = "writing" /\ pc'[a] = "written" /\ tail' = Entry(a)
        /\ work' = work /\ next' = next /\ backup' = backup
    BY <1>3 DEF WriteRecord, Goto, backupVars, writerVars, IInv, TypeOK
  <2>2. Finished(a)' /\ Guarded(a)' /\ Lawful(a)'
    BY <2>1 DEF Finished, Guarded, Lawful, Appending, Entry
  <2>3. BackupsKept'
    <3>1. CASE Committed' = Committed
      <4>1. \A e : Latest(e)' = Latest(e) BY <3>1, SameReading
      <4>2. QED BY <2>1, <4>1 DEF BackupsKept
    <3>2. CASE /\ work[a] \in Entries /\ next[a] \in Outcomes
               /\ Committed' = Append(Committed, Record(work[a], next[a]))
      <4>1. \A e \in Entries \ {work[a]} : Latest(e)' = Latest(e)
        BY <3>2, RecordReading DEF IInv
      <4>2. backup[work[a]] # "none"
        BY <2>1, <3>2 DEF Guarded, Appending, Entries, NoEntry
      <4>3. QED BY <2>1, <4>1, <4>2 DEF BackupsKept
    <3>3. QED BY <1>3, <3>1, <3>2, WriteRecordAppends
  <2>4. QED BY <2>1, <2>2, <2>3, HolderKeeps DEF Inside
<1>4. CASE WriteNewline(a)
  <2>1. pc[a] = "written" /\ pc[a] \in Inside /\ backup' = backup /\ Committed' = Committed
    BY <1>4, ValueAssumption
    DEF IInv, Wrote, WriteNewline, Committed, Terminated, backupVars, Inside
  <2>2. CASE next[a] \in {"prepared", "rollback_prepared"}
    <3>1. pc'[a] = "host" /\ work' = work /\ next' = next
      BY <1>4, <2>2 DEF WriteNewline, Goto, writerVars, IInv, TypeOK
    <3>2. (\A e : Latest(e)' = Latest(e)) BY <2>1, SameReading
    <3>3. work[a] \in Entries /\ tail = Record(work[a], next[a]) /\ tail \in Records
      <4>1. work[a] \in Entries /\ next[a] \in Outcomes
        BY <2>1, <2>2 DEF Finished, Appending, IInv, TypeOK, Outcomes
      <4>2. QED BY <2>1, <4>1 DEF Finished, Entry, Record, Records, Entries, NoEntry
    <3>4. Latest(work[a]) # "none"
      <4>1. lines \in Seq(LogLines) /\ next[a] # "none" BY <2>2 DEF IInv, TypeOK, LogLines
      <4>2. Committed = Append(lines, tail) BY <3>3 DEF Committed
      <4>3. Len(Committed) = Len(lines) + 1 BY <3>3, <4>1, <4>2 DEF LogLines
      <4>4. tail.id = work[a] /\ tail.outcome = next[a] BY <3>3 DEF Record
      <4>5. Latest(work[a]) = LastOf(Append(lines, tail), tail.id, Len(lines) + 1)
        BY <4>2, <4>3, <4>4 DEF Latest, LatestIn, LastOf
      <4>6. QED BY <3>3, <4>1, <4>4, <4>5, LastOfNew
    <3>5. Lawful(a)' /\ Finished(a)' /\ Guarded(a)'
      BY <2>1, <3>1, <3>2, <3>3, <3>4 DEF Lawful, Finished, Guarded, Appending
    <3>6. BackupsKept' BY <2>1, <3>2 DEF BackupsKept
    <3>7. QED BY <3>1, <3>5, <3>6, HolderKeeps DEF Inside
  <2>3. CASE next[a] \notin {"prepared", "rollback_prepared"}
    BY <1>4, <2>1, <2>3, DoneLeaves DEF WriteNewline
  <2>4. QED BY <2>2, <2>3
<1>5. CASE AppendFails(a)
  <2>1. Committed' = Committed
    BY <1>5, ValueAssumption DEF IInv, Wrote, AppendFails, Committed, Terminated, fileVars
  <2>2. pc[a] \in Inside /\ backup' = backup /\ Done(a)
    BY <1>5 DEF AppendFails, backupVars, Inside
  <2>3. QED BY <2>1, <2>2, DoneLeaves
<1>6. QED BY <1>1, <1>2, <1>3, <1>4, <1>5 DEF AppendStep

LEMMA LogPass ==
  ASSUME LogInv, IInv', NEW a \in Writers, PassStep(a)
  PROVE  LogInv'
<1> USE DEF LogInv
<1>1. UNCHANGED fileVars
  BY DEF PassStep, ReadRecords, ProbeTail, Refuse, Lock, GiveUp, Admit, Decline, AfterHost,
         Undecided
<1>2. tail' = tail /\ Committed' = Committed BY <1>1 DEF Committed, fileVars
<1>3. (\A e : Latest(e)' = Latest(e)) /\ Consumed' = Consumed BY <1>2, SameReading
<1>4. CASE Done(a) /\ UNCHANGED backupVars
  BY <1>2, <1>4, DoneLeaves DEF backupVars
<1>5. CASE ReadRecords(a) \/ ProbeTail(a)
  <2>1. CASE Done(a) BY <1>4, <1>5, <2>1 DEF ReadRecords, ProbeTail
  <2>2. CASE ~Done(a)
    <3>1. /\ pc'[a] \notin Inside /\ \A b \in Writers \ {a} : pc'[b] = pc[b]
          /\ work' = work /\ next' = next /\ backup' = backup
      BY <1>5, <2>2
      DEF ReadRecords, ProbeTail, Goto, Inside, writerVars, backupVars, IInv, TypeOK
    <3>2. QED BY <1>2, <1>3, <3>1, OutsiderKeeps
  <2>3. QED BY <2>1, <2>2
<1>6. CASE Refuse(a)
  <2>1. BackupsKept' BY <1>1, <1>6, CleanUpKeepsBackups DEF Refuse, TakeLock
  <2>2. Ask(a, NoEntry, "none") BY <1>6 DEF Refuse
  <2>3. QED BY <1>1, <2>1, <2>2, AskLawful
<1>7. CASE Lock(a)
  <2>1. BackupsKept' BY <1>1, <1>7, CleanUpKeepsBackups DEF Lock, TakeLock
  <2>2. pc'[a] = "locked" BY <1>7 DEF Lock, Goto, IInv, TypeOK
  <2>3. QED BY <2>1, <2>2, HolderKeeps DEF Inside, Lawful, Finished, Guarded, Appending
<1>8. CASE GiveUp(a) \/ Undecided(a) BY <1>4, <1>8 DEF GiveUp, Undecided
<1>9. CASE Admit(a)
  <2>1. PICK e \in Entries : Unused(e) /\ Ask(a, e, "prepared") /\ BackUp(a, e)
    BY <1>9 DEF Admit
  <2>2. Latest(e) = "none" BY <2>1 DEF Unused, Free
  <2>3. Cardinality(Consumed) < MaxPerDay BY <1>9 DEF Admit, GateOpen
  <2>4. backup'[e] # "none" BY <2>1, NameAssumption DEF BackUp
  <2>5. BackupsKept'
    <3>1. SUFFICES ASSUME NEW f \in Entries, Latest(f) \in Rollbackable \cup {"error"}
                   PROVE  backup'[f] # "none"
      BY <1>3 DEF BackupsKept
    <3>2. f \notin Pruned BY <3>1 DEF Pruned, Expired
    <3>3. QED BY <2>1, <2>4, <3>1, <3>2 DEF BackUp, BackupsKept
  <2>6. QED
    BY <1>1, <2>1, <2>2, <2>3, <2>4, <2>5, AskLawful
    DEF Transitions, Outcomes, Entries, NoEntry
<1>10. CASE Decline(a)
  <2>1. CASE Ask(a, NoEntry, "none") /\ UNCHANGED backupVars
    <3>1. BackupsKept' BY <1>3, <2>1 DEF BackupsKept, backupVars
    <3>2. QED BY <1>1, <2>1, <3>1, AskLawful
  <2>2. QED BY <1>4, <1>10, <2>1 DEF Decline
<1>11. CASE AfterHost(a)
  <2>1. PICK o \in Outcomes : o \in Transitions[Latest(work[a])] /\ Ask(a, work[a], o)
    BY <1>11 DEF AfterHost
  <2>2. backup' = backup /\ pc[a] = "host" BY <1>11 DEF AfterHost, backupVars
  <2>3. work[a] \in Entries /\ work[a] # NoEntry /\ Latest(work[a]) # "none"
    BY <2>2 DEF Finished, Entries, NoEntry
  <2>4. backup'[work[a]] # "none" BY <2>2, <2>3 DEF Guarded
  <2>5. BackupsKept' BY <1>3, <2>2 DEF BackupsKept
  <2>6. QED BY <1>1, <2>1, <2>3, <2>4, <2>5, AskLawful
<1>12. QED BY <1>5, <1>6, <1>7, <1>8, <1>9, <1>10, <1>11 DEF PassStep

LEMMA LogOthers ==
  ASSUME LogInv, IInv',
         \/ \E a \in Writers : \/ Crash(a) \/ FinalizeRefused(a)
                               \/ \E k \in Kinds : StartPass(a, k)
                               \/ \E e \in Entries, o \in Outcomes : Finalize(a, e, o)
         \/ Month \/ Spoil
  PROVE  LogInv'
<1> USE DEF LogInv
<1>1. ASSUME NEW a \in Writers, Crash(a) PROVE LogInv'
  <2>1. tail' = tail /\ Committed' = Committed BY <1>1 DEF Crash, Committed, fileVars
  <2>2. \A e \in Entries : backup'[e] = "none" => backup[e] = "none" BY <1>1 DEF Crash
  <2>3. QED BY <1>1, <2>1, <2>2, DoneLeaves DEF Crash
<1>2. ASSUME NEW a \in Writers, FinalizeRefused(a) PROVE LogInv'
  <2>1. CleanUp /\ Committed' = Committed /\ pc' = pc
    BY <1>2 DEF FinalizeRefused, Committed, fileVars
  <2>2. QED BY <2>1, SameReading, CleanUpSpares, OutsiderKeeps
<1>3. ASSUME NEW a \in Writers, NEW k \in Kinds, StartPass(a, k) PROVE LogInv'
  <2>1. /\ Committed' = Committed /\ tail' = tail /\ backup' = backup
        /\ work' = work /\ next' = next
        /\ pc'[a] \notin Inside /\ \A b \in Writers \ {a} : pc'[b] = pc[b]
    BY <1>3 DEF StartPass, Goto, Committed, fileVars, backupVars, Inside, IInv, TypeOK
  <2>2. QED BY <2>1, SameReading, OutsiderKeeps
<1>4. ASSUME NEW a \in Writers, NEW e \in Entries, NEW o \in Outcomes, Finalize(a, e, o)
      PROVE  LogInv'
  <2>1. /\ CleanUp /\ UNCHANGED fileVars /\ Ask(a, e, o)
        /\ Latest(e) # "none" /\ o \in Transitions[Latest(e)]
    BY <1>4 DEF Finalize, TakeLock, fileVars
  <2>2. BackupsKept' BY <2>1, CleanUpKeepsBackups
  <2>3. Latest(e) \in Rollbackable
    BY <2>1, LatestType DEF Transitions, Outcomes, Rollbackable, IInv
  <2>4. backup'[e] # "none"
    <3>1. backup[e] # "none" BY <2>3 DEF BackupsKept
    <3>2. QED BY <2>1, <3>1, CleanUpSpares
  <2>5. QED BY <2>1, <2>2, <2>4, AskLawful DEF Entries, NoEntry
<1>5. CASE Month
  <2>1. Committed' = Committed /\ UNCHANGED <<pc, work, next, backup, tail>>
    BY <1>5 DEF Month, Committed, fileVars, writerVars
  <2>2. QED BY <2>1, SameReading, OutsiderKeeps
<1>6. CASE Spoil
  <2>1. Committed' = Append(Committed, Bad) BY <1>6, ValueAssumption DEF Spoil, Committed
  <2>2. UNCHANGED <<pc, work, next, backup, tail>> BY <1>6 DEF Spoil, backupVars, writerVars
  <2>3. QED BY <2>1, <2>2, BadReading, OutsiderKeeps DEF IInv
<1>7. QED BY <1>1, <1>2, <1>3, <1>4, <1>5, <1>6

LEMMA LogInit == Init => LogInv
<1>1. SUFFICES ASSUME Init PROVE LogInv OBVIOUS
<1>2. IInv BY <1>1, InitHolds
<1>3. Committed = <<>> BY <1>1, ValueAssumption DEF Init, Committed
<1>4. \A e : Latest(e) = "none"
  <2>1. TAKE e
  <2>2. {i \in 1..0 : Committed[i] # Bad /\ Committed[i].id = e} = {} OBVIOUS
  <2>3. Len(Committed) = 0 BY <1>3
  <2>4. QED BY <2>2, <2>3 DEF Latest, LatestIn
<1>5. BackupsKept BY <1>4 DEF BackupsKept, Rollbackable
<1>6. \A a \in Writers : Lawful(a) /\ Finished(a) /\ Guarded(a)
  BY <1>1 DEF Init, Lawful, Finished, Guarded, Appending
<1>7. QED BY <1>2, <1>5, <1>6 DEF LogInv

LEMMA LogStep == LogInv /\ [Next]_vars => LogInv'
<1>1. ASSUME LogInv, [Next]_vars PROVE IInv' BY <1>1, StepKeeps DEF LogInv
<1>2. ASSUME LogInv, Next PROVE LogInv'
  BY <1>1, <1>2, LogAppend, LogPass, LogOthers DEF Next
<1>3. ASSUME LogInv, UNCHANGED vars PROVE LogInv'
  <2>1. Committed' = Committed /\ UNCHANGED <<pc, work, next, backup, tail>>
    BY <1>3 DEF vars, Committed, fileVars, writerVars, backupVars
  <2>2. QED BY <1>1, <1>3, <2>1, SameReading, OutsiderKeeps
<1>4. QED BY <1>2, <1>3

LEMMA LogInvariance == Spec => []LogInv
BY LogInit, LogStep, PTL DEF Spec

\* While an edit may still have to be rolled back its backup is there, for any number of
\* records and processes, whatever cleanup, retention and deaths do meanwhile
\* (_cleanup_interrupted_artifacts, prune_expired_backups).
THEOREM BackupsAreKept == Spec => []BackupsKept
<1>1. LogInv => BackupsKept BY DEF LogInv
<1>2. QED BY LogInvariance, <1>1, PTL

\* No writer makes the journal unreadable: what it appends is a whole line and a transition of
\* the record as it is then (_append_entry, finalize).
THEOREM WritersKeepReadable == Spec => KeepsReadable
<1>1. LogInv /\ [Next]_vars => [lock # NoWriter /\ Readable => Readable']_vars
  <2>1. SUFFICES ASSUME LogInv, [Next]_vars, lock # NoWriter, Readable PROVE Readable'
    OBVIOUS
  <2>2. CASE Committed' = Committed BY <2>1, <2>2, SameReading
  <2>3. CASE Spoil BY <2>1, <2>3 DEF Spoil
  <2>4. ASSUME NEW a \in Writers, WriteRecord(a), work[a] \in Entries, next[a] \in Outcomes,
               Committed' = Append(Committed, Record(work[a], next[a]))
        PROVE  Readable'
    <3>1. next[a] \in Transitions[Latest(work[a])]
      BY <2>1, <2>4 DEF LogInv, Lawful, WriteRecord, Entries, NoEntry
    <3>2. QED BY <2>1, <2>4, <3>1, RecordReading DEF LogInv, IInv
  <2>5. QED BY <2>1, <2>2, <2>3, <2>4, StepAppends DEF LogInv
<1>2. QED BY LogInvariance, <1>1, PTL DEF Spec, KeepsReadable

-----------------------------------------------------------------------------
(* The lifecycle of the records, step by step. *)

\* The states of this module's records are among the lifecycle's.
LEMMA LifecycleStates ==
  /\ Outcomes \cup {"none"} \subseteq Lifecycle!Outcomes
  /\ \A o \in Outcomes \cup {"none"} : o \in Lifecycle!Consuming <=> o \in Consuming
  /\ \A o \in Outcomes : Transitions[o] \subseteq Lifecycle!Transitions[o]
BY DEF Outcomes, Consuming, Transitions, Lifecycle!Outcomes, Lifecycle!Consuming,
       Lifecycle!Transitions

\* Both modules count alike.
LEMMA SameCount == ASSUME NEW S PROVE Lifecycle!Cardinality(S) = Cardinality(S)
BY DEF Lifecycle!Cardinality, Cardinality

\* The file's budget is the lifecycle's.
LEMMA LifecycleConsumed == ASSUME TypeOK PROVE Lifecycle!Consumed(1) = Consumed
<1>1. \A e \in Entries : Latest(e) \in Outcomes \cup {"none"} BY LatestType
<1>2. "none" \notin Consuming BY DEF Consuming
<1>3. QED BY <1>1, <1>2, LifecycleStates DEF Lifecycle!Consumed, Consumed

\* One record's step is one of the lifecycle's: a reservation with room, or a transition.
LEMMA RecordMoves ==
  ASSUME LogInv, NEW a \in Writers, WriteRecord(a), work[a] \in Entries, next[a] \in Outcomes,
         Committed' = Append(Committed, Record(work[a], next[a]))
  PROVE  Lifecycle!Next
<1>1. PICK e \in Entries, o \in Outcomes : e = work[a] /\ o = next[a] OBVIOUS
<1>2. /\ e # NoEntry /\ o # "none" /\ o \in Transitions[Latest(e)]
      /\ Latest(e) = "none" => o = "prepared" /\ Cardinality(Consumed) < MaxPerDay
  BY <1>1 DEF LogInv, Lawful, WriteRecord, Entries, NoEntry, Outcomes
<1>3. /\ Latest(e)' = o
      /\ \A f \in Entries \ {e} : Latest(f)' = Latest(f)
  BY <1>1, RecordReading DEF LogInv, IInv
<1>4. TypeOK /\ \A f \in Entries : Latest(f) \in Outcomes \cup {"none"}
  BY LatestType DEF LogInv, IInv
<1> DEFINE shown == [f \in Entries |-> Latest(f)]
           days == [f \in Entries |-> IF Latest(f) = "none" THEN 0 ELSE 1]
<1>5. shown' = [shown EXCEPT ![e] = o] BY <1>3
<1>6. CASE Latest(e) = "none"
  <2>1. o = "prepared" /\ Lifecycle!Cardinality(Lifecycle!Consumed(1)) < MaxPerDay
    BY <1>2, <1>4, <1>6, LifecycleConsumed, SameCount
  <2>2. days' = [days EXCEPT ![e] = 1] BY <1>2, <1>3
  <2>3. Lifecycle!Reserve(e) BY <1>5, <1>6, <2>1, <2>2 DEF Lifecycle!Reserve
  <2>4. QED BY <2>3 DEF Lifecycle!Next
<1>7. CASE Latest(e) # "none"
  <2>1. o \in Transitions[Latest(e)] /\ Latest(e) \in Outcomes BY <1>2, <1>4, <1>7
  <2>2. o \in Lifecycle!Transitions[Latest(e)] BY <2>1, LifecycleStates
  <2>3. shown' \in [Entries -> Lifecycle!Outcomes] BY <1>4, <1>5, LifecycleStates
  <2>4. days' = days BY <1>2, <1>3, <1>7
  <2>5. \A f \in Entries :
          Latest(f)' = Latest(f) \/ Latest(f)' \in Lifecycle!Transitions[Latest(f)]
    BY <1>3, <2>2
  <2>6. Lifecycle!Advance BY <2>3, <2>4, <2>5 DEF Lifecycle!Advance
  <2>7. QED BY <2>6 DEF Lifecycle!Next
<1>8. QED BY <1>6, <1>7

\* The file implements the lifecycle of its records and their budget, for any number of
\* processes and records, wherever appends fail and processes die (_append_entry,
\* count_today_applied).
THEOREM Implements == Spec => ImplementsLifecycle
<1>1. Init => Lifecycle!Init
  <2>1. SUFFICES ASSUME Init PROVE Lifecycle!Init OBVIOUS
  <2>2. Committed = <<>> BY <2>1, ValueAssumption DEF Init, Committed
  <2>3. \A e : Latest(e) = "none"
    <3>1. TAKE e
    <3>2. {i \in 1..0 : Committed[i] # Bad /\ Committed[i].id = e} = {} OBVIOUS
    <3>3. Len(Committed) = 0 BY <2>2
    <3>4. QED BY <3>2, <3>3 DEF Latest, LatestIn
  <2>4. QED BY <2>3 DEF Lifecycle!Init
<1>2. LogInv /\ [Next]_vars
      => [Lifecycle!Next]_<<[e \in Entries |-> Latest(e)],
                            [e \in Entries |-> IF Latest(e) = "none" THEN 0 ELSE 1], 1>>
  <2>1. SUFFICES ASSUME LogInv, [Next]_vars
                 PROVE  \/ Lifecycle!Next
                        \/ \A e : Latest(e)' = Latest(e)
    OBVIOUS
  <2>2. CASE Committed' = Committed BY <2>2, SameReading
  <2>3. CASE Committed' = Append(Committed, Bad) BY <2>1, <2>3, BadReading DEF LogInv, IInv
  <2>4. QED BY <2>1, <2>2, <2>3, RecordMoves, StepAppends DEF LogInv
<1>3. QED BY <1>1, <1>2, LogInvariance, PTL DEF Spec, ImplementsLifecycle, Lifecycle!Spec
=============================================================================
