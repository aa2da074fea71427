--------------------------- MODULE AutoWorkerProofs ---------------------------
(***************************************************************************)
(* Theorems about AutoWorker for any sessions and threads, and about       *)
(* TurnMarks for any sessions and marks.                                   *)
(*                                                                         *)
(* The slot is a flag that says nothing of its owner; who owns it is a     *)
(* matter of where the threads are.  The invariant ties the two together:  *)
(* the flag is set exactly while some thread is in Owning, never two of    *)
(* them, and nothing is pending while the flag is clear.                   *)
(*                                                                         *)
(* The messages after a mark are no more than those since the last attempt *)
(* of its session, however short the conversation is made meanwhile.       *)
(***************************************************************************)
EXTENDS AutoWorker, TurnMarks, TLAPS

Owns(t) == pc[t] \in Owning

\* A busy thread works for a session.
Working == \A t \in Threads : pc[t] # "idle" => sess[t] \in Sessions

\* The flag has one owner or none.
Sole == \A t, u \in Threads : Owns(t) /\ Owns(u) => t = u
Taken == slot <=> \E t \in Threads : Owns(t)

\* Ends are deferred only to somebody who owns the slot.
Awaited == pending # <<>> => slot

IInv == TypeOK /\ Working /\ Sole /\ Taken /\ Awaited

\* What a step can do to the slot: t claims it, t gives it back with nothing pending,
\* or it stays where it is.
Claims(t) == /\ ~slot /\ slot'
             /\ ~Owns(t) /\ pc'[t] \in Owning
             /\ \A u \in Threads \ {t} : pc'[u] = pc[u]
             /\ pending' = pending

Gives(t) == /\ slot /\ ~slot'
            /\ Owns(t) /\ pc'[t] \notin Owning
            /\ \A u \in Threads \ {t} : pc'[u] = pc[u]
            /\ pending = <<>> /\ pending' = <<>>

Stays == /\ slot' = slot
         /\ \A t \in Threads : pc'[t] \in Owning <=> Owns(t)
         /\ pending' = pending \/ slot

\* The sequence operations of the deferred ends keep the type of pending.
LEMMA PendingKept ==
  ASSUME TypeOK, NEW s \in Sessions
  PROVE  /\ (\A i \in 1..Len(pending) : pending[i] # s)
              => /\ Append(pending, s) \in Seq(Sessions)
                 /\ \A i, j \in 1..Len(Append(pending, s)) :
                      Append(pending, s)[i] = Append(pending, s)[j] => i = j
         /\ pending # <<>>
              => /\ Head(pending) \in Sessions
                 /\ Tail(pending) \in Seq(Sessions)
                 /\ \A i, j \in 1..Len(Tail(pending)) :
                      Tail(pending)[i] = Tail(pending)[j] => i = j
<1>1. ASSUME \A i \in 1..Len(pending) : pending[i] # s
      PROVE  /\ Append(pending, s) \in Seq(Sessions)
             /\ \A i, j \in 1..Len(Append(pending, s)) :
                  Append(pending, s)[i] = Append(pending, s)[j] => i = j
  <2>1. Append(pending, s) \in Seq(Sessions) BY DEF TypeOK
  <2>2. /\ Len(Append(pending, s)) = Len(pending) + 1
        /\ \A i \in 1..Len(pending) : Append(pending, s)[i] = pending[i]
        /\ Append(pending, s)[Len(pending) + 1] = s
    BY DEF TypeOK
  <2> QED BY <1>1, <2>1, <2>2 DEF TypeOK
<1>2. ASSUME pending # <<>>
      PROVE  /\ Head(pending) \in Sessions
             /\ Tail(pending) \in Seq(Sessions)
             /\ \A i, j \in 1..Len(Tail(pending)) :
                  Tail(pending)[i] = Tail(pending)[j] => i = j
  <2>1. /\ Head(pending) \in Sessions
        /\ Tail(pending) \in Seq(Sessions)
        /\ Len(Tail(pending)) = Len(pending) - 1
        /\ \A i \in 1..Len(Tail(pending)) : Tail(pending)[i] = pending[i + 1]
    BY <1>2 DEF TypeOK
  <2>2. ASSUME NEW i \in 1..Len(Tail(pending)), NEW j \in 1..Len(Tail(pending)),
               Tail(pending)[i] = Tail(pending)[j]
        PROVE  i = j
    <3>1. i + 1 \in 1..Len(pending) /\ j + 1 \in 1..Len(pending) BY <2>1 DEF TypeOK
    <3>2. i + 1 = j + 1 BY <2>1, <2>2, <3>1 DEF TypeOK
    <3> QED BY <3>2
  <2> QED BY <2>1, <2>2
<1> QED BY <1>1, <1>2

\* Every step keeps the types and works for sessions.
LEMMA TypesStep == ASSUME TypeOK, Working, [Next]_vars PROVE TypeOK' /\ Working'
<1> USE DEF Working, Goto, Work, Locations
<1>1. CASE UNCHANGED vars BY <1>1 DEF TypeOK, vars, threadVars
<1>2. CASE Switch BY <1>2 DEF TypeOK, Switch, threadVars
<1>3. ASSUME NEW t \in Threads, Step(t) PROVE TypeOK' /\ Working'
  <2>1. CASE EndWithoutPass(t)
    BY <2>1 DEF TypeOK, EndWithoutPass, ClearNotes, Return
  <2>2. CASE DeferOrClaim(t)
    <3>1. sess[t] \in Sessions BY <2>2 DEF DeferOrClaim
    <3>2. CASE slot
      BY <2>2, <3>1, <3>2, PendingKept DEF TypeOK, DeferOrClaim, Return
    <3>3. CASE ~slot BY <2>2, <3>3 DEF TypeOK, DeferOrClaim
    <3> QED BY <3>2, <3>3
  <2>3. CASE StartWorker(t) \/ Collect(t) \/ Pass(t)
    BY <2>3 DEF TypeOK, StartWorker, Collect, Pass
  <2>4. CASE StartWorkerFails(t) \/ PassRaises(t)
    BY <2>4 DEF TypeOK, StartWorkerFails, PassRaises, LoseCleanup
  <2>5. CASE Cleanup(t) BY <2>5 DEF TypeOK, Cleanup, ClearNotes
  <2>6. CASE Finish(t)
    <3>1. CASE pending = <<>> BY <2>6, <3>1 DEF TypeOK, Finish, Return
    <3>2. CASE pending # <<>>
      <4>1. sess[t] \in Sessions BY <2>6 DEF Finish
      <4> QED BY <2>6, <3>2, <4>1, PendingKept DEF TypeOK, Finish
    <3> QED BY <3>1, <3>2
  <2>7. CASE DrainOnly(t) BY <2>7 DEF TypeOK, DrainOnly, ClearNotes
  <2>8. CASE Resume(t) BY <2>8 DEF TypeOK, Resume
  <2> QED BY <1>3, <2>1, <2>2, <2>3, <2>4, <2>5, <2>6, <2>7, <2>8 DEF Step
<1>4. ASSUME NEW t \in Threads, NEW s \in Sessions, StartTurn(t, s) \/ SessionEnd(t, s)
      PROVE  TypeOK' /\ Working'
  <2>1. CASE StartTurn(t, s) BY <2>1 DEF TypeOK, StartTurn
  <2>2. CASE SessionEnd(t, s)
    <3>1. TypeOK' BY <2>2 DEF TypeOK, SessionEnd
    <3>2. Working' BY <2>2 DEF TypeOK, SessionEnd
    <3> QED BY <3>1, <3>2
  <2> QED BY <1>4, <2>1, <2>2
<1> QED BY <1>1, <1>2, <1>3, <1>4 DEF Next

\* Every step claims the slot, gives it back, or leaves it where it is.
LEMMA SlotMoves ==
  ASSUME IInv, [Next]_vars
  PROVE  Stays \/ \E t \in Threads : Claims(t) \/ Gives(t)
<1> USE DEF IInv, TypeOK, Owns, Owning, Goto
<1>1. CASE UNCHANGED vars BY <1>1 DEF Stays, vars, threadVars
<1>2. CASE Switch BY <1>2 DEF Stays, Switch, threadVars
<1>3. ASSUME NEW t \in Threads, Step(t) PROVE Stays \/ Claims(t) \/ Gives(t)
  <2>1. CASE EndWithoutPass(t) BY <2>1 DEF Stays, EndWithoutPass, Return
  <2>2. CASE DeferOrClaim(t)
    <3>1. CASE slot BY <2>2, <3>1 DEF Stays, DeferOrClaim, Return
    <3>2. CASE ~slot BY <2>2, <3>2 DEF Claims, DeferOrClaim
    <3> QED BY <3>1, <3>2
  <2>3. CASE StartWorker(t) BY <2>3 DEF Stays, StartWorker
  <2>4. CASE StartWorkerFails(t) BY <2>4 DEF Stays, StartWorkerFails
  <2>5. CASE Collect(t) BY <2>5 DEF Stays, Collect
  <2>6. CASE Pass(t) BY <2>6 DEF Stays, Pass
  <2>7. CASE PassRaises(t) BY <2>7 DEF Stays, PassRaises
  <2>8. CASE Cleanup(t) BY <2>8 DEF Stays, Cleanup
  <2>9. CASE Finish(t)
    <3>1. Owns(t) /\ slot BY <2>9 DEF Finish, Taken
    <3>2. CASE pending = <<>> BY <2>9, <3>1, <3>2 DEF Gives, Finish, Return
    <3>3. CASE pending # <<>> BY <2>9, <3>1, <3>3 DEF Stays, Finish
    <3> QED BY <3>2, <3>3
  <2>10. CASE DrainOnly(t) BY <2>10 DEF Stays, DrainOnly
  <2>11. CASE Resume(t) BY <2>11 DEF Stays, Resume
  <2> QED BY <1>3, <2>1, <2>2, <2>3, <2>4, <2>5, <2>6, <2>7, <2>8, <2>9, <2>10, <2>11
          DEF Step
<1>4. ASSUME NEW t \in Threads, NEW s \in Sessions, StartTurn(t, s)
      PROVE  Claims(t)
  BY <1>4 DEF Claims, StartTurn
<1>5. ASSUME NEW t \in Threads, NEW s \in Sessions, SessionEnd(t, s)
      PROVE  Stays
  BY <1>5 DEF Stays, SessionEnd
<1> QED BY <1>1, <1>2, <1>3, <1>4, <1>5 DEF Next

\* The slot keeps its owner and its purpose.
LEMMA SlotStep ==
  ASSUME IInv, Stays \/ \E t \in Threads : Claims(t) \/ Gives(t)
  PROVE  Sole' /\ Taken' /\ Awaited'
<1> USE DEF IInv, Sole, Taken, Awaited, Owns
<1>1. CASE Stays BY <1>1 DEF Stays
<1>2. ASSUME NEW t \in Threads, Claims(t) PROVE Sole' /\ Taken' /\ Awaited'
  BY <1>2 DEF Claims
<1>3. ASSUME NEW t \in Threads, Gives(t) PROVE Sole' /\ Taken' /\ Awaited'
  BY <1>3 DEF Gives
<1> QED BY <1>1, <1>2, <1>3

\* Nobody owns the slot at the start.
LEMMA Initially == Init => IInv
<1> SUFFICES ASSUME Init PROVE IInv OBVIOUS
<1>1. TypeOK
  <2>1. /\ pending \in Seq(Sessions)
        /\ \A i, j \in 1..Len(pending) : pending[i] = pending[j] => i = j
    BY DEF Init
  <2>2. slot \in BOOLEAN /\ enabled \in BOOLEAN BY DEF Init
  <2>3. pc \in [Threads -> Locations] BY DEF Init, Locations
  <2>4. sess \in [Threads -> Sessions \cup {NoSession}] BY DEF Init
  <2>5. /\ ends \in [Threads -> BOOLEAN]
        /\ owed \in [Sessions -> {"nothing", "due", "lost"}]
    BY DEF Init
  <2> QED BY <2>1, <2>2, <2>3, <2>4, <2>5 DEF TypeOK
<1>2. Working BY DEF Init, Working
<1>3. \A t \in Threads : ~Owns(t) BY DEF Init, Owns, Owning
<1>4. Sole /\ Taken /\ Awaited BY <1>3 DEF Init, Sole, Taken, Awaited
<1> QED BY <1>1, <1>2, <1>4 DEF IInv

\* The inductive invariant of the worker slot.
THEOREM Invariance == Spec => []IInv
<1>1. IInv /\ [Next]_vars => IInv'
  <2> SUFFICES ASSUME IInv, [Next]_vars PROVE IInv' OBVIOUS
  <2>1. TypeOK' /\ Working' BY TypesStep DEF IInv
  <2>2. Sole' /\ Taken' /\ Awaited' BY SlotMoves, SlotStep
  <2> QED BY <2>1, <2>2 DEF IInv
<1> QED BY Initially, <1>1, PTL DEF Spec

\* Every variable keeps its type, and no session has two deferred ends
\* (_defer_or_claim_session_end).
THEOREM TypesHold == Spec => []TypeOK
<1>1. IInv => TypeOK BY DEF IInv
<1> QED BY Invariance, <1>1, PTL

\* A deferred session end always has a thread that will look for it
\* (_finish_auto_worker).
THEOREM NoneStranded == Spec => []NothingStranded
<1>1. IInv => NothingStranded BY DEF IInv, Awaited, Taken, Owns, NothingStranded
<1> QED BY Invariance, <1>1, PTL

\* The only owner is the holder the abstract lock sees.
LEMMA HolderIs ==
  ASSUME Sole
  PROVE  /\ \A t \in Threads : Owns(t) => Holder = t
         /\ (\A t \in Threads : ~Owns(t)) => Holder = NoThread
  BY DEF Sole, Holder, Owns

\* The slot behaves as one lock, for any number of threads (_claim_auto_worker,
\* _finish_auto_worker).
THEOREM Implements == Spec => OneWorker
<1>1. Init => Slot!Init
  <2> SUFFICES ASSUME Init PROVE Holder = NoThread BY DEF Slot!Init
  <2> QED BY DEF Init, Holder, Owning
<1>2. IInv /\ IInv' /\ [Next]_vars => [Slot!Next]_Holder
  <2> SUFFICES ASSUME IInv, IInv', [Next]_vars PROVE [Slot!Next]_Holder
    OBVIOUS
  <2>1. Stays \/ \E t \in Threads : Claims(t) \/ Gives(t) BY SlotMoves
  <2>2. /\ \A t \in Threads : Owns(t) => Holder = t
        /\ (\A t \in Threads : ~Owns(t)) => Holder = NoThread
    BY HolderIs DEF IInv
  <2>3. /\ \A t \in Threads : pc'[t] \in Owning => Holder' = t
        /\ (\A t \in Threads : pc'[t] \notin Owning) => Holder' = NoThread
    BY DEF IInv, Sole, Holder, Owns
  <2>4. CASE Stays
    BY <2>2, <2>3, <2>4 DEF Stays
  <2>5. ASSUME NEW t \in Threads, Claims(t) PROVE Slot!Acquire(t)
    <3>1. Holder = NoThread BY <2>2, <2>5 DEF Claims, IInv, Taken
    <3>2. Holder' = t BY <2>3, <2>5 DEF Claims
    <3> QED BY <3>1, <3>2 DEF Slot!Acquire
  <2>6. ASSUME NEW t \in Threads, Gives(t) PROVE Slot!Release(t)
    <3>1. Holder = t BY <2>2, <2>6 DEF Gives
    <3>2. \A u \in Threads : pc'[u] \notin Owning
      BY <2>6 DEF Gives, IInv, Taken, Owns
    <3>3. Holder' = NoThread BY <2>3, <3>2
    <3> QED BY <3>1, <3>3 DEF Slot!Release
  <2> QED BY <2>1, <2>4, <2>5, <2>6 DEF Slot!Next
<1> QED BY Invariance, <1>1, <1>2, PTL DEF Spec, OneWorker, Slot!Spec

-----------------------------------------------------------------------------
(* The turn interval.  What a mark says of its session is bounded by the    *)
(* messages the session has had since its last attempt; a mark that is      *)
(* evicted or forgotten takes its claim with it.                            *)

MarkRecords == [chat : Chats, length : Nat]

MarksTypes ==
  /\ length \in [Chats -> Nat] /\ counted \in [Chats -> Nat]
  /\ since \in [Chats -> 0..Interval]
  /\ marks \in Seq(MarkRecords)
  /\ calling \in [Chats -> {"idle", "called", "reached", "charging"}]
  /\ slotTaken \in BOOLEAN

OneMark == \A i, j \in DOMAIN marks : marks[i].chat = marks[j].chat => i = j

\* A conversation only shrinks while its callback runs.
CountedLast == \A s \in Chats : calling[s] # "idle" => length[s] <= counted[s]

\* The messages after a mark are messages after the last attempt.
Earned(m) ==
  \/ since[m.chat] >= Interval
  \/ /\ length[m.chat] - m.length <= since[m.chat]
     /\ calling[m.chat] = "called" => counted[m.chat] - m.length <= since[m.chat]
MarksEarned == \A i \in DOMAIN marks : Earned(marks[i])

MarksInv == MarksTypes /\ OneMark /\ CountedLast /\ MarksEarned

\* A sequence without one of its elements.
LEMMA ElementRemoved ==
  ASSUME NEW S, NEW q \in Seq(S), NEW k \in 1..Len(q)
  PROVE  /\ RemoveAt(q, k) \in Seq(S) /\ DOMAIN RemoveAt(q, k) = 1..Len(q) - 1
         /\ \A i \in 1..Len(q) - 1 : RemoveAt(q, k)[i] = q[IF i < k THEN i ELSE i + 1]
<1> DEFINE before == SubSeq(q, 1, k - 1)
           after == SubSeq(q, k + 1, Len(q))
<1>1. /\ before \in Seq(S) /\ Len(before) = k - 1
      /\ \A i \in 1..k - 1 : before[i] = q[i]
  OBVIOUS
<1>2. /\ after \in Seq(S) /\ Len(after) = Len(q) - k
      /\ \A i \in 1..Len(q) - k : after[i] = q[i + k]
  OBVIOUS
<1>3. RemoveAt(q, k) = before \o after
  BY DEF RemoveAt
<1> HIDE DEF before, after
<1>4. /\ before \o after \in Seq(S) /\ Len(before \o after) = Len(q) - 1
      /\ DOMAIN (before \o after) = 1..Len(before \o after)
  BY <1>1, <1>2
<1>5. ASSUME NEW i \in 1..Len(q) - 1
      PROVE  (before \o after)[i] = q[IF i < k THEN i ELSE i + 1]
  <2>1. CASE i < k
    <3>1. (before \o after)[i] = before[i] BY <1>1, <1>2, <2>1
    <3>2. QED BY <1>1, <2>1, <3>1
  <2>2. CASE ~(i < k)
    <3>1. i - (k - 1) \in 1..Len(q) - k /\ (i - (k - 1)) + k = i + 1 BY <1>5, <2>2
    <3>2. (before \o after)[i] = after[i - (k - 1)] BY <1>1, <1>2, <2>2, <3>1
    <3>3. after[i - (k - 1)] = q[(i - (k - 1)) + k] BY <1>2, <3>1
    <3>4. QED BY <2>2, <3>1, <3>2, <3>3
  <2>3. QED BY <2>1, <2>2
<1>6. QED BY <1>3, <1>4, <1>5

\* The marks of the other sessions, or all but the oldest.
LEMMA Remaining ==
  ASSUME MarksTypes, OneMark, NEW s \in Chats,
         NEW room, room = Without(s) \/ (~Marked(s) /\ marks # <<>> /\ room = Tail(marks))
  PROVE  /\ room \in Seq(MarkRecords)
         /\ \A i \in DOMAIN room : room[i].chat # s /\ \E j \in DOMAIN marks : room[i] = marks[j]
         /\ \A i, j \in DOMAIN room : room[i].chat = room[j].chat => i = j
<1>0. marks \in Seq(MarkRecords) /\ DOMAIN marks = 1..Len(marks) BY DEF MarksTypes
<1>1. CASE Marked(s) /\ room = RemoveAt(marks, Place(s))
  <2>1. Place(s) \in DOMAIN marks /\ marks[Place(s)].chat = s BY <1>1 DEF Marked, Place
  <2>2. /\ room \in Seq(MarkRecords) /\ DOMAIN room = 1..Len(marks) - 1
        /\ \A i \in 1..Len(marks) - 1 :
             room[i] = marks[IF i < Place(s) THEN i ELSE i + 1]
    BY <1>0, <1>1, <2>1, ElementRemoved
  <2>3. \A i \in DOMAIN room : /\ (IF i < Place(s) THEN i ELSE i + 1) \in DOMAIN marks
                               /\ (IF i < Place(s) THEN i ELSE i + 1) # Place(s)
    BY <1>0, <2>1, <2>2
  <2>4. QED BY <1>0, <2>1, <2>2, <2>3 DEF OneMark
<1>2. CASE ~Marked(s) /\ room = marks
  BY <1>0, <1>2 DEF Marked, OneMark
<1>3. CASE ~Marked(s) /\ marks # <<>> /\ room = Tail(marks)
  <2>1. /\ room \in Seq(MarkRecords) /\ DOMAIN room = 1..Len(marks) - 1
        /\ \A i \in 1..Len(marks) - 1 : room[i] = marks[i + 1] /\ i + 1 \in DOMAIN marks
    BY <1>0, <1>3
  <2>2. QED BY <1>0, <1>3, <2>1 DEF Marked, OneMark
<1>4. QED BY <1>1, <1>2, <1>3 DEF Without

\* A new mark goes to the end.
LEMMA MarkIsSet ==
  ASSUME MarksInv, NEW s \in Chats, SetMark(s)
  PROVE  /\ marks' \in Seq(MarkRecords) /\ OneMark'
         /\ \A i \in DOMAIN marks' :
              \/ marks'[i] = [chat |-> s, length |-> counted[s]]
              \/ marks'[i].chat # s /\ \E j \in DOMAIN marks : marks'[i] = marks[j]
<1> DEFINE m == [chat |-> s, length |-> counted[s]]
<1>1. PICK room : /\ marks' = Append(room, m)
                  /\ room = Without(s) \/ (~Marked(s) /\ marks # <<>> /\ room = Tail(marks))
  <2>1. CASE ~Marked(s) /\ Len(marks) >= MaxMarks
    <3>1. marks' = Append(Tail(marks), m) BY <2>1 DEF SetMark
    <3>2. marks # <<>> BY <2>1, TurnMarksAssumption
    <3>3. QED BY <2>1, <3>1, <3>2
  <2>2. CASE ~(~Marked(s) /\ Len(marks) >= MaxMarks)
    <3>1. marks' = Append(Without(s), m) BY <2>2 DEF SetMark
    <3>2. QED BY <3>1
  <2>3. QED BY <2>1, <2>2
<1>2. /\ room \in Seq(MarkRecords)
      /\ \A i \in DOMAIN room : room[i].chat # s /\ \E j \in DOMAIN marks : room[i] = marks[j]
      /\ \A i, j \in DOMAIN room : room[i].chat = room[j].chat => i = j
  BY <1>1, Remaining DEF MarksInv
<1>3. m \in MarkRecords /\ m.chat = s BY DEF MarksInv, MarksTypes, MarkRecords
<1> HIDE DEF m
<1>4. /\ marks' \in Seq(MarkRecords) /\ DOMAIN marks' = 1..Len(room) + 1
      /\ DOMAIN room = 1..Len(room) /\ Len(room) \in Nat
      /\ marks'[Len(room) + 1] = m /\ \A i \in 1..Len(room) : marks'[i] = room[i]
  BY <1>1, <1>2, <1>3
<1>5. OneMark' BY <1>2, <1>3, <1>4 DEF OneMark
<1>6. QED BY <1>2, <1>4, <1>5 DEF m

LEMMA InitiallyMarksInv == MarksInit => MarksInv
<1>1. SUFFICES ASSUME MarksInit PROVE MarksInv OBVIOUS
<1>2. MarksTypes
  <2>1. length \in [Chats -> Nat] /\ counted \in [Chats -> Nat]
    BY <1>1 DEF MarksInit
  <2>2. 0 \in 0..Interval BY TurnMarksAssumption
  <2>3. marks \in Seq(MarkRecords) BY <1>1 DEF MarksInit
  <2>4. QED BY <1>1, <2>1, <2>2, <2>3 DEF MarksInit, MarksTypes
<1>3. QED BY <1>1, <1>2 DEF MarksInit, MarksInv, OneMark, CountedLast, MarksEarned

LEMMA TakeTurnKeeps ==
  ASSUME MarksInv, NEW s \in Chats, TakeTurn(s)
  PROVE  MarksInv'
<1>1. /\ length' = [length EXCEPT ![s] = length[s] + 1]
      /\ since' = [since EXCEPT ![s] = IF since[s] < Interval THEN since[s] + 1 ELSE since[s]]
      /\ counted' = [counted EXCEPT ![s] = length[s] + 1]
      /\ calling' = [calling EXCEPT ![s] = "called"]
      /\ UNCHANGED <<marks, slotTaken>>
  BY DEF TakeTurn, Enters, MarksInv, MarksTypes
<1>2. MarksTypes' BY <1>1, TurnMarksAssumption DEF MarksInv, MarksTypes
<1>3. OneMark' /\ CountedLast' BY <1>1 DEF MarksInv, MarksTypes, OneMark, CountedLast
<1>4. ASSUME NEW m \in MarkRecords, Earned(m) PROVE Earned(m)'
  BY <1>1, <1>4, TurnMarksAssumption DEF MarksInv, MarksTypes, Earned, MarkRecords
<1>5. MarksEarned' BY <1>1, <1>4 DEF MarksInv, MarksTypes, MarksEarned
<1>6. QED BY <1>2, <1>3, <1>5 DEF MarksInv

\* A callback goes on or returns, and nothing else happens.
LEMMA CallbackKeeps ==
  ASSUME MarksInv, NEW s \in Chats, calling[s] # "idle",
         NEW where \in {"idle", "reached", "charging"}, Enters(s, where), slotTaken' \in BOOLEAN,
         UNCHANGED <<length, marks, since, counted>>
  PROVE  MarksInv'
<1>1. calling' = [calling EXCEPT ![s] = where] BY DEF Enters
<1>2. MarksTypes' BY <1>1 DEF MarksInv, MarksTypes
<1>3. OneMark' /\ CountedLast' BY <1>1 DEF MarksInv, MarksTypes, OneMark, CountedLast
<1>4. MarksEarned' BY <1>1 DEF MarksInv, MarksTypes, MarksEarned, Earned, MarkRecords
<1>5. QED BY <1>2, <1>3, <1>4 DEF MarksInv

\* The length a callback was called with becomes the mark.
LEMMA SetMarkKeeps ==
  ASSUME MarksInv, NEW s \in Chats, calling[s] # "idle", SetMark(s), Enters(s, "idle"),
         \/ UNCHANGED since
         \/ since' = [since EXCEPT ![s] = 0],
         UNCHANGED <<length, slotTaken, counted>>
  PROVE  MarksInv'
<1>1. calling' = [calling EXCEPT ![s] = "idle"] BY DEF Enters
<1>2. /\ marks' \in Seq(MarkRecords) /\ OneMark'
      /\ \A i \in DOMAIN marks' :
           \/ marks'[i] = [chat |-> s, length |-> counted[s]]
           \/ marks'[i].chat # s /\ \E j \in DOMAIN marks : marks'[i] = marks[j]
  BY MarkIsSet
<1>3. MarksTypes'
  <2>1. 0 \in 0..Interval BY TurnMarksAssumption
  <2>2. since' \in [Chats -> 0..Interval] BY <2>1 DEF MarksInv, MarksTypes
  <2>3. calling' \in [Chats -> {"idle", "called", "reached", "charging"}]
    BY <1>1 DEF MarksInv, MarksTypes
  <2>4. QED BY <1>2, <2>2, <2>3 DEF MarksInv, MarksTypes
<1>4. CountedLast' BY <1>1 DEF MarksInv, MarksTypes, CountedLast
<1>5. MarksEarned'
  <2>1. SUFFICES ASSUME NEW i \in DOMAIN marks' PROVE Earned(marks[i])' BY DEF MarksEarned
  <2>2. CASE marks'[i] = [chat |-> s, length |-> counted[s]]
    <3>1. length[s] <= counted[s] BY DEF MarksInv, CountedLast
    <3>2. since'[s] \in Nat /\ length[s] \in Nat /\ counted[s] \in Nat /\ calling'[s] = "idle"
      BY <1>1, <1>3 DEF MarksInv, MarksTypes
    <3>3. length[s] - counted[s] <= since'[s] BY <3>1, <3>2
    <3>4. QED BY <2>2, <3>2, <3>3 DEF Earned
  <2>3. CASE marks'[i].chat # s /\ \E j \in DOMAIN marks : marks'[i] = marks[j]
    <3>1. Earned(marks'[i]) /\ marks'[i] \in MarkRecords BY <1>2, <2>1, <2>3 DEF MarksInv, MarksEarned
    <3>2. /\ since'[marks'[i].chat] = since[marks'[i].chat]
          /\ calling'[marks'[i].chat] = calling[marks'[i].chat]
      BY <1>1, <2>3, <3>1 DEF MarksInv, MarksTypes, MarkRecords
    <3>3. QED BY <3>1, <3>2 DEF Earned
  <2>4. QED BY <1>2, <2>1, <2>2, <2>3
<1>6. QED BY <1>2, <1>3, <1>4, <1>5 DEF MarksInv

\* A conversation ends, starts anew or is compressed.
LEMMA ForgetMarkKeeps ==
  ASSUME MarksInv, NEW s \in Chats, ForgetMark(s)
  PROVE  MarksInv'
<1>1. /\ marks' \in Seq(MarkRecords) /\ OneMark'
      /\ \A i \in DOMAIN marks' :
           marks'[i].chat # s /\ \E j \in DOMAIN marks : marks'[i] = marks[j]
  <2>1. /\ Without(s) \in Seq(MarkRecords)
        /\ \A i \in DOMAIN Without(s) :
             Without(s)[i].chat # s /\ \E j \in DOMAIN marks : Without(s)[i] = marks[j]
        /\ \A i, j \in DOMAIN Without(s) : Without(s)[i].chat = Without(s)[j].chat => i = j
    BY Remaining DEF MarksInv
  <2>2. marks' = Without(s) BY DEF ForgetMark
  <2>3. QED BY <2>1, <2>2 DEF OneMark
<1>2. MarksTypes'
  <2>1. 0 \in 0..Interval BY TurnMarksAssumption
  <2>2. since \in [Chats -> 0..Interval] /\ length \in [Chats -> Nat] /\ 0 \in Nat
    BY DEF MarksInv, MarksTypes
  <2>3. since' \in [Chats -> 0..Interval] BY <2>1, <2>2 DEF ForgetMark
  <2>4. length' \in [Chats -> Nat] BY <2>2 DEF ForgetMark
  <2>5. UNCHANGED <<calling, slotTaken, counted>> BY DEF ForgetMark
  <2>6. QED BY <1>1, <2>3, <2>4, <2>5 DEF MarksInv, MarksTypes
<1>3. CountedLast'
  <2>1. SUFFICES ASSUME NEW c \in Chats, calling'[c] # "idle" PROVE length'[c] <= counted'[c]
    BY DEF CountedLast
  <2>2. length[c] <= counted[c] /\ counted[c] \in Nat /\ UNCHANGED counted
    BY <2>1 DEF ForgetMark, MarksInv, MarksTypes, CountedLast
  <2>3. length'[c] \in {0, length[c]} BY DEF ForgetMark, MarksInv, MarksTypes
  <2>4. QED BY <2>2, <2>3
<1>4. MarksEarned'
  <2>1. SUFFICES ASSUME NEW i \in DOMAIN marks' PROVE Earned(marks[i])' BY DEF MarksEarned
  <2>2. Earned(marks'[i]) /\ marks'[i] \in MarkRecords /\ marks'[i].chat # s
    BY <1>1, <2>1 DEF MarksInv, MarksEarned
  <2>3. /\ since'[marks'[i].chat] = since[marks'[i].chat]
        /\ length'[marks'[i].chat] = length[marks'[i].chat]
        /\ UNCHANGED <<calling, counted>>
    BY <2>2 DEF ForgetMark, MarksInv, MarksTypes, MarkRecords
  <2>4. QED BY <2>2, <2>3 DEF Earned
<1>5. QED BY <1>1, <1>2, <1>3, <1>4 DEF MarksInv

LEMMA CompressKeeps ==
  ASSUME MarksInv, NEW s \in Chats, Compress(s)
  PROVE  MarksInv'
<1>1. /\ \E n \in Nat : n < length[s] /\ length' = [length EXCEPT ![s] = n]
      /\ UNCHANGED <<calling, marks, slotTaken, since, counted>>
  <2>1. length[s] \in Nat BY DEF MarksInv, MarksTypes
  <2>2. \A n \in 0..length[s] - 1 : n \in Nat /\ n < length[s] BY <2>1
  <2>3. QED BY <2>2 DEF Compress
<1>2. MarksTypes' /\ OneMark' BY <1>1 DEF MarksInv, MarksTypes, OneMark
<1>3. CountedLast' BY <1>1 DEF MarksInv, MarksTypes, CountedLast
<1>4. ASSUME NEW m \in MarkRecords, Earned(m) PROVE Earned(m)'
  BY <1>1, <1>4, TurnMarksAssumption DEF MarksInv, MarksTypes, Earned, MarkRecords
<1>5. MarksEarned' BY <1>1, <1>4 DEF MarksInv, MarksTypes, MarksEarned
<1>6. QED BY <1>2, <1>3, <1>5 DEF MarksInv

LEMMA NextKeepsMarksInv == MarksInv /\ [MarksNext]_marksVars => MarksInv'
<1>1. SUFFICES ASSUME MarksInv, [MarksNext]_marksVars PROVE MarksInv' OBVIOUS
<1>2. CASE UNCHANGED marksVars \/ WorkerEnds
  BY <1>1, <1>2 DEF marksVars, WorkerEnds, MarksInv, MarksTypes, OneMark, CountedLast, MarksEarned,
                    Earned
<1>3. ASSUME NEW s \in Chats, GatesRefuse(s) PROVE MarksInv'
  BY <1>1, <1>3, CallbackKeeps DEF GatesRefuse, MarksInv, MarksTypes
<1>4. ASSUME NEW s \in Chats, ClaimSlot(s) PROVE MarksInv'
  BY <1>1, <1>4, CallbackKeeps DEF ClaimSlot, MarksInv, MarksTypes
<1>5. ASSUME NEW s \in Chats, Compare(s) PROVE MarksInv'
  <2>1. CASE Marked(s)
    BY <1>1, <1>5, <2>1, CallbackKeeps DEF Compare, MarksInv, MarksTypes
  <2>2. CASE ~Marked(s)
    BY <1>1, <1>5, <2>2, SetMarkKeeps DEF Compare
  <2>3. QED BY <2>1, <2>2
<1>6. ASSUME NEW s \in Chats, ChargeAttempt(s) PROVE MarksInv'
  BY <1>1, <1>6, SetMarkKeeps DEF ChargeAttempt
<1>7. QED BY <1>1, <1>2, <1>3, <1>4, <1>5, <1>6, TakeTurnKeeps, ForgetMarkKeeps, CompressKeeps
          DEF MarksNext

LEMMA MarksInvHolds == MarksSpec => []MarksInv
BY InitiallyMarksInv, NextKeepsMarksInv, PTL DEF MarksSpec

\* A session pays for a pass with a full interval of its own messages, for any number of
\* sessions and marks: an evicted mark, a shortened conversation or a new start of the process
\* never fires one early (_turn_interval_reached, _set_turn_mark_locked).
THEOREM NoneFiresEarly == MarksSpec => NoEarlyPass
<1>1. MarksInv /\ [MarksNext]_marksVars =>
        [\A s \in Chats : calling[s] = "called" /\ calling'[s] = "reached"
                          => since[s] >= Interval]_marksVars
  <2>1. SUFFICES ASSUME MarksInv, MarksNext, NEW s \in Chats,
                        calling[s] = "called", calling'[s] = "reached"
                 PROVE  since[s] >= Interval
    BY DEF marksVars
  <2>2. Compare(s) /\ Marked(s) /\ counted[s] - Mark(s) >= Interval
    BY <2>1 DEF MarksNext, WorkerEnds, TakeTurn, GatesRefuse, Compare, ClaimSlot, ChargeAttempt,
                ForgetMark, Compress, Enters, MarksInv, MarksTypes
  <2>3. Place(s) \in DOMAIN marks /\ marks[Place(s)].chat = s BY <2>2 DEF Marked, Place
  <2>4. Earned(marks[Place(s)]) /\ marks[Place(s)] \in MarkRecords
    BY <2>1, <2>3 DEF MarksInv, MarksTypes, MarksEarned
  <2>5. QED
    BY <2>1, <2>2, <2>3, <2>4, TurnMarksAssumption
    DEF Earned, Mark, MarkRecords, MarksInv, MarksTypes
<1>2. QED BY MarksInvHolds, <1>1, PTL DEF MarksSpec, NoEarlyPass

-----------------------------------------------------------------------------
(* The marks take a bounded place. *)

MarksBounds ==
  /\ \A s \in Chats : length[s] <= MaxLength /\ counted[s] <= MaxLength
  /\ Len(marks) <= MaxMarks

LEMMA WithoutIsNoLonger ==
  ASSUME MarksTypes, NEW s \in Chats
  PROVE  /\ Without(s) \in Seq(MarkRecords) /\ Len(Without(s)) <= Len(marks)
         /\ Marked(s) => Len(Without(s)) = Len(marks) - 1
<1>1. marks \in Seq(MarkRecords) /\ DOMAIN marks = 1..Len(marks) /\ Len(marks) \in Nat
  BY DEF MarksTypes
<1>2. CASE Marked(s)
  <2>1. Place(s) \in 1..Len(marks) BY <1>1, <1>2 DEF Marked, Place
  <2>2. Without(s) = RemoveAt(marks, Place(s)) BY <1>2 DEF Without
  <2>3. Without(s) \in Seq(MarkRecords) /\ DOMAIN Without(s) = 1..Len(marks) - 1
    BY <1>1, <2>1, <2>2, ElementRemoved
  <2>4. Len(marks) - 1 \in Nat BY <1>1, <2>1
  <2>5. Len(Without(s)) = Len(marks) - 1 BY <2>3, <2>4
  <2>6. QED BY <1>1, <2>3, <2>5
<1>3. CASE ~Marked(s)
  <2>1. Without(s) = marks BY <1>3 DEF Without
  <2>2. Len(marks) <= Len(marks) BY <1>1
  <2>3. QED BY <1>1, <1>3, <2>1, <2>2
<1>4. QED BY <1>2, <1>3

\* A new mark takes the place of an old one when there is no other.
LEMMA MarksAreFew ==
  ASSUME MarksInv, MarksBounds, NEW s \in Chats, SetMark(s)
  PROVE  Len(marks') <= MaxMarks
<1> DEFINE m == [chat |-> s, length |-> counted[s]]
<1>1. m \in MarkRecords BY DEF MarksInv, MarksTypes, MarkRecords
<1> HIDE DEF m
<1>2. marks \in Seq(MarkRecords) /\ MaxMarks \in Nat \ {0} /\ Len(marks) <= MaxMarks
  BY TurnMarksAssumption DEF MarksInv, MarksTypes, MarksBounds
<1>3. \A room \in Seq(MarkRecords) : Len(Append(room, m)) = Len(room) + 1
  BY <1>1
<1>4. CASE ~Marked(s) /\ Len(marks) >= MaxMarks
  <2>1. marks' = Append(Tail(marks), m) BY <1>4 DEF SetMark, m
  <2>2. Tail(marks) \in Seq(MarkRecords) /\ Len(Tail(marks)) = Len(marks) - 1
    BY <1>2, <1>4
  <2>3. QED BY <1>2, <1>3, <2>1, <2>2
<1>5. CASE ~(~Marked(s) /\ Len(marks) >= MaxMarks)
  <2>1. marks' = Append(Without(s), m) BY <1>5 DEF SetMark, m
  <2>2. Without(s) \in Seq(MarkRecords) /\ Len(Without(s)) < MaxMarks
    BY <1>2, <1>5, WithoutIsNoLonger DEF MarksInv, Without
  <2>3. QED BY <1>2, <1>3, <2>1, <2>2
<1>6. QED BY <1>4, <1>5

LEMMA MarksBoundsInit == MarksInit => MarksBounds
BY TurnMarksAssumption DEF MarksInit, MarksBounds

LEMMA MarksBoundsNext == MarksInv /\ MarksBounds /\ [MarksNext]_marksVars => MarksBounds'
<1>1. SUFFICES ASSUME MarksInv, MarksBounds, [MarksNext]_marksVars PROVE MarksBounds' OBVIOUS
<1>2. /\ length \in [Chats -> Nat] /\ counted \in [Chats -> Nat] /\ marks \in Seq(MarkRecords)
      /\ MaxLength \in Nat
  BY <1>1, TurnMarksAssumption DEF MarksInv, MarksTypes
<1>3. ASSUME NEW s \in Chats, GatesRefuse(s) \/ ClaimSlot(s) PROVE MarksBounds'
  BY <1>1, <1>3 DEF GatesRefuse, ClaimSlot, MarksBounds
<1>4. ASSUME NEW s \in Chats, TakeTurn(s) PROVE MarksBounds'
  <2>1. /\ length' = [length EXCEPT ![s] = length[s] + 1] /\ length[s] < MaxLength
        /\ counted' = [counted EXCEPT ![s] = length[s] + 1] /\ UNCHANGED marks
    BY <1>2, <1>4 DEF TakeTurn
  <2>2. QED BY <1>1, <1>2, <2>1 DEF MarksBounds
<1>5. ASSUME NEW s \in Chats, Compare(s) \/ ChargeAttempt(s) PROVE MarksBounds'
  <2>1. UNCHANGED <<length, counted>> /\ (SetMark(s) \/ UNCHANGED marks)
    BY <1>5 DEF Compare, ChargeAttempt
  <2>2. QED BY <1>1, <2>1, MarksAreFew DEF MarksBounds
<1>6. ASSUME NEW s \in Chats, ForgetMark(s) PROVE MarksBounds'
  <2>1. Len(Without(s)) <= Len(marks) /\ Without(s) \in Seq(MarkRecords)
    BY <1>1, WithoutIsNoLonger DEF MarksInv
  <2>2. Len(marks') <= MaxMarks BY <1>1, <1>2, <1>6, <2>1, TurnMarksAssumption DEF ForgetMark, MarksBounds
  <2>3. \A c \in Chats : length'[c] \in {0, length[c]} BY <1>2, <1>6 DEF ForgetMark
  <2>4. UNCHANGED counted BY <1>6 DEF ForgetMark
  <2>5. QED BY <1>1, <1>2, <2>2, <2>3, <2>4 DEF MarksBounds
<1>7. ASSUME NEW s \in Chats, Compress(s) PROVE MarksBounds'
  <2>1. PICK n \in 0..length[s] - 1 : length' = [length EXCEPT ![s] = n] BY <1>7 DEF Compress
  <2>2. length[s] \in Nat /\ length[s] <= MaxLength BY <1>1, <1>2 DEF MarksBounds
  <2>3. n <= MaxLength BY <1>2, <2>1, <2>2
  <2>4. UNCHANGED <<counted, marks>> BY <1>7 DEF Compress
  <2>5. QED BY <1>1, <1>2, <2>1, <2>3, <2>4 DEF MarksBounds
<1>8. CASE UNCHANGED marksVars \/ WorkerEnds
  BY <1>1, <1>8 DEF marksVars, WorkerEnds, MarksBounds
<1>9. QED BY <1>1, <1>3, <1>4, <1>5, <1>6, <1>7, <1>8 DEF MarksNext

\* The plugin remembers no more sessions than it has marks, whatever the host calls and in
\* whatever order (_set_turn_mark_locked, _AUTO_TURN_MARKS_MAX).
THEOREM MarksTypesHold == MarksSpec => []MarksTypeOK
<1>1. MarksInv /\ MarksBounds => MarksTypeOK
  <2>1. SUFFICES ASSUME MarksInv, MarksBounds PROVE MarksTypeOK OBVIOUS
  <2>2. length \in [Chats -> 0..MaxLength] /\ counted \in [Chats -> 0..MaxLength]
    BY <2>1, TurnMarksAssumption DEF MarksInv, MarksTypes, MarksBounds
  <2>3. ASSUME NEW i \in DOMAIN marks PROVE marks[i].chat \in Chats
    <3>1. marks[i] \in MarkRecords BY <2>1 DEF MarksInv, MarksTypes
    <3>2. QED BY <3>1 DEF MarkRecords
  <2>4. QED BY <2>1, <2>2, <2>3 DEF MarksInv, MarksTypes, MarksBounds, MarksTypeOK
<1>2. QED BY InitiallyMarksInv, NextKeepsMarksInv, MarksBoundsInit, MarksBoundsNext, <1>1, PTL
          DEF MarksSpec
=============================================================================
