------------------------- MODULE EditLifecycleProofs -------------------------
(***************************************************************************)
(* Proofs about EditLifecycle for any number of actors, records, skills    *)
(* and days: the forms of its variables, the daily budget, that it         *)
(* implements JournalLifecycle, that no operation is under way twice,      *)
(* that no update is lost, that what is in force is accounted for, and     *)
(* that the memory entries of others are left as they are.                 *)
(*                                                                         *)
(* The budget is not inductive by itself.  A pass looks at it when it      *)
(* takes the lock and appends its intent two steps later, so the argument  *)
(* needs that the lock has one holder meanwhile, that nobody else adds to  *)
(* the day, and that midnight only makes room: no record is dated after    *)
(* today.  The later results rest on the same fact in another form: while  *)
(* an actor is inside the mutation only outsiders move (HeldStill), so     *)
(* what its check saw of the journal is still so when it appends.          *)
(***************************************************************************)
EXTENDS EditLifecycle, FiniteSetTheorems, SequenceTheorems, TLAPS

Admitted == {"admitted", "checked"}
Mutating == {"prepared", "written"}
Reversing == {"undoing", "undone"}

\* Whoever is inside the mutation holds the lock.
HoldsLock == \A a \in Actors :
  pc[a] \in Admitted \cup Mutating \cup Reversing \cup {"choosing"} => lock = a

\* The record an actor works on is in the state that its place says.
OfWork == \A a \in Actors :
  /\ pc[a] \in Mutating => work[a] \in Entries /\ outcome[work[a]] = "prepared"
  /\ pc[a] = "choosing" => work[a] \in Entries
  /\ pc[a] \in Reversing => work[a] \in Entries /\ outcome[work[a]] = "rollback_prepared"

\* A pass that has planned has a draft.
Drafted == \A a \in Actors : pc[a] \in Admitted \cup {"planned"} => draft[a] \in Edits

\* A record that counts, or waits in the queue, has an edit; only a skill's rollback
\* waits.
Recorded == /\ \A e \in Entries : outcome[e] \in Consuming => edit[e] \in Edits
            /\ \A r \in queue : /\ outcome[r[1]] # "none"
                                /\ edit[r[1]] \in Edits
                                /\ r[2] = "undo" => edit[r[1]].kind = "skill"

\* The room a pass saw is still there.
Room == \A a \in Actors : pc[a] \in Admitted => Cardinality(Consumed(today)) < MaxPerDay

\* No record is dated after today.
NoFuture == \A e \in Entries : day[e] <= today

IInv == TypeOK /\ HoldsLock /\ OfWork /\ Drafted /\ Recorded /\ Room /\ NoFuture

-----------------------------------------------------------------------------
(* The data. *)

\* What a text of the memory store may be recorded as.
LEMMA TextsOK == ASSUME memory \in Seq(Items)
                 PROVE  Texts(memory) \in Seq(Lessons \cup UserTexts)
<1>1. Len(memory) \in Nat /\ \A i \in 1..Len(memory) : memory[i] \in Items
  OBVIOUS
<1>2. \A i \in 1..Len(memory) : memory[i].text \in Lessons \cup UserTexts
  BY <1>1 DEF Items
<1>3. Texts(memory) \in [1..Len(memory) -> Lessons \cup UserTexts]
  BY <1>2 DEF Texts
<1> QED BY <1>1, <1>3, SeqDef

\* The recovery data makes an edit an edit.
LEMMA CapturedOK == ASSUME memory \in Seq(Items), NEW x \in Edits
                    PROVE  Captured(x) \in Edits
<1>1. CASE x \in SkillEdits
  BY <1>1 DEF Captured, SkillEdits, Edits
<1>2. CASE x \in MemoryEdits
  BY <1>2, TextsOK DEF Captured, MemoryEdits, Edits
<1> QED BY <1>1, <1>2 DEF Edits

\* The model proposes edits.
LEMMA ProposalsOK == Proposals \subseteq Edits
<1>1. [kind : {"memory"}, before : {<<>>}, after : Lessons] \subseteq MemoryEdits
  <2>1. <<>> \in Seq(Lessons \cup UserTexts)
    OBVIOUS
  <2> QED BY <2>1 DEF MemoryEdits
<1> QED BY <1>1 DEF Proposals, Edits

\* An edit is of one of its two kinds.
LEMMA KindOK == ASSUME NEW x \in Edits
                PROVE  /\ x.kind = "skill" => x \in SkillEdits
                       /\ x.kind # "skill" => x \in MemoryEdits
                       /\ x.kind = "memory" => x \in MemoryEdits
  BY DEF Edits, SkillEdits, MemoryEdits

\* Taking an entry out of the store leaves a store.
LEMMA RemoveOK == ASSUME NEW S, NEW m \in Seq(S), NEW i \in 1..Len(m)
                  PROVE  RemoveAt(m, i) \in Seq(S)
  BY DEF RemoveAt

StoreOK == /\ skills \in [Skills -> [text : SkillTexts \cup UserTexts \cup {Absent},
                                     by : Entries \cup {User}]]
           /\ memory \in Seq(Items)

\* The host's write of an edit, its removal and its restoration leave the stores well
\* formed.
LEMMA WriteOK == ASSUME StoreOK, NEW e \in Entries, edit[e] \in Edits, WriteTo(e)
                 PROVE  StoreOK'
<1> DEFINE x == edit[e]
<1>1. CASE x.kind = "skill"
  <2>1. x \in SkillEdits
    BY <1>1, KindOK
  <2>2. /\ memory' = memory
        /\ skills' = [skills EXCEPT ![x.target] = [text |-> x.after, by |-> e]]
    BY <1>1 DEF WriteTo
  <2> QED BY <2>1, <2>2 DEF StoreOK, SkillEdits
<1>2. CASE x.kind # "skill"
  <2>1. x \in MemoryEdits
    BY <1>2, KindOK
  <2>2. /\ skills' = skills
        /\ memory' = Append(memory, [text |-> x.after, by |-> e])
    BY <1>2 DEF WriteTo
  <2>3. [text |-> x.after, by |-> e] \in Items
    BY <2>1 DEF MemoryEdits, Items
  <2>4. memory' \in Seq(Items)
    <3> HIDE DEF x
    <3> QED BY <2>2, <2>3 DEF StoreOK
  <2> QED BY <2>2, <2>4 DEF StoreOK
<1> QED BY <1>1, <1>2

LEMMA RestoreOK == ASSUME StoreOK, NEW x \in Edits, x.kind = "skill", Restore(x)
                   PROVE  StoreOK'
<1>1. x \in SkillEdits
  BY KindOK
<1> QED BY <1>1 DEF StoreOK, Restore, SkillEdits

LEMMA RemoveOwnOK == ASSUME StoreOK, NEW x \in Edits, x.kind = "memory", RemoveOwn(x)
                     PROVE  StoreOK'
<1>1. PICK i \in Positions(x) : memory' = RemoveAt(memory, i)
  BY DEF RemoveOwn
<1>2. x.before \in Seq(Lessons \cup UserTexts)
  BY KindOK DEF MemoryEdits
<1>3. i \in 1..Len(memory)
  <2>1. Len(x.before) \in Nat /\ Len(memory) \in Nat
    BY <1>2 DEF StoreOK
  <2> QED BY <1>1, <2>1 DEF Positions
<1>4. memory' \in Seq(Items)
  BY <1>1, <1>3, RemoveOK DEF StoreOK
<1> QED BY <1>4 DEF RemoveOwn, StoreOK

-----------------------------------------------------------------------------
(* Types. *)

\* The parts of a step that several actions share.
LEMMA DoneOK == ASSUME ActorsOK, NEW a \in Actors, Done(a)
                PROVE  ActorsOK'
  BY DEF ActorsOK, Done, Locations

LEMMA ReconcileOK == ASSUME JournalOK, Reconcile, today' = today
                     PROVE  JournalOK'
<1>1. \A e \in Entries : Reconciled(e) \in Outcomes
  BY DEF Reconciled, JournalOK, Outcomes
<1>2. PICK known \in SUBSET Entries :
        outcome' = [e \in Entries |-> IF e \in known THEN Reconciled(e) ELSE outcome[e]]
  BY DEF Reconcile
<1>3. outcome' \in [Entries -> Outcomes]
  BY <1>1, <1>2 DEF JournalOK
<1> QED BY <1>3 DEF JournalOK, Reconcile

LEMMA FinalizeOK == ASSUME JournalOK, NEW e \in Entries, NEW o \in Outcomes,
                           Finalize(e, o), UNCHANGED <<edit, day, today>>
                    PROVE  JournalOK'
  BY DEF JournalOK, Finalize

LEMMA VerdictOK == ASSUME NEW a \in Actors, NEW known
                   PROVE  Verdict(a, known) \in {"pending_approval", "prepared",
                                                 "applied", "error"}
  BY DEF Verdict

LEMMA UndoVerdictOK == ASSUME NEW a \in Actors, NEW known
                       PROVE  UndoVerdict(a, known) \in {"pending_rollback", "rollback_prepared",
                                                         "rolled_back", "applied"}
  BY DEF UndoVerdict

LEMMA RefusalsOK ==
  ASSUME NEW x
  PROVE  CheckRefusals(x) \cup CaptureRefusals(x)
           \subseteq {"rejected", "conflict", "error", "evidence_invalidated"}
<1>1. \A w \in Windows : Objection(x, w) \in {"rejected", "conflict", "none"}
  BY DEF Objection
<1> QED BY <1>1 DEF CheckRefusals, CaptureRefusals

\* A pass's own steps keep the types.
LEMMA PassTypes ==
  ASSUME IInv, NEW a \in Actors,
         \/ StartPass(a) \/ Propose(a) \/ GiveUp(a) \/ Admit(a) \/ BudgetRefused(a)
         \/ Refuse(a) \/ Check(a) \/ Prepare(a) \/ PrepareFails(a)
  PROVE  TypeOK'
<1> USE DEF IInv, TypeOK
<1>1. CASE StartPass(a)
  <2>1. JournalOK'
    BY <1>1, ReconcileOK DEF StartPass
  <2> QED BY <1>1, <2>1 DEF StartPass, Goto, HostOK, ActorsOK, hostVars, Locations
<1>2. CASE Propose(a)
  <2>1. PICK x \in Proposals : draft' = [draft EXCEPT ![a] = x]
    BY <1>2 DEF Propose
  <2>2. x \in Edits
    BY <2>1, ProposalsOK
  <2> QED BY <1>2, <2>1, <2>2 DEF Propose, Goto, JournalOK, journalVars, HostOK, hostVars,
                                  ActorsOK, Locations
<1>3. CASE GiveUp(a) \/ BudgetRefused(a) \/ PrepareFails(a)
  <2>1. Done(a) /\ UNCHANGED <<journalVars, today, hostVars, userEdits, crashes>>
    BY <1>3 DEF GiveUp, BudgetRefused, PrepareFails
  <2>2. ActorsOK'
    BY <2>1, DoneOK
  <2> QED BY <2>1, <2>2 DEF JournalOK, HostOK, journalVars, hostVars
<1>4. CASE Admit(a)
  BY <1>4 DEF Admit, Goto, JournalOK, journalVars, HostOK, hostVars, ActorsOK, Locations
<1>5. CASE Refuse(a)
  <2>1. ActorsOK'
    BY <1>5, DoneOK DEF Refuse
  <2>2. CASE UNCHANGED journalVars
    BY <1>5, <2>1, <2>2 DEF Refuse, JournalOK, journalVars, HostOK, hostVars
  <2>3. CASE \E e \in Entries, o \in Outcomes :
               /\ outcome' = [outcome EXCEPT ![e] = o]
               /\ day' = [day EXCEPT ![e] = today]
               /\ UNCHANGED <<edit, aged>>
    <3>1. today \in Nat
      BY BudgetAssumption DEF JournalOK
    <3>2. JournalOK'
      BY <1>5, <2>3, <3>1 DEF Refuse, JournalOK
    <3> QED BY <1>5, <2>1, <3>2 DEF Refuse, HostOK, hostVars
  <2> QED BY <1>5, <2>2, <2>3, RefusalsOK DEF Refuse, Outcomes
<1>6. CASE Check(a)
  BY <1>6 DEF Check, Goto, JournalOK, journalVars, HostOK, hostVars, ActorsOK, Locations
<1>7. CASE Prepare(a)
  <2>1. PICK e \in Entries :
          /\ outcome' = [outcome EXCEPT ![e] = "prepared"]
          /\ edit' = [edit EXCEPT ![e] = Captured(draft[a])]
          /\ day' = [day EXCEPT ![e] = today]
          /\ aged' = [aged EXCEPT ![e] = FALSE]
          /\ work' = [work EXCEPT ![a] = e]
    BY <1>7 DEF Prepare
  <2>2. Captured(draft[a]) \in Edits
    BY <1>7, CapturedOK DEF Prepare, Drafted, Admitted, HostOK
  <2>3. today \in Nat
    BY BudgetAssumption DEF JournalOK
  <2>4. JournalOK'
    BY <1>7, <2>1, <2>2, <2>3 DEF Prepare, JournalOK, Outcomes
  <2> QED BY <1>7, <2>1, <2>4 DEF Prepare, Goto, HostOK, hostVars, ActorsOK, Locations
<1> QED BY <1>1, <1>2, <1>3, <1>4, <1>5, <1>6, <1>7

\* So do the steps that reach the host and come back from it.
LEMMA MutationTypes ==
  ASSUME IInv, NEW a \in Actors, HostWrite(a) \/ FinishEdit(a)
  PROVE  TypeOK'
<1> USE DEF IInv, TypeOK
<1>1. CASE HostWrite(a)
  <2>1. work[a] \in Entries /\ outcome[work[a]] = "prepared"
    BY <1>1 DEF HostWrite, OfWork, Mutating
  <2>2. edit[work[a]] \in Edits
    BY <2>1 DEF Recorded, Consuming
  <2>3. HostOK'
    <3>1. CASE WriteTo(work[a]) /\ UNCHANGED queue
      BY <2>1, <2>2, <3>1, WriteOK DEF HostOK, StoreOK
    <3>2. CASE queue' = queue \cup {<<work[a], "write">>} /\ UNCHANGED <<skills, memory>>
      BY <2>1, <3>2 DEF HostOK
    <3>3. CASE UNCHANGED hostVars
      BY <3>3 DEF HostOK, hostVars
    <3> QED BY <1>1, <3>1, <3>2, <3>3 DEF HostWrite
  <2>4. ActorsOK'
    BY <1>1 DEF HostWrite, ActorsOK, Goto, Locations
  <2> QED BY <1>1, <2>3, <2>4 DEF HostWrite, JournalOK, journalVars
<1>2. CASE FinishEdit(a)
  <2>1. work[a] \in Entries
    BY <1>2 DEF FinishEdit, OfWork, Mutating
  <2>2. PICK known \in Reads :
          /\ IF Verdict(a, known) = "prepared" THEN UNCHANGED <<outcome, aged>>
                                               ELSE Finalize(work[a], Verdict(a, known))
          /\ \/ Done(a)
             \/ /\ Goto(a, "planning")
                /\ work' = [work EXCEPT ![a] = NoEntry]
                /\ draft' = [draft EXCEPT ![a] = NoEdit]
                /\ answer' = [answer EXCEPT ![a] = "none"]
                /\ lock' = NoActor
    BY <1>2 DEF FinishEdit
  <2>3. Verdict(a, known) \in Outcomes
    BY VerdictOK DEF Outcomes
  <2>4. JournalOK'
    <3>1. CASE UNCHANGED <<outcome, aged>>
      BY <1>2, <3>1 DEF FinishEdit, JournalOK
    <3>2. CASE Finalize(work[a], Verdict(a, known))
      BY <1>2, <2>1, <2>3, <3>2, FinalizeOK DEF FinishEdit
    <3> QED BY <2>2, <3>1, <3>2
  <2>5. ActorsOK'
    BY <2>2, DoneOK DEF Goto, ActorsOK, Locations
  <2> QED BY <1>2, <2>4, <2>5 DEF FinishEdit, HostOK, hostVars
<1> QED BY <1>1, <1>2

LEMMA RollbackTypes ==
  ASSUME IInv, NEW a \in Actors,
         \/ Intend(a) \/ RollbackRefused(a) \/ HostUndo(a) \/ FinishRollback(a)
         \/ \E e \in Entries : StartRollback(a, e)
  PROVE  TypeOK'
<1> USE DEF IInv, TypeOK
<1>1. CASE \E e \in Entries : StartRollback(a, e)
  <2>1. JournalOK'
    BY <1>1, ReconcileOK DEF StartRollback
  <2> QED BY <1>1, <2>1 DEF StartRollback, Goto, HostOK, ActorsOK, hostVars, Locations
<1>2. CASE Intend(a)
  <2>1. work[a] \in Entries
    BY <1>2 DEF Intend, OfWork
  <2> QED BY <1>2, <2>1 DEF Intend, Goto, JournalOK, Outcomes, HostOK, hostVars, ActorsOK,
                            Locations
<1>3. CASE RollbackRefused(a)
  <2>1. ActorsOK'
    BY <1>3, DoneOK DEF RollbackRefused
  <2> QED BY <1>3, <2>1 DEF RollbackRefused, JournalOK, HostOK, journalVars, hostVars
<1>4. CASE HostUndo(a)
  <2>1. work[a] \in Entries /\ outcome[work[a]] = "rollback_prepared"
    BY <1>4 DEF HostUndo, OfWork, Reversing
  <2>2. edit[work[a]] \in Edits
    BY <2>1 DEF Recorded, Consuming
  <2>3. HostOK'
    <3>1. CASE edit[work[a]].kind = "memory" /\ RemoveOwn(edit[work[a]]) /\ UNCHANGED queue
      BY <2>2, <3>1, RemoveOwnOK DEF HostOK, StoreOK
    <3>2. CASE edit[work[a]].kind # "memory" /\ Restore(edit[work[a]]) /\ UNCHANGED queue
      <4>1. edit[work[a]].kind = "skill"
        BY <2>2, <3>2 DEF Edits, SkillEdits, MemoryEdits
      <4> QED BY <2>2, <3>2, <4>1, RestoreOK DEF HostOK, StoreOK
    <3>3. CASE queue' = queue \cup {<<work[a], "undo">>} /\ UNCHANGED <<skills, memory>>
      BY <2>1, <3>3 DEF HostOK
    <3>4. CASE UNCHANGED hostVars
      BY <3>4 DEF HostOK, hostVars
    <3> QED BY <1>4, <3>1, <3>2, <3>3, <3>4 DEF HostUndo
  <2>4. ActorsOK'
    BY <1>4 DEF HostUndo, ActorsOK, Goto, Locations
  <2> QED BY <1>4, <2>3, <2>4 DEF HostUndo, JournalOK, journalVars
<1>5. CASE FinishRollback(a)
  <2>1. work[a] \in Entries
    BY <1>5 DEF FinishRollback, OfWork, Reversing
  <2>2. PICK known \in Reads :
          IF UndoVerdict(a, known) = "rollback_prepared"
          THEN UNCHANGED <<outcome, aged>>
          ELSE Finalize(work[a], UndoVerdict(a, known))
    BY <1>5 DEF FinishRollback
  <2>3. UndoVerdict(a, known) \in Outcomes
    BY UndoVerdictOK DEF Outcomes
  <2>4. JournalOK'
    <3>1. CASE UNCHANGED <<outcome, aged>>
      BY <1>5, <3>1 DEF FinishRollback, JournalOK
    <3>2. CASE Finalize(work[a], UndoVerdict(a, known))
      BY <1>5, <2>1, <2>3, <3>2, FinalizeOK DEF FinishRollback
    <3> QED BY <2>2, <3>1, <3>2
  <2>5. ActorsOK'
    BY <1>5, DoneOK DEF FinishRollback
  <2> QED BY <1>5, <2>4, <2>5 DEF FinishRollback, HostOK, hostVars
<1> QED BY <1>1, <1>2, <1>3, <1>4, <1>5

\* And what happens around the passes.
LEMMA OutsideTypes ==
  ASSUME IInv,
         \/ \E a \in Actors : Crash(a)
         \/ \E r \in queue : Approve(r) \/ Deny(r)
         \/ \E s \in Skills : UserEditsSkill(s)
         \/ UserEditsMemory
         \/ \E e \in Entries : Age(e)
         \/ Midnight
         \/ UNCHANGED vars
  PROVE  TypeOK'
<1> USE DEF IInv, TypeOK
<1>1. ASSUME NEW a \in Actors, Crash(a) PROVE TypeOK'
  <2>1. ActorsOK'
    BY <1>1, DoneOK DEF Crash
  <2>2. crashes' \in 0..MaxCrashes
    BY <1>1, SwitchAssumption DEF Crash
  <2> QED BY <1>1, <2>1, <2>2 DEF Crash, JournalOK, HostOK, journalVars, hostVars
<1>2. ASSUME NEW r \in queue, Approve(r) PROVE TypeOK'
  <2>1. r[1] \in Entries /\ edit[r[1]] \in Edits
    BY DEF HostOK, Recorded
  <2>2. StoreOK'
    <3>1. CASE WriteTo(r[1])
      BY <2>1, <3>1, WriteOK DEF HostOK, StoreOK
    <3>2. CASE r[2] # "write" /\ Restore(edit[r[1]])
      <4>1. edit[r[1]].kind = "skill"
        BY <3>2 DEF HostOK, Recorded
      <4> QED BY <2>1, <3>2, <4>1, RestoreOK DEF HostOK, StoreOK
    <3>3. CASE UNCHANGED <<skills, memory>>
      BY <3>3 DEF HostOK, StoreOK
    <3> QED BY <1>2, <3>1, <3>2, <3>3 DEF Approve
  <2>3. HostOK'
    BY <1>2, <2>2 DEF Approve, HostOK, StoreOK
  <2> QED BY <1>2, <2>3 DEF Approve, JournalOK, ActorsOK, journalVars, actorVars
<1>3. ASSUME NEW r \in queue, Deny(r) PROVE TypeOK'
  BY <1>3 DEF Deny, JournalOK, HostOK, ActorsOK, journalVars, actorVars
<1>4. ASSUME NEW s \in Skills, UserEditsSkill(s) PROVE TypeOK'
  <2>1. HostOK'
    BY <1>4 DEF UserEditsSkill, HostOK
  <2>2. userEdits' \in 0..MaxUserEdits
    BY <1>4, SwitchAssumption DEF UserEditsSkill
  <2> QED BY <1>4, <2>1, <2>2 DEF UserEditsSkill, JournalOK, ActorsOK, journalVars, actorVars
<1>5. CASE UserEditsMemory
  <2>1. userEdits' \in 0..MaxUserEdits
    BY <1>5, SwitchAssumption DEF UserEditsMemory
  <2>2. \A t \in UserTexts : [text |-> t, by |-> User] \in Items
    BY DEF Items
  <2>3. memory' \in Seq(Items)
    <3>1. CASE \E t \in UserTexts : memory' = Append(memory, [text |-> t, by |-> User])
      BY <2>2, <3>1 DEF HostOK
    <3>2. CASE \E i \in 1..Len(memory), t \in UserTexts :
                 memory' = [memory EXCEPT ![i] = [text |-> t, by |-> User]]
      BY <2>2, <3>2 DEF HostOK
    <3>3. CASE \E i \in 1..Len(memory) : memory' = RemoveAt(memory, i)
      BY <3>3, RemoveOK DEF HostOK
    <3> QED BY <1>5, <3>1, <3>2, <3>3 DEF UserEditsMemory
  <2> QED BY <1>5, <2>1, <2>3 DEF UserEditsMemory, JournalOK, HostOK, ActorsOK, journalVars,
                                  actorVars
<1>6. ASSUME NEW e \in Entries, Age(e) PROVE TypeOK'
  BY <1>6 DEF Age, JournalOK, HostOK, ActorsOK, hostVars, actorVars
<1>7. CASE Midnight
  BY <1>7 DEF Midnight, JournalOK, HostOK, ActorsOK, journalVars, hostVars, actorVars
<1>8. CASE UNCHANGED vars
  BY <1>8 DEF vars, JournalOK, HostOK, ActorsOK, journalVars, hostVars, actorVars
<1> QED BY <1>1, <1>2, <1>3, <1>4, <1>5, <1>6, <1>7, <1>8

LEMMA TypesStep ==
  ASSUME IInv, [Next]_vars
  PROVE  TypeOK'
  BY PassTypes, MutationTypes, RollbackTypes, OutsideTypes DEF Next, Step

-----------------------------------------------------------------------------
(* The journal: every step is one of the abstract journal's. *)

\* One declared transition, or none, of one record.
Follows(p, q) == q = p \/ q \in Lifecycle!Transitions[p]

Advances == /\ \A e \in Entries : Follows(outcome[e], outcome'[e])
            /\ UNCHANGED <<edit, day, today>>

\* The transitions the code uses are declared, and none enters the budget from outside
\* it or makes a record unwritten again.
LEMMA Transit ==
  /\ Follows("prepared", "applied") /\ Follows("prepared", "error")
  /\ Follows("prepared", "pending_approval")
  /\ Follows("pending_approval", "applied") /\ Follows("pending_approval", "rejected")
  /\ Follows("applied", "rollback_prepared")
  /\ Follows("rollback_prepared", "pending_rollback")
  /\ Follows("rollback_prepared", "rolled_back") /\ Follows("rollback_prepared", "applied")
  /\ Follows("pending_rollback", "rolled_back") /\ Follows("pending_rollback", "applied")
  BY DEF Follows, Lifecycle!Transitions, Lifecycle!Outcomes

LEMMA TransitKeeps ==
  ASSUME NEW p \in Outcomes, NEW q, Follows(p, q)
  PROVE  /\ q \in Consuming => p \in Consuming
         /\ p # "none" => q # "none"
<1>1. p \in Lifecycle!Outcomes
  BY DEF Outcomes, Lifecycle!Outcomes
<1>2. CASE q = p
  BY <1>2
<1>3. CASE q \in Lifecycle!Transitions[p]
  BY <1>1, <1>3 DEF Lifecycle!Transitions, Lifecycle!Outcomes, Consuming
<1> QED BY <1>2, <1>3 DEF Follows

LEMMA ReconcileMoves == ASSUME JournalOK, Reconcile, today' = today
                        PROVE  Advances
<1>1. \A e \in Entries : Follows(outcome[e], Reconciled(e))
  <2> SUFFICES ASSUME NEW e \in Entries
               PROVE  Follows(outcome[e], Reconciled(e))
    OBVIOUS
  <2>1. \/ Reconciled(e) = outcome[e]
        \/ outcome[e] = "prepared" /\ Reconciled(e) \in {"applied", "error"}
        \/ outcome[e] = "pending_approval" /\ Reconciled(e) \in {"applied", "rejected"}
        \/ outcome[e] = "rollback_prepared" /\ Reconciled(e) \in {"rolled_back", "applied"}
        \/ outcome[e] = "pending_rollback" /\ Reconciled(e) \in {"rolled_back", "applied"}
    BY DEF Reconciled
  <2> QED BY <2>1, Transit DEF Follows
<1>2. \A e \in Entries : Follows(outcome[e], outcome[e])
  BY DEF Follows
<1> QED BY <1>1, <1>2 DEF Reconcile, Advances

LEMMA FinalizeMoves ==
  ASSUME JournalOK, NEW e \in Entries, NEW o, Finalize(e, o), Follows(outcome[e], o),
         UNCHANGED <<edit, day, today>>
  PROVE  Advances
<1>1. \A f \in Entries : Follows(outcome[f], outcome[f])
  BY DEF Follows
<1> QED BY <1>1 DEF Finalize, Advances, JournalOK

\* A refusal: a record that never counts.
Refuses == \E e \in Entries : \E o \in {"rejected", "conflict", "error", "evidence_invalidated"} :
             /\ outcome[e] = "none"
             /\ outcome' = [outcome EXCEPT ![e] = o]
             /\ day' = [day EXCEPT ![e] = today]
             /\ UNCHANGED <<edit, today>>

\* An intent: a slot of today's budget.
Reserves == \E a \in Actors, e \in Entries :
              /\ pc[a] = "checked" /\ pc' = [pc EXCEPT ![a] = "prepared"]
              /\ outcome[e] = "none"
              /\ Cardinality(Consumed(today)) < MaxPerDay
              /\ outcome' = [outcome EXCEPT ![e] = "prepared"]
              /\ day' = [day EXCEPT ![e] = today]
              /\ edit'[e] \in Edits
              /\ \A f \in Entries \ {e} : edit'[f] = edit[f]
              /\ today' = today

Turns == /\ today' \in Days /\ today < today'
         /\ UNCHANGED <<outcome, edit, day>>

Frozen == UNCHANGED <<outcome, edit, day, today>>

LEMMA JournalMoves ==
  ASSUME IInv, [Next]_vars
  PROVE  Advances \/ Refuses \/ Reserves \/ Turns
<1> USE DEF IInv, TypeOK
<1>0. Frozen => Advances
  BY DEF Frozen, Advances, Follows
<1>1. ASSUME NEW a \in Actors, StartPass(a) \/ \E e \in Entries : StartRollback(a, e)
      PROVE  Advances
  BY <1>1, ReconcileMoves DEF StartPass, StartRollback
<1>2. ASSUME NEW a \in Actors, Propose(a) \/ GiveUp(a) \/ Admit(a) \/ BudgetRefused(a)
                                \/ Check(a) \/ PrepareFails(a) \/ HostWrite(a)
                                \/ RollbackRefused(a) \/ HostUndo(a) \/ Crash(a)
      PROVE  Frozen
  BY <1>2 DEF Frozen, Propose, GiveUp, Admit, BudgetRefused, Check, PrepareFails, HostWrite,
              RollbackRefused, HostUndo, Crash, journalVars
<1>3. ASSUME NEW a \in Actors, Refuse(a)
      PROVE  Refuses \/ Frozen
  BY <1>3, RefusalsOK DEF Refuse, Refuses, Frozen, journalVars
<1>4. ASSUME NEW a \in Actors, Prepare(a)
      PROVE  Reserves
  <2>1. Captured(draft[a]) \in Edits
    BY <1>4, CapturedOK DEF Prepare, Drafted, Admitted, HostOK
  <2>2. Cardinality(Consumed(today)) < MaxPerDay
    BY <1>4 DEF Prepare, Room, Admitted
  <2>3. PICK e \in Entries : /\ outcome[e] = "none"
                             /\ outcome' = [outcome EXCEPT ![e] = "prepared"]
                             /\ day' = [day EXCEPT ![e] = today]
                             /\ edit' = [edit EXCEPT ![e] = Captured(draft[a])]
    BY <1>4 DEF Prepare
  <2>4. edit'[e] \in Edits /\ \A f \in Entries \ {e} : edit'[f] = edit[f]
    BY <2>1, <2>3 DEF JournalOK
  <2>5. pc[a] = "checked" /\ pc' = [pc EXCEPT ![a] = "prepared"] /\ today' = today
    BY <1>4 DEF Prepare, Goto
  <2> QED BY <2>2, <2>3, <2>4, <2>5 DEF Reserves
<1>5. ASSUME NEW a \in Actors, FinishEdit(a)
      PROVE  Advances
  <2>1. work[a] \in Entries /\ outcome[work[a]] = "prepared"
    BY <1>5 DEF FinishEdit, OfWork, Mutating
  <2>2. PICK known \in Reads :
          IF Verdict(a, known) = "prepared" THEN UNCHANGED <<outcome, aged>>
                                            ELSE Finalize(work[a], Verdict(a, known))
    BY <1>5 DEF FinishEdit
  <2>3. Follows("prepared", Verdict(a, known))
    BY VerdictOK, Transit DEF Follows
  <2> QED BY <1>0, <1>5, <2>1, <2>2, <2>3, FinalizeMoves DEF FinishEdit, Frozen
<1>6. ASSUME NEW a \in Actors, Intend(a)
      PROVE  Advances
  <2>1. work[a] \in Entries
    BY <1>6 DEF Intend, OfWork
  <2>2. Finalize(work[a], "rollback_prepared")
    BY <1>6 DEF Intend, Finalize
  <2> QED BY <1>6, <2>1, <2>2, Transit, FinalizeMoves DEF Intend
<1>7. ASSUME NEW a \in Actors, FinishRollback(a)
      PROVE  Advances
  <2>1. work[a] \in Entries /\ outcome[work[a]] = "rollback_prepared"
    BY <1>7 DEF FinishRollback, OfWork, Reversing
  <2>2. PICK known \in Reads :
          IF UndoVerdict(a, known) = "rollback_prepared"
          THEN UNCHANGED <<outcome, aged>>
          ELSE Finalize(work[a], UndoVerdict(a, known))
    BY <1>7 DEF FinishRollback
  <2>3. Follows("rollback_prepared", UndoVerdict(a, known))
    BY UndoVerdictOK, Transit DEF Follows
  <2> QED BY <1>0, <1>7, <2>1, <2>2, <2>3, FinalizeMoves DEF FinishRollback, Frozen
<1>8. ASSUME \/ \E r \in queue : Approve(r) \/ Deny(r)
             \/ \E s \in Skills : UserEditsSkill(s)
             \/ UserEditsMemory
             \/ \E e \in Entries : Age(e)
             \/ UNCHANGED vars
      PROVE  Frozen
  BY <1>8 DEF Approve, Deny, UserEditsSkill, UserEditsMemory, Age, vars, journalVars, Frozen
<1>9. ASSUME Midnight
      PROVE  Turns
  BY <1>9, BudgetAssumption DEF Midnight, Turns, journalVars, JournalOK
<1> QED BY <1>0, <1>1, <1>2, <1>3, <1>4, <1>5, <1>6, <1>7, <1>8, <1>9 DEF Next, Step

-----------------------------------------------------------------------------
(* The budget. *)

\* Days are finite sets of records, and a smaller set has a smaller count.
LEMMA Counting ==
  ASSUME NEW S \in SUBSET Entries, NEW T \in SUBSET S
  PROVE  Cardinality(T) \in Nat /\ Cardinality(S) \in Nat
           /\ Cardinality(T) <= Cardinality(S)
  BY BudgetAssumption, FS_Subset, FS_CardinalityType

LEMMA ConsumedShrinks ==
  ASSUME TypeOK, Advances \/ Refuses, NEW d
  PROVE  Consumed(d)' \subseteq Consumed(d)
<1>1. CASE Advances
  BY <1>1, TransitKeeps DEF Advances, Consumed, TypeOK, JournalOK
<1>2. CASE Refuses
  BY <1>2 DEF Refuses, Consumed, Consuming, TypeOK, JournalOK
<1> QED BY <1>1, <1>2

\* The only way into the mutation is past the second look at the budget.
LEMMA Entering ==
  ASSUME TypeOK, [Next]_vars, NEW b \in Actors, pc[b] \notin Admitted, pc'[b] \in Admitted
  PROVE  Admit(b)
<1> USE DEF TypeOK, ActorsOK
<1>1. ASSUME NEW a \in Actors, NEW l \in Locations \ Admitted, Goto(a, l)
      PROVE  FALSE
  BY <1>1 DEF Goto
<1>2. ASSUME NEW a \in Actors, Done(a)
      PROVE  FALSE
  BY <1>2 DEF Done, Admitted
<1>3. ASSUME pc' = pc
      PROVE  FALSE
  BY <1>3
<1>4. ASSUME NEW a \in Actors, StartPass(a) \/ Propose(a) \/ GiveUp(a) \/ BudgetRefused(a)
                                \/ Refuse(a) \/ Prepare(a) \/ PrepareFails(a) \/ Crash(a)
      PROVE  FALSE
  BY <1>1, <1>2, <1>4 DEF StartPass, Propose, GiveUp, BudgetRefused, Refuse, Prepare,
                          PrepareFails, Crash, Locations, Admitted
<1>5. ASSUME NEW a \in Actors, \/ HostWrite(a) \/ FinishEdit(a) \/ Intend(a)
                                \/ RollbackRefused(a) \/ HostUndo(a) \/ FinishRollback(a)
                                \/ \E e \in Entries : StartRollback(a, e)
      PROVE  FALSE
  BY <1>1, <1>2, <1>5 DEF HostWrite, FinishEdit, Intend, RollbackRefused, HostUndo,
                          FinishRollback, StartRollback, Locations, Admitted
<1>6. ASSUME NEW a \in Actors, Check(a)
      PROVE  FALSE
  BY <1>6 DEF Check, Goto, Admitted
<1>7. ASSUME NEW a \in Actors, Admit(a)
      PROVE  Admit(b)
  BY <1>7 DEF Admit, Goto
<1>8. ASSUME \/ \E r \in queue : Approve(r) \/ Deny(r)
             \/ \E s \in Skills : UserEditsSkill(s)
             \/ UserEditsMemory
             \/ \E e \in Entries : Age(e)
             \/ Midnight
             \/ UNCHANGED vars
      PROVE  FALSE
  BY <1>3, <1>8 DEF Approve, Deny, UserEditsSkill, UserEditsMemory, Age, Midnight, vars,
                    actorVars
<1> QED BY <1>4, <1>5, <1>6, <1>7, <1>8 DEF Next, Step

\* The room a pass saw stays while it holds the lock.
LEMMA RoomStep ==
  ASSUME IInv, [Next]_vars
  PROVE  Room'
<1> USE DEF IInv
<1> SUFFICES ASSUME NEW b \in Actors, pc'[b] \in Admitted
             PROVE  Cardinality(Consumed(today)') < MaxPerDay
  BY DEF Room
<1>1. CASE pc[b] \in Admitted
  <2>0. Cardinality(Consumed(today)) < MaxPerDay
    BY <1>1 DEF Room
  <2>1. CASE Advances \/ Refuses
    <3>1. today' = today
      BY <2>1 DEF Advances, Refuses
    <3>2. Consumed(today)' \subseteq Consumed(today)
      BY <2>1, <3>1, ConsumedShrinks
    <3>3. Consumed(today) \subseteq Entries
      BY DEF Consumed
    <3> QED BY <2>0, <3>2, <3>3, Counting, BudgetAssumption
  <2>2. CASE Reserves
    <3>1. PICK a \in Actors : pc[a] = "checked" /\ pc' = [pc EXCEPT ![a] = "prepared"]
      BY <2>2 DEF Reserves
    <3>2. a = b
      BY <1>1, <3>1 DEF HoldsLock, Admitted
    <3> QED BY <3>1, <3>2 DEF TypeOK, ActorsOK, Admitted
  <2>3. CASE Turns
    <3>1. Consumed(today)' = {}
      BY <2>3, BudgetAssumption DEF Turns, Consumed, NoFuture, TypeOK, JournalOK
    <3>2. Cardinality(Consumed(today)) \in Nat
      BY Counting DEF Consumed
    <3> QED BY <2>0, <3>1, <3>2, FS_EmptySet, BudgetAssumption
  <2> QED BY <2>1, <2>2, <2>3, JournalMoves
<1>2. CASE pc[b] \notin Admitted
  <2>1. Admit(b)
    BY <1>2, Entering
  <2> QED BY <2>1 DEF Admit, BudgetLeft, Consumed, journalVars
<1> QED BY <1>1, <1>2

\* No record is ever dated after today.
LEMMA NoFutureStep ==
  ASSUME IInv, [Next]_vars
  PROVE  NoFuture'
<1> USE BudgetAssumption DEF IInv, TypeOK, JournalOK, NoFuture
<1>1. CASE Advances
  BY <1>1 DEF Advances
<1>2. CASE Refuses
  BY <1>2 DEF Refuses
<1>3. CASE Reserves
  BY <1>3 DEF Reserves
<1>4. CASE Turns
  BY <1>4 DEF Turns
<1> QED BY <1>1, <1>2, <1>3, <1>4, JournalMoves

\* Both modules count alike.
LEMMA SameCount == ASSUME NEW S
                   PROVE  Lifecycle!Cardinality(S) = Cardinality(S)
  BY DEF Lifecycle!Cardinality, Cardinality

\* The abstract journal.
LEMMA LifecycleStep ==
  ASSUME IInv, [Next]_vars
  PROVE  [Lifecycle!Next]_<<outcome, day, today>>
<1> USE DEF IInv, TypeOK
<1>1. CASE Advances
  <2>1. outcome' \in [Entries -> Lifecycle!Outcomes]
    BY TypesStep DEF JournalOK, Outcomes, Lifecycle!Outcomes
  <2>2. Lifecycle!Advance
    BY <1>1, <2>1 DEF Advances, Follows, Lifecycle!Advance
  <2> QED BY <2>2 DEF Lifecycle!Next
<1>2. CASE Refuses
  <2>1. \E e \in Entries : Lifecycle!Refuse(e)
    BY <1>2 DEF Refuses, Lifecycle!Refuse, Lifecycle!Refusals
  <2> QED BY <2>1 DEF Lifecycle!Next
<1>3. CASE Reserves
  <2>1. Lifecycle!Consumed(today) = Consumed(today)
    BY DEF Lifecycle!Consumed, Consumed, Lifecycle!Consuming, Consuming
  <2>2. PICK e \in Entries :
          /\ outcome[e] = "none" /\ Cardinality(Consumed(today)) < MaxPerDay
          /\ outcome' = [outcome EXCEPT ![e] = "prepared"]
          /\ day' = [day EXCEPT ![e] = today]
          /\ today' = today
    BY <1>3 DEF Reserves
  <2>3. Lifecycle!Reserve(e)
    BY <2>1, <2>2, SameCount DEF Lifecycle!Reserve
  <2> QED BY <2>3 DEF Lifecycle!Next
<1>4. CASE Turns
  <2>1. Lifecycle!Turn
    BY <1>4 DEF Turns, Lifecycle!Turn
  <2> QED BY <2>1 DEF Lifecycle!Next
<1> QED BY <1>1, <1>2, <1>3, <1>4, JournalMoves

\* The daily budget holds after a step of the abstract journal.
LEMMA BudgetStep ==
  ASSUME IInv, WithinBudget, [Next]_vars
  PROVE  WithinBudget'
<1> USE DEF IInv
<1> SUFFICES ASSUME NEW d \in Days
             PROVE  Cardinality(Consumed(d)') <= MaxPerDay
  BY DEF WithinBudget
<1>0. Cardinality(Consumed(d)) <= MaxPerDay /\ Consumed(d) \subseteq Entries
  BY DEF WithinBudget, Consumed
<1>1. CASE Advances \/ Refuses
  <2>1. Consumed(d)' \subseteq Consumed(d)
    BY <1>1, ConsumedShrinks
  <2> QED BY <1>0, <2>1, Counting, BudgetAssumption
<1>2. CASE Reserves
  <2>1. PICK e \in Entries :
          /\ outcome[e] = "none" /\ Cardinality(Consumed(today)) < MaxPerDay
          /\ outcome' = [outcome EXCEPT ![e] = "prepared"]
          /\ day' = [day EXCEPT ![e] = today]
    BY <1>2 DEF Reserves
  <2>2. e \notin Consumed(d)
    BY <2>1 DEF Consumed, Consuming
  <2>3. CASE d = today
    <3>1. Consumed(d)' = Consumed(d) \cup {e}
      BY <2>1, <2>3 DEF Consumed, Consuming, TypeOK, JournalOK
    <3>2. IsFiniteSet(Consumed(d))
      BY <1>0, BudgetAssumption, FS_Subset
    <3>3. Cardinality(Consumed(d) \cup {e}) = Cardinality(Consumed(d)) + 1
      BY <2>2, <3>2, FS_AddElement
    <3> QED BY <1>0, <2>1, <2>3, <3>1, <3>3, Counting, BudgetAssumption
  <2>4. CASE d # today
    <3>1. Consumed(d)' = Consumed(d)
      BY <2>1, <2>4 DEF Consumed, Consuming, TypeOK, JournalOK
    <3> QED BY <1>0, <3>1
  <2> QED BY <2>3, <2>4
<1>3. CASE Turns
  <2>1. Consumed(d)' = Consumed(d)
    BY <1>3 DEF Turns, Consumed
  <2> QED BY <1>0, <2>1
<1> QED BY <1>1, <1>2, <1>3, JournalMoves

-----------------------------------------------------------------------------
(* Who does what, and with which record. *)

\* An actor's step to a place l: nobody else moves.
LEMMA HoldsLockStep ==
  ASSUME IInv, [Next]_vars
  PROVE  HoldsLock'
<1> USE NameAssumption DEF IInv, TypeOK, ActorsOK
<1> DEFINE Inside == Admitted \cup Mutating \cup Reversing \cup {"choosing"}
<1>0. Inside = {"admitted", "checked", "prepared", "written", "undoing", "undone", "choosing"}
  BY DEF Admitted, Mutating, Reversing
<1>1. ASSUME NEW a \in Actors, Done(a)
      PROVE  HoldsLock'
  BY <1>0, <1>1 DEF Done, HoldsLock
<1>2. ASSUME NEW a \in Actors, NEW l \in Inside, Goto(a, l), lock' = lock, pc[a] \in Inside
      PROVE  HoldsLock'
  BY <1>0, <1>2 DEF Goto, HoldsLock
<1>3. ASSUME NEW a \in Actors, NEW l \in {"planning", "planned"}, Goto(a, l),
             lock' = lock
      PROVE  HoldsLock'
  BY <1>0, <1>3 DEF Goto, HoldsLock
<1>4. ASSUME NEW a \in Actors, NEW l \in Inside, Goto(a, l), lock = NoActor, lock' = a
      PROVE  HoldsLock'
  BY <1>0, <1>4 DEF Goto, HoldsLock
<1>5. ASSUME UNCHANGED <<pc, lock>>
      PROVE  HoldsLock'
  BY <1>5 DEF HoldsLock
<1>6. ASSUME NEW a \in Actors, StartPass(a) \/ Propose(a)
      PROVE  HoldsLock'
  BY <1>3, <1>6 DEF StartPass, Propose
<1>7. ASSUME NEW a \in Actors, GiveUp(a) \/ BudgetRefused(a) \/ Refuse(a) \/ PrepareFails(a)
                                \/ RollbackRefused(a) \/ FinishRollback(a) \/ Crash(a)
      PROVE  HoldsLock'
  BY <1>1, <1>7 DEF GiveUp, BudgetRefused, Refuse, PrepareFails, RollbackRefused,
                    FinishRollback, Crash
<1>8. ASSUME NEW a \in Actors, Admit(a) \/ \E e \in Entries : StartRollback(a, e)
      PROVE  HoldsLock'
  BY <1>0, <1>4, <1>8 DEF Admit, StartRollback
<1>9. ASSUME NEW a \in Actors, Check(a) \/ Prepare(a) \/ HostWrite(a) \/ Intend(a)
                                \/ HostUndo(a)
      PROVE  HoldsLock'
  BY <1>0, <1>2, <1>9 DEF Check, Prepare, HostWrite, Intend, HostUndo
<1>10. ASSUME NEW a \in Actors, FinishEdit(a)
       PROVE  HoldsLock'
  <2>1. CASE Done(a)
    BY <1>1, <2>1
  <2>2. CASE Goto(a, "planning") /\ lock' = NoActor
    <3>1. lock = a
      BY <1>0, <1>10 DEF FinishEdit, HoldsLock
    <3> QED BY <1>0, <2>2, <3>1 DEF Goto, HoldsLock
  <2> QED BY <1>10, <2>1, <2>2 DEF FinishEdit
<1>11. ASSUME \/ \E r \in queue : Approve(r) \/ Deny(r)
              \/ \E s \in Skills : UserEditsSkill(s)
              \/ UserEditsMemory
              \/ \E e \in Entries : Age(e)
              \/ Midnight
              \/ UNCHANGED vars
       PROVE  HoldsLock'
  BY <1>5, <1>11 DEF Approve, Deny, UserEditsSkill, UserEditsMemory, Age, Midnight, vars,
                     actorVars
<1> QED BY <1>6, <1>7, <1>8, <1>9, <1>10, <1>11 DEF Next, Step

LEMMA DraftedStep ==
  ASSUME IInv, [Next]_vars
  PROVE  Drafted'
<1> USE DEF IInv, TypeOK, ActorsOK, Drafted, Admitted
<1>1. ASSUME NEW a \in Actors, Done(a)
      PROVE  Drafted'
  BY <1>1 DEF Done
<1>2. ASSUME NEW a \in Actors,
             NEW l \in {"planning", "prepared", "written", "choosing", "undoing", "undone"},
             Goto(a, l),
             \A b \in Actors \ {a} : draft'[b] = draft[b]
      PROVE  Drafted'
  BY <1>2 DEF Goto
<1>3. ASSUME NEW a \in Actors, Propose(a)
      PROVE  Drafted'
  BY <1>3, ProposalsOK DEF Propose, Goto
<1>4. ASSUME NEW a \in Actors, Admit(a) \/ Check(a)
      PROVE  Drafted'
  BY <1>4 DEF Admit, Check, Goto
<1>5. ASSUME NEW a \in Actors, GiveUp(a) \/ BudgetRefused(a) \/ Refuse(a) \/ PrepareFails(a)
                                \/ RollbackRefused(a) \/ FinishRollback(a) \/ Crash(a)
      PROVE  Drafted'
  BY <1>1, <1>5 DEF GiveUp, BudgetRefused, Refuse, PrepareFails, RollbackRefused,
                    FinishRollback, Crash
<1>6. ASSUME NEW a \in Actors, StartPass(a) \/ Prepare(a) \/ HostWrite(a) \/ Intend(a)
                                \/ HostUndo(a) \/ \E e \in Entries : StartRollback(a, e)
      PROVE  Drafted'
  BY <1>2, <1>6 DEF StartPass, Prepare, HostWrite, Intend, HostUndo, StartRollback
<1>7. ASSUME NEW a \in Actors, FinishEdit(a)
      PROVE  Drafted'
  BY <1>1, <1>2, <1>7 DEF FinishEdit
<1>8. ASSUME \/ \E r \in queue : Approve(r) \/ Deny(r)
             \/ \E s \in Skills : UserEditsSkill(s)
             \/ UserEditsMemory
             \/ \E e \in Entries : Age(e)
             \/ Midnight
             \/ UNCHANGED vars
      PROVE  Drafted'
  BY <1>8 DEF Approve, Deny, UserEditsSkill, UserEditsMemory, Age, Midnight, vars, actorVars
<1> QED BY <1>3, <1>4, <1>5, <1>6, <1>7, <1>8 DEF Next, Step

\* A step that leaves the records of others alone leaves OfWork to its own actor.
LEMMA OthersWork ==
  ASSUME IInv, NEW a \in Actors,
         \A b \in Actors \ {a} : pc'[b] = pc[b] /\ work'[b] = work[b],
         \A b \in Actors \ {a} : pc[b] \in Mutating \cup Reversing =>
            outcome'[work[b]] = outcome[work[b]],
         /\ pc'[a] \in Mutating => work'[a] \in Entries /\ outcome'[work'[a]] = "prepared"
         /\ pc'[a] = "choosing" => work'[a] \in Entries
         /\ pc'[a] \in Reversing =>
              work'[a] \in Entries /\ outcome'[work'[a]] = "rollback_prepared"
  PROVE  OfWork'
  BY DEF IInv, OfWork

LEMMA OfWorkStep ==
  ASSUME IInv, [Next]_vars
  PROVE  OfWork'
<1> USE NameAssumption DEF IInv, TypeOK, ActorsOK, Mutating, Reversing
\* While an actor is inside, nobody else is, and the lock is not free.
<1>0. ASSUME NEW a \in Actors, NEW b \in Actors \ {a}, pc[b] \in Mutating \cup Reversing
      PROVE  lock # NoActor
             /\ pc[a] \notin {"admitted", "checked", "prepared", "written", "choosing",
                              "undoing", "undone"}
  BY <1>0 DEF HoldsLock, Admitted
<1>1. ASSUME NEW a \in Actors, Done(a), UNCHANGED outcome
      PROVE  OfWork'
  BY <1>1 DEF Done, OfWork
<1>2. ASSUME NEW a \in Actors, GiveUp(a) \/ BudgetRefused(a) \/ PrepareFails(a)
                                \/ RollbackRefused(a) \/ Crash(a)
      PROVE  OfWork'
  BY <1>1, <1>2 DEF GiveUp, BudgetRefused, PrepareFails, RollbackRefused, Crash, journalVars
<1>3. ASSUME NEW a \in Actors, Propose(a) \/ Admit(a) \/ Check(a)
      PROVE  OfWork'
  BY <1>3, OthersWork DEF Propose, Admit, Check, Goto, journalVars
<1>4. ASSUME NEW a \in Actors, HostWrite(a) \/ HostUndo(a)
      PROVE  OfWork'
  BY <1>4 DEF HostWrite, HostUndo, Goto, journalVars, OfWork
<1>5. ASSUME NEW a \in Actors, StartPass(a) \/ \E e \in Entries : StartRollback(a, e)
      PROVE  OfWork'
  BY <1>0, <1>5, OthersWork DEF StartPass, StartRollback, Goto
<1>6. ASSUME NEW a \in Actors, Refuse(a) \/ FinishRollback(a)
      PROVE  OfWork'
  <2>1. Done(a)
    BY <1>6 DEF Refuse, FinishRollback
  <2>2. \A b \in Actors \ {a} : pc[b] \notin Mutating \cup Reversing
    <3>1. pc[a] \in {"admitted", "checked", "undone"}
      BY <1>6 DEF Refuse, FinishRollback
    <3> QED BY <1>0, <3>1
  <2> QED BY <2>1, <2>2, OthersWork DEF Done
<1>7. ASSUME NEW a \in Actors, Prepare(a)
      PROVE  OfWork'
  <2>1. \A b \in Actors \ {a} : pc[b] \notin Mutating \cup Reversing
    BY <1>0, <1>7 DEF Prepare
  <2>2. work'[a] \in Entries /\ outcome'[work'[a]] = "prepared" /\ pc'[a] = "prepared"
    BY <1>7 DEF Prepare, Goto, JournalOK
  <2>3. \A b \in Actors \ {a} : pc'[b] = pc[b] /\ work'[b] = work[b]
    BY <1>7 DEF Prepare, Goto
  <2> QED BY <2>1, <2>2, <2>3, OthersWork
<1>8. ASSUME NEW a \in Actors, Intend(a)
      PROVE  OfWork'
  <2>1. \A b \in Actors \ {a} : pc[b] \notin Mutating \cup Reversing
    BY <1>0, <1>8 DEF Intend
  <2>2. work'[a] \in Entries /\ outcome'[work'[a]] = "rollback_prepared" /\ pc'[a] = "undoing"
    BY <1>8 DEF Intend, Goto, JournalOK, OfWork
  <2>3. \A b \in Actors \ {a} : pc'[b] = pc[b] /\ work'[b] = work[b]
    BY <1>8 DEF Intend, Goto
  <2> QED BY <2>1, <2>2, <2>3, OthersWork
<1>9. ASSUME NEW a \in Actors, FinishEdit(a)
      PROVE  OfWork'
  <2>1. \A b \in Actors \ {a} : pc[b] \notin Mutating \cup Reversing
    BY <1>0, <1>9 DEF FinishEdit
  <2>2. pc'[a] \in {"idle", "planning"}
    BY <1>9 DEF FinishEdit, Done, Goto
  <2>3. \A b \in Actors \ {a} : pc'[b] = pc[b] /\ work'[b] = work[b]
    BY <1>9 DEF FinishEdit, Done, Goto
  <2> QED BY <2>1, <2>2, <2>3, OthersWork
<1>10. ASSUME \/ \E r \in queue : Approve(r) \/ Deny(r)
              \/ \E s \in Skills : UserEditsSkill(s)
              \/ UserEditsMemory
              \/ \E e \in Entries : Age(e)
              \/ Midnight
              \/ UNCHANGED vars
       PROVE  OfWork'
  BY <1>10 DEF Approve, Deny, UserEditsSkill, UserEditsMemory, Age, Midnight, vars,
               actorVars, journalVars, OfWork
<1> QED BY <1>2, <1>3, <1>4, <1>5, <1>6, <1>7, <1>8, <1>9, <1>10 DEF Next, Step

\* What a step may put into the queue: the request of an actor that waits for the host.
LEMMA QueueGrows ==
  ASSUME IInv, [Next]_vars
  PROVE  \A r \in queue' \ queue :
           /\ r[1] \in Entries /\ outcome[r[1]] \in {"prepared", "rollback_prepared"}
           /\ r[2] = "undo" => edit[r[1]].kind = "skill"
           /\ UNCHANGED <<outcome, edit>>
<1> USE DEF IInv, OfWork, Mutating, Reversing
<1>1. ASSUME NEW a \in Actors, HostWrite(a)
      PROVE  \/ queue' = queue
             \/ queue' = queue \cup {<<work[a], "write">>}
                 /\ work[a] \in Entries /\ outcome[work[a]] = "prepared"
                 /\ UNCHANGED <<outcome, edit>>
  BY <1>1 DEF HostWrite, hostVars, journalVars
<1>2. ASSUME NEW a \in Actors, HostUndo(a)
      PROVE  \/ queue' = queue
             \/ queue' = queue \cup {<<work[a], "undo">>}
                 /\ work[a] \in Entries /\ outcome[work[a]] = "rollback_prepared"
                 /\ edit[work[a]].kind = "skill"
                 /\ UNCHANGED <<outcome, edit>>
  BY <1>2 DEF HostUndo, hostVars, journalVars
<1>3. ASSUME NEW a \in Actors, StartPass(a) \/ Propose(a) \/ GiveUp(a) \/ Admit(a)
                                \/ BudgetRefused(a) \/ Refuse(a) \/ Check(a) \/ Prepare(a)
                                \/ PrepareFails(a)
      PROVE  queue' \subseteq queue
  BY <1>3 DEF StartPass, Propose, GiveUp, Admit, BudgetRefused, Refuse, Check, Prepare,
              PrepareFails, hostVars
<1>4. ASSUME NEW a \in Actors, FinishEdit(a) \/ Intend(a) \/ RollbackRefused(a)
                                \/ FinishRollback(a) \/ Crash(a)
                                \/ \E e \in Entries : StartRollback(a, e)
      PROVE  queue' \subseteq queue
  BY <1>4 DEF FinishEdit, Intend, RollbackRefused, FinishRollback, Crash, StartRollback,
              hostVars
<1>5. ASSUME \/ \E r \in queue : Approve(r) \/ Deny(r)
             \/ \E s \in Skills : UserEditsSkill(s)
             \/ UserEditsMemory
             \/ \E e \in Entries : Age(e)
             \/ Midnight
             \/ UNCHANGED vars
      PROVE  queue' \subseteq queue
  BY <1>5 DEF Approve, Deny, UserEditsSkill, UserEditsMemory, Age, Midnight, vars, hostVars
<1> QED BY <1>1, <1>2, <1>3, <1>4, <1>5 DEF Next, Step

LEMMA RecordedStep ==
  ASSUME IInv, [Next]_vars
  PROVE  Recorded'
<1> USE DEF IInv, TypeOK, Recorded
\* A written record stays written, and keeps its edit.
<1>1. \A e \in Entries : outcome[e] # "none" => outcome'[e] # "none" /\ edit'[e] = edit[e]
  <2>1. CASE Advances
    BY <2>1, TransitKeeps DEF Advances, JournalOK
  <2>2. CASE Refuses
    BY <2>2 DEF Refuses, JournalOK
  <2>3. CASE Reserves
    BY <2>3 DEF Reserves, JournalOK
  <2>4. CASE Turns
    BY <2>4 DEF Turns
  <2> QED BY <2>1, <2>2, <2>3, <2>4, JournalMoves
<1>2. \A e \in Entries : outcome'[e] \in Consuming => edit'[e] \in Edits
  <2>1. CASE Advances
    BY <2>1, TransitKeeps DEF Advances, JournalOK
  <2>2. CASE Refuses
    BY <2>2 DEF Refuses, JournalOK, Consuming
  <2>3. CASE Reserves
    BY <2>3 DEF Reserves, JournalOK
  <2>4. CASE Turns
    BY <2>4 DEF Turns
  <2> QED BY <2>1, <2>2, <2>3, <2>4, JournalMoves
<1>3. ASSUME NEW r \in queue'
      PROVE  outcome'[r[1]] # "none" /\ edit'[r[1]] \in Edits
               /\ (r[2] = "undo" => edit'[r[1]].kind = "skill")
  <2>1. CASE r \in queue
    <3>1. r[1] \in Entries
      BY <2>1 DEF HostOK
    <3> QED BY <1>1, <2>1, <3>1
  <2>2. CASE r \notin queue
    BY <2>2, QueueGrows DEF Consuming
  <2> QED BY <2>1, <2>2
<1> QED BY <1>2, <1>3

-----------------------------------------------------------------------------
LEMMA Initially == Init => IInv /\ WithinBudget /\ Lifecycle!Init
<1> SUFFICES ASSUME Init
             PROVE  IInv /\ WithinBudget /\ Lifecycle!Init
  OBVIOUS
<1>1. JournalOK
  BY DEF Init, JournalOK, Outcomes
<1>2. HostOK
  <2>1. \A t \in UserTexts : [text |-> t, by |-> User] \in Items
    BY DEF Items
  <2>2. memory \in Seq(Items)
    <3>1. CASE memory = <<>>
      BY <3>1
    <3>2. ASSUME NEW t \in UserTexts, memory = <<[text |-> t, by |-> User]>>
          PROVE  memory \in Seq(Items)
      <4> DEFINE i == [text |-> t, by |-> User]
      <4>1. i \in Items /\ memory = <<i>>
        BY <2>1, <3>2
      <4> HIDE DEF i
      <4> QED BY <4>1
    <3> QED BY <3>1, <3>2 DEF Init
  <2>3. skills \in [Skills -> [text : SkillTexts \cup UserTexts \cup {Absent},
                              by : Entries \cup {User}]]
    BY DEF Init
  <2> QED BY <2>2, <2>3 DEF Init, HostOK
<1>3. ActorsOK
  BY DEF Init, ActorsOK, Locations
<1>4. TypeOK
  BY <1>1, <1>2, <1>3, SwitchAssumption DEF Init, TypeOK
<1>5. \A a \in Actors : pc[a] = "idle"
  BY DEF Init
<1>6. HoldsLock /\ OfWork /\ Drafted /\ Room
  BY <1>5 DEF HoldsLock, OfWork, Drafted, Room, Admitted, Mutating, Reversing
<1>7. Recorded
  BY DEF Init, Recorded, Consuming
<1>8. NoFuture
  BY BudgetAssumption DEF Init, NoFuture
<1>9. WithinBudget
  <2>1. \A d : Consumed(d) = {}
    BY DEF Init, Consumed, Consuming
  <2> QED BY <2>1, FS_EmptySet, BudgetAssumption DEF WithinBudget
<1>10. Lifecycle!Init
  BY DEF Init, Lifecycle!Init
<1> QED BY <1>4, <1>6, <1>7, <1>8, <1>9, <1>10 DEF IInv

\* The strengthening is an invariant of every pass, rollback, approval, crash and
\* midnight.
THEOREM Invariance == Spec => []IInv
<1>1. Init => IInv
  BY Initially
<1>2. IInv /\ [Next]_vars => IInv'
  BY TypesStep, HoldsLockStep, OfWorkStep, DraftedStep, RecordedStep, RoomStep, NoFutureStep
     DEF IInv
<1> QED BY <1>1, <1>2, PTL DEF Spec

\* Journal, stores and actors keep the forms the code gives them.
THEOREM TypesHold == Spec => []TypeOK
<1>1. IInv => TypeOK
  BY DEF IInv
<1> QED BY <1>1, Invariance, PTL

\* The daily budget of edits holds for any number of concurrent passes, rollbacks and
\* crashes, over any days (count_today_applied, looked at again under the lock).
THEOREM BudgetHolds == Spec => []WithinBudget
<1>1. Init => WithinBudget
  BY Initially
<1>2. IInv /\ WithinBudget /\ [Next]_vars => WithinBudget'
  BY BudgetStep
<1> QED BY <1>1, <1>2, Invariance, PTL DEF Spec

\* What passes, rollbacks and reconciliations do to the records is what the journal
\* declares, and nothing else: the edit lifecycle implements the abstract journal
\* (_JOURNAL_TRANSITIONS).
THEOREM Implements == Spec => ImplementsLifecycle
<1>1. Init => Lifecycle!Init
  BY Initially
<1>2. IInv /\ [Next]_vars => [Lifecycle!Next]_<<outcome, day, today>>
  BY LifecycleStep
<1> QED BY <1>1, <1>2, Invariance, PTL DEF Spec, ImplementsLifecycle, Lifecycle!Spec

-----------------------------------------------------------------------------
(* While an actor is inside the mutation. *)

Holding == {"admitted", "checked", "prepared", "written", "choosing", "undoing", "undone"}

\* Outsiders: the user, the host at the user's word, and another session.
Outsiders == \/ \E r \in queue : Approve(r) \/ Deny(r)
             \/ \E s \in Skills : UserEditsSkill(s)
             \/ UserEditsMemory

\* Nobody but the holder of the lock changes a record, and the stores change only from
\* outside.
LEMMA HeldStill ==
  ASSUME IInv, [Next]_vars, NEW a \in Actors, pc[a] \in Holding, pc'[a] = pc[a]
  PROVE  /\ UNCHANGED <<outcome, edit, day>>
         /\ work'[a] = work[a] /\ draft'[a] = draft[a] /\ answer'[a] = answer[a]
         /\ Outsiders \/ UNCHANGED hostVars
<1> USE NameAssumption DEF IInv, TypeOK, ActorsOK
<1>1. \A b \in Actors : pc[b] \in Holding => lock = b
  BY DEF HoldsLock, Holding, Admitted, Mutating, Reversing
<1>2. lock = a /\ lock # NoActor BY <1>1
<1>3. ASSUME Done(a) PROVE FALSE BY <1>3 DEF Done, Holding
<1>4. ASSUME StartPass(a) \/ Step(a) \/ Crash(a) \/ \E e \in Entries : StartRollback(a, e)
      PROVE  FALSE
  <2>1. ASSUME GiveUp(a) \/ BudgetRefused(a) \/ Refuse(a) \/ PrepareFails(a)
                 \/ RollbackRefused(a) \/ FinishRollback(a) \/ Crash(a)
        PROVE  FALSE
    BY <1>3, <2>1 DEF GiveUp, BudgetRefused, Refuse, PrepareFails, RollbackRefused,
                      FinishRollback, Crash
  <2>2. ASSUME \/ StartPass(a) \/ Propose(a) \/ Admit(a) \/ Check(a) \/ Prepare(a)
               \/ HostWrite(a) \/ Intend(a) \/ HostUndo(a)
               \/ \E e \in Entries : StartRollback(a, e)
        PROVE  FALSE
    BY <2>2 DEF StartPass, Propose, Admit, Check, Prepare, HostWrite, Intend, HostUndo,
                StartRollback, Goto, Holding
  <2>3. ASSUME FinishEdit(a) PROVE FALSE
    BY <1>3, <2>3 DEF FinishEdit, Goto
  <2> QED BY <1>4, <2>1, <2>2, <2>3 DEF Step
<1>5. ASSUME NEW b \in Actors \ {a}, StartPass(b) \/ Admit(b) \/ BudgetRefused(b)
                                       \/ \E e \in Entries : StartRollback(b, e)
      PROVE  FALSE
  BY <1>2, <1>5 DEF StartPass, Admit, BudgetRefused, StartRollback
<1>6. ASSUME NEW b \in Actors \ {a},
             \/ Check(b) \/ Prepare(b) \/ PrepareFails(b) \/ HostWrite(b) \/ FinishEdit(b)
             \/ Intend(b) \/ RollbackRefused(b) \/ HostUndo(b) \/ FinishRollback(b)
      PROVE  FALSE
  <2>1. pc[b] \in Holding
    BY <1>6 DEF Check, Prepare, PrepareFails, HostWrite, FinishEdit, Intend,
                RollbackRefused, HostUndo, FinishRollback, Holding
  <2> QED BY <1>1, <1>2, <2>1
<1>7. ASSUME NEW b \in Actors \ {a}, Refuse(b)
      PROVE  FALSE
  <2>1. pc[b] \in {"admitted", "checked"} BY <1>7 DEF Refuse
  <2> QED BY <1>1, <1>2, <2>1 DEF Holding
<1>8. ASSUME NEW b \in Actors \ {a}, Propose(b) \/ GiveUp(b) \/ Crash(b)
      PROVE  /\ UNCHANGED <<outcome, edit, day, hostVars>>
             /\ work'[a] = work[a] /\ draft'[a] = draft[a] /\ answer'[a] = answer[a]
  BY <1>8 DEF Propose, GiveUp, Crash, Done, journalVars
<1>9. ASSUME \/ \E e \in Entries : Age(e)
             \/ Midnight
             \/ UNCHANGED vars
      PROVE  UNCHANGED <<outcome, edit, day, hostVars, work, draft, answer>>
  BY <1>9 DEF Age, Midnight, vars, journalVars, actorVars
<1>10. ASSUME Outsiders PROVE UNCHANGED <<outcome, edit, day, work, draft, answer>>
  BY <1>10 DEF Outsiders, Approve, Deny, UserEditsSkill, UserEditsMemory, journalVars,
               actorVars
<1>11. ASSUME NEW b \in Actors \ {a},
              StartPass(b) \/ Step(b) \/ Crash(b) \/ \E e \in Entries : StartRollback(b, e)
       PROVE  /\ UNCHANGED <<outcome, edit, day, hostVars>>
              /\ work'[a] = work[a] /\ draft'[a] = draft[a] /\ answer'[a] = answer[a]
  BY <1>5, <1>6, <1>7, <1>8, <1>11 DEF Step
<1> QED BY <1>4, <1>9, <1>10, <1>11 DEF Next, Outsiders

\* The only way to a check passed, and the only way to an intent recorded.
LEMMA Arriving ==
  ASSUME IInv, [Next]_vars, NEW a \in Actors, pc'[a] # pc[a]
  PROVE  /\ pc'[a] = "checked" => Check(a)
         /\ pc'[a] = "prepared" => Prepare(a)
         /\ pc'[a] = "written" => HostWrite(a)
<1> USE DEF IInv, TypeOK, ActorsOK
<1>1. ASSUME NEW b \in Actors, Done(b) PROVE pc'[a] \notin {"checked", "prepared", "written"}
  BY <1>1 DEF Done
<1>2. ASSUME NEW b \in Actors,
             GiveUp(b) \/ BudgetRefused(b) \/ Refuse(b) \/ PrepareFails(b)
               \/ RollbackRefused(b) \/ FinishRollback(b) \/ Crash(b)
      PROVE  pc'[a] \notin {"checked", "prepared", "written"}
  BY <1>1, <1>2 DEF GiveUp, BudgetRefused, Refuse, PrepareFails, RollbackRefused,
                    FinishRollback, Crash
<1>3. ASSUME NEW b \in Actors, \/ StartPass(b) \/ Propose(b) \/ Admit(b) \/ Intend(b)
                               \/ HostUndo(b) \/ \E e \in Entries : StartRollback(b, e)
      PROVE  pc'[a] \notin {"checked", "prepared", "written"}
  BY <1>3 DEF StartPass, Propose, Admit, Intend, HostUndo, StartRollback, Goto
<1>4. ASSUME NEW b \in Actors, FinishEdit(b)
      PROVE  pc'[a] \notin {"checked", "prepared", "written"}
  BY <1>1, <1>4 DEF FinishEdit, Goto
<1>5. ASSUME NEW b \in Actors, Check(b) \/ Prepare(b) \/ HostWrite(b)
      PROVE  b = a /\ pc'[a] = IF Check(b) THEN "checked" ELSE IF Prepare(b) THEN "prepared"
                               ELSE "written"
  BY <1>5 DEF Check, Prepare, HostWrite, Goto
<1>6. ASSUME \/ Outsiders
             \/ \E e \in Entries : Age(e)
             \/ Midnight
             \/ UNCHANGED vars
      PROVE  FALSE
  BY <1>6 DEF Outsiders, Approve, Deny, UserEditsSkill, UserEditsMemory, Age, Midnight, vars,
              actorVars
<1>7. ASSUME NEW b \in Actors,
             StartPass(b) \/ Step(b) \/ Crash(b) \/ \E e \in Entries : StartRollback(b, e)
      PROVE  /\ pc'[a] = "checked" => Check(a)
             /\ pc'[a] = "prepared" => Prepare(a)
             /\ pc'[a] = "written" => HostWrite(a)
  BY <1>2, <1>3, <1>4, <1>5, <1>7 DEF Step
<1> QED BY <1>6, <1>7 DEF Next, Outsiders

-----------------------------------------------------------------------------
(* No operation is under way twice within the dedup window. *)

\* Time does not go back, and a record keeps its day.
LEMMA TodayGrows ==
  ASSUME IInv, [Next]_vars
  PROVE  today \in Nat /\ today' \in Nat /\ today <= today'
<1> USE BudgetAssumption DEF IInv, TypeOK, JournalOK
<1>1. today \in Nat OBVIOUS
<1>2. CASE today' = today BY <1>1, <1>2
<1>3. CASE Turns BY <1>1, <1>3 DEF Turns
<1> QED BY <1>2, <1>3, JournalMoves DEF Advances, Refuses, Reserves

LEMMA DayIsNat == ASSUME IInv, NEW e \in Entries PROVE day[e] \in Nat
  BY BudgetAssumption DEF IInv, TypeOK, JournalOK

\* What passed the checks repeats nothing of the last DedupDays days but lessons in force.
Unrepeated == \A a \in Actors : pc[a] = "checked" =>
  \A f \in Entries :
    /\ outcome[f] \in Consuming /\ Operation(edit[f]) = Operation(draft[a])
    /\ today - day[f] < DedupDays
    => outcome[f] = "applied" /\ draft[a].kind = "memory"

LEMMA UnrepeatedStep ==
  ASSUME IInv, Unrepeated, [Next]_vars
  PROVE  Unrepeated'
<1> SUFFICES ASSUME NEW a \in Actors, pc'[a] = "checked", NEW f \in Entries,
                    outcome'[f] \in Consuming, Operation(edit'[f]) = Operation(draft'[a]),
                    today' - day'[f] < DedupDays
             PROVE  outcome'[f] = "applied" /\ draft'[a].kind = "memory"
  BY DEF Unrepeated, Operation
<1>0. /\ today \in Nat /\ today' \in Nat /\ today <= today' /\ day[f] \in Nat
      /\ DedupDays \in Nat
  BY TodayGrows, DayIsNat, BudgetAssumption
<1>1. CASE pc[a] = "checked"
  <2>1. UNCHANGED <<outcome, edit, day>> /\ draft'[a] = draft[a]
    BY <1>1, HeldStill DEF Holding
  <2>2. today - day[f] < DedupDays BY <1>0, <2>1
  <2> QED BY <1>1, <2>1, <2>2 DEF Unrepeated
<1>2. CASE pc[a] # "checked"
  <2>1. Check(a) BY <1>2, Arriving
  <2>2. UNCHANGED <<outcome, edit, day, draft, today>> BY <2>1 DEF Check, journalVars
  <2>3. PICK w \in Windows : Objection(draft[a], w) = "none" BY <2>1 DEF Check
  <2>4. ~RepeatsRecent(draft[a], w) BY <2>3 DEF Objection
  <2>5. today - day[f] <= w BY <1>0, <2>2 DEF Windows
  <2> QED BY <2>2, <2>4, <2>5 DEF RepeatsRecent
<1> QED BY <1>1, <1>2

\* The recovery data is no part of the operation.
LEMMA CapturedOperation ==
  ASSUME NEW x \in Edits
  PROVE  Operation(Captured(x)) = Operation(x) /\ Captured(x).kind = x.kind
<1>1. CASE x \in SkillEdits BY <1>1 DEF SkillEdits, Captured
<1>2. CASE x \in MemoryEdits BY <1>2 DEF MemoryEdits, Captured, Operation
<1> QED BY <1>1, <1>2 DEF Edits

\* A new intent: of what passed the checks.
LEMMA PreparedAnew ==
  ASSUME IInv, Unrepeated, NEW a \in Actors, Prepare(a)
  PROVE  \E e \in Entries :
           /\ outcome[e] = "none" /\ outcome' = [outcome EXCEPT ![e] = "prepared"]
           /\ edit'[e] = Captured(draft[a]) /\ draft[a] \in Edits
           /\ \A f \in Entries \ {e} : edit'[f] = edit[f] /\ day'[f] = day[f]
           /\ day'[e] = today
           /\ \A f \in Entries :
                /\ outcome[f] \in Consuming /\ Operation(edit[f]) = Operation(edit'[e])
                /\ today - day[f] < DedupDays
                => outcome[f] = "applied" /\ edit'[e].kind = "memory"
<1> USE DEF IInv, TypeOK, JournalOK
<1>1. PICK e \in Entries : /\ outcome[e] = "none"
                           /\ outcome' = [outcome EXCEPT ![e] = "prepared"]
                           /\ edit' = [edit EXCEPT ![e] = Captured(draft[a])]
                           /\ day' = [day EXCEPT ![e] = today]
  BY DEF Prepare
<1>2. draft[a] \in Edits /\ pc[a] = "checked" BY DEF Prepare, Drafted, Admitted
<1>3. /\ edit'[e] = Captured(draft[a]) /\ day'[e] = today
      /\ \A f \in Entries \ {e} : edit'[f] = edit[f] /\ day'[f] = day[f]
  BY <1>1
<1>4. Operation(edit'[e]) = Operation(draft[a]) /\ edit'[e].kind = draft[a].kind
  BY <1>2, <1>3, CapturedOperation
<1>5. \A f \in Entries :
        /\ outcome[f] \in Consuming /\ Operation(edit[f]) = Operation(edit'[e])
        /\ today - day[f] < DedupDays
        => outcome[f] = "applied" /\ edit'[e].kind = "memory"
  <2> SUFFICES ASSUME NEW f \in Entries, outcome[f] \in Consuming,
                      Operation(edit[f]) = Operation(draft[a]), today - day[f] < DedupDays
               PROVE  outcome[f] = "applied" /\ draft[a].kind = "memory"
    BY <1>4
  <2> QED BY <1>2 DEF Unrepeated
<1> QED BY <1>1, <1>2, <1>3, <1>5

\* The kind is part of the operation.
LEMMA OperationKind ==
  ASSUME NEW x \in Edits, NEW y \in Edits, Operation(x) = Operation(y)
  PROVE  x.kind = y.kind
<1>1. \A z \in Edits : Operation(z)[1] = z.kind /\ z.kind \in {"skill", "memory"}
  BY KindOK DEF Operation, Edits, SkillEdits, MemoryEdits
<1> QED BY <1>1

\* Nothing becomes open that was not, but by a new intent.
LEMMA TransitOpens ==
  ASSUME NEW p \in Outcomes, NEW q \in {"prepared", "pending_approval"}, Follows(p, q)
  PROVE  p \in {"prepared", "pending_approval"}
<1>1. p \in Lifecycle!Outcomes
  BY DEF Outcomes, Lifecycle!Outcomes
<1> QED BY <1>1 DEF Follows, Lifecycle!Transitions, Lifecycle!Outcomes

LEMMA TwinsStep ==
  ASSUME IInv, Unrepeated, TwinsNeverOpen, [Next]_vars
  PROVE  TwinsNeverOpen'
<1>0. /\ today \in Nat /\ DedupDays \in Nat /\ DedupDays > 0
      /\ \A e \in Entries : day[e] \in Nat
  BY TodayGrows, DayIsNat, BudgetAssumption
<1> USE DEF IInv, TypeOK, JournalOK
<1>1. ASSUME UNCHANGED edit,
             \A e \in Entries :
               /\ outcome'[e] \in Consuming => outcome[e] \in Consuming /\ day'[e] = day[e]
               /\ outcome'[e] \in {"prepared", "pending_approval"}
                    => outcome[e] \in {"prepared", "pending_approval"}
      PROVE  TwinsNeverOpen'
  <2> SUFFICES ASSUME NEW e \in Entries, NEW f \in Entries, e # f,
                      outcome'[e] \in Consuming, outcome'[f] \in Consuming,
                      Operation(edit'[e]) = Operation(edit'[f]),
                      day'[e] - day'[f] \in 0..(DedupDays - 1)
               PROVE  edit'[e].kind = "memory"
                        /\ ~({outcome'[e], outcome'[f]} \subseteq {"prepared", "pending_approval"})
    BY DEF TwinsNeverOpen, Operation
  <2>1. outcome[e] \in Consuming /\ outcome[f] \in Consuming
          /\ Operation(edit[e]) = Operation(edit[f])
          /\ day[e] - day[f] \in 0..(DedupDays - 1)
    BY <1>1
  <2>2. edit[e].kind = "memory"
          /\ ~({outcome[e], outcome[f]} \subseteq {"prepared", "pending_approval"})
    BY <2>1 DEF TwinsNeverOpen
  <2> QED BY <1>1, <2>2
<1>2. CASE Advances
  BY <1>1, <1>2, TransitKeeps, TransitOpens DEF Advances
<1>3. CASE Refuses
  BY <1>1, <1>3 DEF Refuses, Consuming
<1>4. CASE Reserves
  <2>1. PICK a \in Actors : pc[a] = "checked" /\ pc' = [pc EXCEPT ![a] = "prepared"]
    BY <1>4 DEF Reserves
  <2>2. Prepare(a) BY <2>1, Arriving DEF ActorsOK
  <2>3. PICK n \in Entries :
          /\ outcome[n] = "none" /\ outcome' = [outcome EXCEPT ![n] = "prepared"]
          /\ edit'[n] = Captured(draft[a]) /\ draft[a] \in Edits
          /\ \A f \in Entries \ {n} : edit'[f] = edit[f] /\ day'[f] = day[f]
          /\ day'[n] = today
          /\ \A f \in Entries :
               /\ outcome[f] \in Consuming /\ Operation(edit[f]) = Operation(edit'[n])
               /\ today - day[f] < DedupDays
               => outcome[f] = "applied" /\ edit'[n].kind = "memory"
    BY <2>2, PreparedAnew
  <2>4. edit'[n] \in Edits BY <2>3, CapturedOK DEF HostOK
  <2> SUFFICES ASSUME NEW e \in Entries, NEW f \in Entries, e # f,
                      outcome'[e] \in Consuming, outcome'[f] \in Consuming,
                      Operation(edit'[e]) = Operation(edit'[f]),
                      day'[e] - day'[f] \in 0..(DedupDays - 1)
               PROVE  edit'[e].kind = "memory"
                        /\ ~({outcome'[e], outcome'[f]} \subseteq {"prepared", "pending_approval"})
    BY DEF TwinsNeverOpen, Operation
  <2>5. CASE e # n /\ f # n
    <3>1. outcome[e] \in Consuming /\ outcome[f] \in Consuming
            /\ outcome'[e] = outcome[e] /\ outcome'[f] = outcome[f]
            /\ edit'[e] = edit[e] /\ edit'[f] = edit[f]
            /\ day'[e] = day[e] /\ day'[f] = day[f]
      BY <2>3, <2>5
    <3> QED BY <3>1 DEF TwinsNeverOpen
  <2>6. CASE e = n
    <3>1. /\ outcome[f] \in Consuming /\ outcome'[f] = outcome[f] /\ edit'[f] = edit[f]
          /\ day'[e] = today /\ day'[f] = day[f]
      BY <2>3, <2>6
    <3>2. today - day[f] < DedupDays BY <1>0, <3>1
    <3> QED BY <2>3, <2>6, <3>1, <3>2
  <2>7. CASE f = n
    <3>1. /\ outcome[e] \in Consuming /\ outcome'[e] = outcome[e] /\ edit'[e] = edit[e]
          /\ edit[e] \in Edits /\ day'[e] = day[e] /\ day'[f] = today
      BY <2>3, <2>7 DEF Recorded
    <3>2. edit[e].kind = edit'[n].kind BY <2>4, <2>7, <3>1, OperationKind
    <3>3. today - day[e] < DedupDays BY <1>0, <3>1 DEF NoFuture
    <3> QED BY <2>3, <2>7, <3>1, <3>2, <3>3
  <2> QED BY <2>5, <2>6, <2>7
<1>5. CASE Turns
  BY <1>1, <1>5 DEF Turns
<1> QED BY <1>2, <1>3, <1>4, <1>5, JournalMoves

\* No operation is under way twice within any DedupDays days, however many passes propose it
\* at once, die with it or wait for approval (was_applied_recently under the lock).
THEOREM TwinsStayClosed == Spec => []TwinsNeverOpen
<1>1. Init => Unrepeated /\ TwinsNeverOpen
  BY DEF Init, Unrepeated, TwinsNeverOpen, Consuming
<1>2. IInv /\ Unrepeated /\ TwinsNeverOpen /\ [Next]_vars => (Unrepeated /\ TwinsNeverOpen)'
  BY UnrepeatedStep, TwinsStep
<1> QED BY <1>1, <1>2, Invariance, PTL DEF Spec

-----------------------------------------------------------------------------
(* What happens to the skills and to the queue. *)

\* The host writes edit e, a patch over a skill that is there and a creation where there is none.
Writes(e) ==
  /\ edit[e] \in SkillEdits
  /\ (edit[e].before = Absent) = (skills[edit[e].target].text = Absent)
  /\ \A u \in Skills :
       skills'[u] = IF u = edit[e].target THEN [text |-> edit[e].after, by |-> e] ELSE skills[u]

\* What changes is the user's.
ByTheUser == \A u \in Skills : skills'[u] = skills[u] \/ skills'[u].by = User

LEMMA WriteWrites ==
  ASSUME StoreOK, NEW e \in Entries, edit[e] \in Edits, WriteTo(e)
  PROVE  Writes(e) \/ skills' = skills
<1>1. CASE edit[e].kind = "skill"
  <2>1. edit[e] \in SkillEdits BY <1>1, KindOK
  <2> QED BY <1>1, <2>1 DEF WriteTo, Writes, StoreOK
<1>2. CASE edit[e].kind # "skill" BY <1>2 DEF WriteTo
<1> QED BY <1>1, <1>2

LEMMA RestoreByUser ==
  ASSUME StoreOK, NEW x, Restore(x)
  PROVE  ByTheUser
BY DEF Restore, StoreOK, ByTheUser

\* A skill is written for an edit whose turn it is or that the user approved.
LEMMA SkillsMove ==
  ASSUME IInv, [Next]_vars
  PROVE  \/ ByTheUser
         \/ \E a \in Actors : /\ HostWrite(a) /\ work[a] \in Entries /\ Writes(work[a])
                              /\ answer' = [answer EXCEPT ![a] = "done"] /\ queue' = queue
         \/ \E r \in queue : Approve(r) /\ r[1] \in Entries /\ r[2] = "write" /\ Writes(r[1])
<1> USE DEF IInv, TypeOK
<1>0. StoreOK BY DEF StoreOK, HostOK
<1>1. ASSUME skills' = skills PROVE ByTheUser BY <1>1 DEF ByTheUser
<1>2. ASSUME NEW a \in Actors, StartPass(a) \/ Propose(a) \/ GiveUp(a) \/ Admit(a)
                                \/ BudgetRefused(a) \/ Refuse(a) \/ Check(a) \/ Prepare(a)
                                \/ PrepareFails(a)
      PROVE  skills' = skills
  BY <1>2 DEF StartPass, Propose, GiveUp, Admit, BudgetRefused, Refuse, Check, Prepare,
              PrepareFails, hostVars
<1>3. ASSUME NEW a \in Actors, FinishEdit(a) \/ Intend(a) \/ RollbackRefused(a)
                                \/ FinishRollback(a) \/ Crash(a)
                                \/ \E e \in Entries : StartRollback(a, e)
      PROVE  skills' = skills
  BY <1>3 DEF FinishEdit, Intend, RollbackRefused, FinishRollback, Crash, StartRollback,
              hostVars
<1>4. ASSUME NEW a \in Actors, HostWrite(a)
      PROVE  \/ skills' = skills
             \/ /\ work[a] \in Entries /\ Writes(work[a])
                /\ answer' = [answer EXCEPT ![a] = "done"] /\ queue' = queue
  <2>1. work[a] \in Entries /\ edit[work[a]] \in Edits
    BY <1>4 DEF HostWrite, OfWork, Mutating, Recorded, Consuming
  <2> QED BY <1>0, <1>4, <2>1, WriteWrites DEF HostWrite, hostVars
<1>5. ASSUME NEW a \in Actors, HostUndo(a)
      PROVE  ByTheUser
  <2>1. CASE skills' = skills BY <1>1, <2>1
  <2>2. CASE skills' # skills
    <3>1. Restore(edit[work[a]]) BY <1>5, <2>2 DEF HostUndo, RemoveOwn, hostVars
    <3> QED BY <1>0, <3>1, RestoreByUser
  <2> QED BY <2>1, <2>2
<1>6. ASSUME NEW r \in queue, Approve(r)
      PROVE  \/ ByTheUser
             \/ r[1] \in Entries /\ r[2] = "write" /\ Writes(r[1])
  <2>1. r[1] \in Entries /\ edit[r[1]] \in Edits BY <1>6 DEF HostOK, Recorded
  <2>2. CASE skills' = skills BY <1>1, <2>2
  <2>3. CASE r[2] = "write" /\ WriteTo(r[1]) BY <1>0, <1>1, <2>1, <2>3, WriteWrites
  <2>4. CASE Restore(edit[r[1]]) BY <1>0, <2>4, RestoreByUser
  <2> QED BY <1>6, <2>2, <2>3, <2>4 DEF Approve
<1>7. ASSUME NEW s \in Skills, UserEditsSkill(s)
      PROVE  ByTheUser
  BY <1>7 DEF UserEditsSkill, ByTheUser, HostOK
<1>8. ASSUME \/ \E r \in queue : Deny(r)
             \/ UserEditsMemory
             \/ \E e \in Entries : Age(e)
             \/ Midnight
             \/ UNCHANGED vars
      PROVE  skills' = skills
  BY <1>8 DEF Deny, UserEditsMemory, Age, Midnight, vars, hostVars
<1> QED BY <1>1, <1>2, <1>3, <1>4, <1>5, <1>6, <1>7, <1>8 DEF Next, Step

\* A request is queued by the actor whose turn it is, on a host that queues.
LEMMA QueueMoves ==
  ASSUME IInv, [Next]_vars
  PROVE  \/ queue' \subseteq queue
         \/ \E a \in Actors : /\ HostWrite(a) /\ HostStages /\ skills' = skills
                              /\ queue' = queue \cup {<<work[a], "write">>}
                              /\ \E r \in {"staged", "unnamed"} : answer' = [answer EXCEPT ![a] = r]
         \/ \E a \in Actors : /\ HostUndo(a) /\ HostStages
                              /\ queue' = queue \cup {<<work[a], "undo">>}
<1> USE DEF IInv, TypeOK
<1>1. ASSUME NEW a \in Actors, HostWrite(a)
      PROVE  \/ queue' = queue
             \/ /\ HostStages /\ skills' = skills
                /\ queue' = queue \cup {<<work[a], "write">>}
                /\ \E r \in {"staged", "unnamed"} : answer' = [answer EXCEPT ![a] = r]
  BY <1>1 DEF HostWrite, hostVars
<1>2. ASSUME NEW a \in Actors, HostUndo(a)
      PROVE  \/ queue' = queue
             \/ HostStages /\ queue' = queue \cup {<<work[a], "undo">>}
  BY <1>2 DEF HostUndo, hostVars
<1>3. ASSUME NEW a \in Actors, StartPass(a) \/ Propose(a) \/ GiveUp(a) \/ Admit(a)
                                \/ BudgetRefused(a) \/ Refuse(a) \/ Check(a) \/ Prepare(a)
                                \/ PrepareFails(a)
      PROVE  queue' \subseteq queue
  BY <1>3 DEF StartPass, Propose, GiveUp, Admit, BudgetRefused, Refuse, Check, Prepare,
              PrepareFails, hostVars
<1>4. ASSUME NEW a \in Actors, FinishEdit(a) \/ Intend(a) \/ RollbackRefused(a)
                                \/ FinishRollback(a) \/ Crash(a)
                                \/ \E e \in Entries : StartRollback(a, e)
      PROVE  queue' \subseteq queue
  BY <1>4 DEF FinishEdit, Intend, RollbackRefused, FinishRollback, Crash, StartRollback,
              hostVars
<1>5. ASSUME \/ Outsiders
             \/ \E e \in Entries : Age(e)
             \/ Midnight
             \/ UNCHANGED vars
      PROVE  queue' \subseteq queue
  BY <1>5 DEF Outsiders, Approve, Deny, UserEditsSkill, UserEditsMemory, Age, Midnight, vars,
              hostVars
<1> QED BY <1>1, <1>2, <1>3, <1>4, <1>5 DEF Next, Step, Outsiders

-----------------------------------------------------------------------------
(* Among refine's own passes no update is lost. *)

\* An intent recorded is about the content its target has.
Seen == \A a \in Actors : pc[a] = "prepared" =>
  LET x == edit[work[a]]
  IN x.kind = "skill" /\ x.before # Absent => skills[x.target].text = x.before

SeenInv == queue = {} /\ Seen

LEMMA SeenStep ==
  ASSUME ~HostStages, MaxUserEdits = 0, IInv, SeenInv, [Next]_vars
  PROVE  SeenInv'
<1> USE DEF IInv, TypeOK, SeenInv
<1>1. queue' = {} BY QueueMoves
<1>2. ASSUME NEW a \in Actors, pc'[a] = "prepared", NEW x, x = edit'[work'[a]],
             x.kind = "skill", x.before # Absent
      PROVE  skills'[x.target].text = x.before
  <2>1. CASE pc[a] = "prepared"
    <3>1. /\ UNCHANGED <<outcome, edit>> /\ work'[a] = work[a]
          /\ Outsiders \/ UNCHANGED hostVars
      BY <1>2, <2>1, HeldStill DEF Holding
    <3>2. skills' = skills
      BY <3>1 DEF Outsiders, UserEditsSkill, UserEditsMemory, hostVars
    <3> QED BY <1>2, <2>1, <3>1, <3>2 DEF Seen
  <2>2. CASE pc[a] # "prepared"
    <3>1. Prepare(a) BY <1>2, <2>2, Arriving
    <3>2. PICK e \in Entries : edit' = [edit EXCEPT ![e] = Captured(draft[a])]
                               /\ work' = [work EXCEPT ![a] = e]
      BY <3>1 DEF Prepare
    <3>3. x = Captured(draft[a]) /\ draft[a] \in Edits
      BY <1>2, <3>1, <3>2 DEF JournalOK, ActorsOK, Prepare, Drafted, Admitted
    <3>4. x = draft[a] BY <1>2, <3>3, CapturedOperation DEF Captured
    <3> QED BY <1>2, <3>1, <3>4 DEF Prepare, Conflicts, hostVars
  <2> QED BY <2>1, <2>2
<1>3. Seen' BY <1>2 DEF Seen
<1> QED BY <1>1, <1>3

\* Where nobody but refine writes skills and no write waits for approval, a pass that changes
\* what another one wrote has recorded it first, whatever passes run at once, die or roll back
\* (_skill_baseline_conflict under the lock).
THEOREM NoneIsLost ==
  ASSUME ~HostStages, MaxUserEdits = 0
  PROVE  Spec => NoLostUpdate
<1>1. Init => SeenInv BY DEF Init, SeenInv, Seen
<1>2. IInv /\ SeenInv /\ [Next]_vars => SeenInv' BY SeenStep
<1>3. IInv /\ SeenInv /\ [Next]_vars =>
        [\A s \in Skills :
           LET e == skills'[s].by
           IN skills'[s] # skills[s] /\ e \in Entries => edit[e].before = skills[s].text]_vars
  <2> SUFFICES ASSUME IInv, SeenInv, [Next]_vars, NEW s \in Skills, skills'[s] # skills[s],
                      NEW e \in Entries, e = skills'[s].by
               PROVE  edit[e].before = skills[s].text
    OBVIOUS
  <2>1. ~ByTheUser BY NameAssumption DEF ByTheUser
  <2>2. PICK a \in Actors : HostWrite(a) /\ work[a] \in Entries /\ Writes(work[a])
    BY <2>1, SkillsMove DEF SeenInv
  <2>3. e = work[a] /\ s = edit[e].target BY <2>2 DEF Writes
  <2>4. edit[e].kind = "skill" /\ pc[a] = "prepared"
    BY <2>2, <2>3 DEF Writes, SkillEdits, HostWrite
  <2>5. CASE edit[e].before = Absent BY <2>2, <2>3, <2>5 DEF Writes
  <2>6. CASE edit[e].before # Absent BY <2>3, <2>4, <2>6 DEF SeenInv, Seen
  <2> QED BY <2>5, <2>6
<1> QED BY <1>1, <1>2, <1>3, Invariance, PTL DEF Spec, NoLostUpdate

-----------------------------------------------------------------------------
(* What is in force is accounted for. *)

\* The write of edit e is neither done nor queued.
Unwritten(e) == <<e, "write">> \notin queue /\ \A s \in Skills : skills[s].by # e

\* A skill that an edit wrote has its text, and the edit counts.
Authored == \A s \in Skills : \A e \in Entries : skills[s].by = e =>
  /\ outcome[e] \in Consuming
  /\ edit[e].kind = "skill" /\ edit[e].target = s /\ skills[s].text = edit[e].after

\* No skill edit restores what was there: the target cannot show it both done and undone.
Changing ==
  /\ \A e \in Entries : outcome[e] \in Consuming /\ edit[e].kind = "skill"
                        => edit[e].after # edit[e].before
  /\ \A a \in Actors : pc[a] = "checked" /\ draft[a].kind = "skill"
                       => draft[a].after # draft[a].before

\* What is queued is open, on a host that queues.
QueuedOpen ==
  /\ queue # {} => HostStages
  /\ \A e \in Entries : <<e, "write">> \in queue => outcome[e] \in {"prepared", "pending_approval"}

\* The host's answer is true: before it, and after a refusal, nothing has been written.
Answered == \A a \in Actors :
  /\ pc[a] = "prepared" => Unwritten(work[a])
  /\ pc[a] = "written" =>
       /\ answer[a] # "none"
       /\ answer[a] = "done" => <<work[a], "write">> \notin queue
       /\ answer[a] = "refused" => Unwritten(work[a])

AccountInv == Authored /\ Changing /\ QueuedOpen /\ Answered

\* What becomes of a record that is there.
LEMMA OutcomeMoves ==
  ASSUME IInv, [Next]_vars, NEW e \in Entries, outcome[e] # "none"
  PROVE  /\ edit'[e] = edit[e]
         /\ \/ outcome'[e] = outcome[e]
            \/ outcome'[e] = Reconciled(e)
            \/ \E a \in Actors : \E known \in Reads :
                 /\ FinishEdit(a) /\ work[a] = e /\ pc[a] = "written"
                 /\ outcome'[e] = Verdict(a, known)
            \/ \E a \in Actors : \E known \in Reads :
                 /\ FinishRollback(a) /\ work[a] = e /\ outcome[e] = "rollback_prepared"
                 /\ outcome'[e] = UndoVerdict(a, known)
            \/ outcome[e] = "applied" /\ outcome'[e] = "rollback_prepared"
<1> USE DEF IInv, TypeOK, JournalOK
<1>1. edit'[e] = edit[e]
  BY JournalMoves DEF Advances, Refuses, Reserves, Turns
<1>2. ASSUME NEW a \in Actors, StartPass(a) \/ \E f \in Entries : StartRollback(a, f)
      PROVE  outcome'[e] = outcome[e] \/ outcome'[e] = Reconciled(e)
  BY <1>2 DEF StartPass, StartRollback, Reconcile
<1>3. ASSUME NEW a \in Actors, Propose(a) \/ GiveUp(a) \/ Admit(a) \/ BudgetRefused(a)
                                \/ Check(a) \/ PrepareFails(a) \/ HostWrite(a)
                                \/ RollbackRefused(a) \/ HostUndo(a) \/ Crash(a)
      PROVE  outcome' = outcome
  BY <1>3 DEF Propose, GiveUp, Admit, BudgetRefused, Check, PrepareFails, HostWrite,
              RollbackRefused, HostUndo, Crash, journalVars
<1>4. ASSUME NEW a \in Actors, Refuse(a) \/ Prepare(a)
      PROVE  outcome'[e] = outcome[e]
  BY <1>4 DEF Refuse, Prepare, journalVars
<1>5. ASSUME NEW a \in Actors, FinishEdit(a)
      PROVE  \/ outcome'[e] = outcome[e]
             \/ \E known \in Reads : /\ work[a] = e /\ pc[a] = "written"
                                     /\ outcome'[e] = Verdict(a, known)
  <2>1. PICK known \in Reads :
          IF Verdict(a, known) = "prepared" THEN UNCHANGED <<outcome, aged>>
                                            ELSE Finalize(work[a], Verdict(a, known))
    BY <1>5 DEF FinishEdit
  <2>2. pc[a] = "written" BY <1>5 DEF FinishEdit
  <2> QED BY <2>1, <2>2 DEF Finalize
<1>6. ASSUME NEW a \in Actors, Intend(a)
      PROVE  \/ outcome'[e] = outcome[e]
             \/ outcome[e] = "applied" /\ outcome'[e] = "rollback_prepared"
  BY <1>6 DEF Intend
<1>7. ASSUME NEW a \in Actors, FinishRollback(a)
      PROVE  \/ outcome'[e] = outcome[e]
             \/ \E known \in Reads : /\ work[a] = e /\ outcome[e] = "rollback_prepared"
                                     /\ outcome'[e] = UndoVerdict(a, known)
  <2>1. PICK known \in Reads :
          IF UndoVerdict(a, known) = "rollback_prepared" THEN UNCHANGED <<outcome, aged>>
          ELSE Finalize(work[a], UndoVerdict(a, known))
    BY <1>7 DEF FinishRollback
  <2>2. outcome[work[a]] = "rollback_prepared"
    BY <1>7 DEF FinishRollback, OfWork, Reversing
  <2> QED BY <2>1, <2>2 DEF Finalize
<1>8. ASSUME \/ Outsiders
             \/ \E f \in Entries : Age(f)
             \/ Midnight
             \/ UNCHANGED vars
      PROVE  outcome' = outcome
  BY <1>8 DEF Outsiders, Approve, Deny, UserEditsSkill, UserEditsMemory, Age, Midnight, vars,
              journalVars
<1> QED BY <1>1, <1>2, <1>3, <1>4, <1>5, <1>6, <1>7, <1>8 DEF Next, Step, Outsiders

\* An edit in force goes on counting: who looks at its target sees it.
LEMMA StaysCounted ==
  ASSUME ~ReadsFail, IInv, AccountInv, [Next]_vars, NEW s \in Skills, NEW e \in Entries,
         skills[s].by = e
  PROVE  outcome'[e] \in Consuming /\ edit'[e] = edit[e]
<1> USE DEF IInv, TypeOK, AccountInv
<1>1. /\ outcome[e] \in Consuming /\ outcome[e] # "none"
      /\ edit[e].kind = "skill" /\ edit[e].target = s /\ skills[s].text = edit[e].after
  BY DEF Authored, Consuming
<1>2. Applied(edit[e]) /\ ~Undone(edit[e])
  BY <1>1 DEF Applied, Undone, Changing
<1>3. Reconciled(e) \in Consuming
  BY <1>1, <1>2 DEF Reconciled, Consuming
<1>4. ASSUME NEW a \in Actors, NEW known \in Reads, work[a] = e, pc[a] = "written"
      PROVE  Verdict(a, known) \in Consuming
  <2>1. answer[a] \in {"done", "staged", "unnamed"}
    BY <1>4 DEF Answered, Unwritten, ActorsOK
  <2>2. known = TRUE BY <1>4 DEF Reads
  <2> QED BY <1>2, <1>4, <2>1, <2>2 DEF Verdict, Consuming
<1>5. ASSUME NEW a \in Actors, NEW known \in Reads, work[a] = e
      PROVE  UndoVerdict(a, known) \in Consuming
  BY <1>2, <1>5 DEF UndoVerdict, Consuming
<1>6. "rollback_prepared" \in Consuming BY DEF Consuming
<1> QED BY <1>1, <1>3, <1>4, <1>5, <1>6, OutcomeMoves

LEMMA AuthoredStep ==
  ASSUME ~ReadsFail, IInv, AccountInv, [Next]_vars
  PROVE  Authored'
<1> USE NameAssumption DEF IInv, TypeOK, AccountInv
<1> SUFFICES ASSUME NEW s \in Skills, NEW e \in Entries, skills'[s].by = e
             PROVE  /\ outcome'[e] \in Consuming
                    /\ edit'[e].kind = "skill" /\ edit'[e].target = s
                    /\ skills'[s].text = edit'[e].after
  BY DEF Authored
<1>1. CASE skills'[s] = skills[s]
  <2>1. skills[s].by = e BY <1>1
  <2>2. edit[e].kind = "skill" /\ edit[e].target = s /\ skills[s].text = edit[e].after
    BY <2>1 DEF Authored
  <2> QED BY <1>1, <2>1, <2>2, StaysCounted
<1>2. CASE skills'[s] # skills[s]
  <2>1. ~ByTheUser BY <1>2 DEF ByTheUser
  <2>2. ASSUME NEW a \in Actors, HostWrite(a), work[a] \in Entries, Writes(work[a])
        PROVE  /\ e = work[a] /\ Writes(e) /\ UNCHANGED <<outcome, edit>>
               /\ outcome[e] \in Consuming
    <3>1. e = work[a] BY <1>2, <2>2 DEF Writes
    <3>2. outcome[work[a]] = "prepared" BY <2>2 DEF HostWrite, OfWork, Mutating
    <3> QED BY <2>2, <3>1, <3>2 DEF HostWrite, journalVars, Consuming
  <2>3. ASSUME NEW r \in queue, Approve(r), r[1] \in Entries, r[2] = "write", Writes(r[1])
        PROVE  /\ e = r[1] /\ Writes(e) /\ UNCHANGED <<outcome, edit>>
               /\ outcome[e] \in Consuming
    <3>1. e = r[1] BY <1>2, <2>3 DEF Writes
    <3>2. r = <<e, "write">> BY <2>3, <3>1 DEF HostOK
    <3>3. outcome[e] \in {"prepared", "pending_approval"} BY <3>2 DEF QueuedOpen
    <3> QED BY <2>3, <3>1, <3>3 DEF Approve, journalVars, Consuming
  <2>4. Writes(e) /\ UNCHANGED <<outcome, edit>> /\ outcome[e] \in Consuming
    BY <2>1, <2>2, <2>3, SkillsMove
  <2>5. s = edit[e].target BY <1>2, <2>4 DEF Writes
  <2>6. edit[e].kind = "skill" BY <2>4 DEF Writes, SkillEdits
  <2>7. skills'[s].text = edit[e].after BY <2>4, <2>5 DEF Writes
  <2> QED BY <2>4, <2>5, <2>6, <2>7
<1> QED BY <1>1, <1>2

LEMMA ChangingStep ==
  ASSUME IInv, Unrepeated, AccountInv, [Next]_vars
  PROVE  Changing'
<1> USE DEF IInv, TypeOK, JournalOK, AccountInv
<1>1. ASSUME NEW e \in Entries, outcome'[e] \in Consuming, edit'[e].kind = "skill"
      PROVE  edit'[e].after # edit'[e].before
  <2>1. CASE outcome[e] \in Consuming
    <3>1. outcome[e] # "none" BY <2>1 DEF Consuming
    <3>2. edit'[e] = edit[e] BY <3>1, OutcomeMoves
    <3> QED BY <1>1, <2>1, <3>2 DEF Changing
  <2>2. CASE outcome[e] \notin Consuming
    <3>1. Reserves
      <4>1. ~Advances BY <1>1, <2>2, TransitKeeps DEF Advances
      <4>2. ~Refuses BY <1>1, <2>2 DEF Refuses, Consuming
      <4>3. ~Turns BY <1>1, <2>2 DEF Turns
      <4> QED BY <4>1, <4>2, <4>3, JournalMoves
    <3>2. PICK a \in Actors : pc[a] = "checked" /\ pc' = [pc EXCEPT ![a] = "prepared"]
      BY <3>1 DEF Reserves
    <3>3. Prepare(a) BY <3>2, Arriving DEF ActorsOK
    <3>4. PICK n \in Entries :
            /\ outcome' = [outcome EXCEPT ![n] = "prepared"]
            /\ edit'[n] = Captured(draft[a]) /\ draft[a] \in Edits
      BY <3>3, PreparedAnew
    <3>5. e = n BY <1>1, <2>2, <3>4
    <3>6. draft[a].kind = "skill" /\ edit'[e] = draft[a]
      BY <1>1, <3>4, <3>5, CapturedOperation DEF Captured
    <3> QED BY <3>2, <3>6 DEF Changing
  <2> QED BY <2>1, <2>2
<1>2. ASSUME NEW a \in Actors, pc'[a] = "checked", draft'[a].kind = "skill"
      PROVE  draft'[a].after # draft'[a].before
  <2>1. CASE pc[a] = "checked"
    <3>1. draft'[a] = draft[a] BY <1>2, <2>1, HeldStill DEF Holding
    <3> QED BY <1>2, <2>1, <3>1 DEF Changing
  <2>2. CASE pc[a] # "checked"
    <3>1. Check(a) BY <1>2, <2>2, Arriving
    <3>2. draft' = draft /\ \E w \in Windows : Objection(draft[a], w) = "none"
      BY <3>1 DEF Check
    <3> QED BY <1>2, <3>2 DEF Objection
  <2> QED BY <2>1, <2>2
<1> QED BY <1>1, <1>2 DEF Changing

LEMMA QueuedOpenStep ==
  ASSUME IInv, AccountInv, [Next]_vars
  PROVE  QueuedOpen'
<1> USE DEF IInv, TypeOK, AccountInv
<1>1. queue' # {} => HostStages BY QueueMoves DEF QueuedOpen
<1>2. ASSUME NEW e \in Entries, <<e, "write">> \in queue'
      PROVE  outcome'[e] \in {"prepared", "pending_approval"}
  <2>1. CASE <<e, "write">> \notin queue
    <3>1. PICK a \in Actors : HostWrite(a) /\ e = work[a]
      <4>1. ASSUME NEW a \in Actors, queue' = queue \cup {<<work[a], "undo">>} PROVE FALSE
        BY <1>2, <2>1, <4>1
      <4>2. ASSUME NEW a \in Actors, queue' = queue \cup {<<work[a], "write">>}
            PROVE  e = work[a]
        BY <1>2, <2>1, <4>2
      <4> QED BY <1>2, <2>1, <4>1, <4>2, QueueMoves
    <3>2. outcome[e] = "prepared" BY <3>1 DEF HostWrite, OfWork, Mutating
    <3> QED BY <3>1, <3>2 DEF HostWrite, journalVars
  <2>2. CASE <<e, "write">> \in queue
    <3>1. outcome[e] \in {"prepared", "pending_approval"} /\ HostStages
      BY <2>2 DEF QueuedOpen
    <3>2. Reconciled(e) = outcome[e] BY <2>2, <3>1 DEF Reconciled
    <3>3. ASSUME NEW a \in Actors, NEW known \in Reads, work[a] = e, pc[a] = "written"
          PROVE  Verdict(a, known) \in {"prepared", "pending_approval"}
      <4>1. answer[a] \in {"staged", "unnamed"}
        BY <2>2, <3>3 DEF Answered, Unwritten, ActorsOK
      <4> QED BY <4>1 DEF Verdict
    <3> QED BY <3>1, <3>2, <3>3, OutcomeMoves
  <2> QED BY <2>1, <2>2
<1> QED BY <1>1, <1>2 DEF QueuedOpen

\* Nobody from outside writes an edit that is not queued, or queues it.
LEMMA OutsidersSpare ==
  ASSUME IInv, [Next]_vars, Outsiders \/ UNCHANGED hostVars
  PROVE  /\ queue' \subseteq queue
         /\ \A e \in Entries : Unwritten(e) => Unwritten(e)'
<1> USE NameAssumption DEF IInv, TypeOK
<1>1. CASE UNCHANGED hostVars BY <1>1 DEF hostVars, Unwritten
<1>2. CASE Outsiders
  <2>1. queue' \subseteq queue /\ pc' = pc
    BY <1>2 DEF Outsiders, Approve, Deny, UserEditsSkill, UserEditsMemory, actorVars
  <2>2. ASSUME NEW e \in Entries, Unwritten(e), NEW s \in Skills
        PROVE  skills'[s].by # e
    <3>1. CASE ByTheUser BY <2>2, <3>1 DEF ByTheUser, Unwritten
    <3>2. ASSUME NEW a \in Actors, HostWrite(a) PROVE FALSE
      BY <2>1, <3>2 DEF HostWrite, Goto, ActorsOK
    <3>3. ASSUME NEW r \in queue, r[2] = "write", Writes(r[1])
          PROVE  skills'[s].by # e
      <4>1. r = <<r[1], "write">> BY <3>3 DEF HostOK
      <4>2. r[1] # e BY <2>2, <4>1 DEF Unwritten
      <4> QED BY <2>2, <3>3, <4>2 DEF Writes, Unwritten
    <3> QED BY <3>1, <3>2, <3>3, SkillsMove
  <2> QED BY <2>1, <2>2 DEF Unwritten
<1> QED BY <1>1, <1>2

LEMMA AnsweredStep ==
  ASSUME IInv, Unrepeated, AccountInv, [Next]_vars
  PROVE  Answered'
<1> USE DEF IInv, TypeOK, AccountInv
<1>1. ASSUME NEW a \in Actors, pc'[a] \in Mutating, pc[a] = pc'[a], NEW w, w = work'[a]
      PROVE  /\ pc'[a] = "prepared" => Unwritten(w)'
             /\ pc'[a] = "written" =>
                  /\ answer'[a] # "none"
                  /\ answer'[a] = "done" => <<w, "write">> \notin queue'
                  /\ answer'[a] = "refused" => Unwritten(w)'
  <2>1. /\ w = work[a] /\ answer'[a] = answer[a]
        /\ Outsiders \/ UNCHANGED hostVars
    BY <1>1, HeldStill DEF Holding, Mutating
  <2>2. w \in Entries BY <1>1, <2>1 DEF OfWork
  <2>3. queue' \subseteq queue /\ (Unwritten(w) => Unwritten(w)')
    BY <2>1, <2>2, OutsidersSpare
  <2>4. /\ pc[a] = "prepared" => Unwritten(w)
        /\ pc[a] = "written" => /\ answer[a] # "none"
                                /\ answer[a] = "done" => <<w, "write">> \notin queue
                                /\ answer[a] = "refused" => Unwritten(w)
    BY <2>1 DEF Answered
  <2> QED BY <1>1, <2>1, <2>3, <2>4
<1>2. ASSUME NEW a \in Actors, Prepare(a), NEW w, w = work'[a]
      PROVE  Unwritten(w)'
  <2>1. PICK n \in Entries : outcome[n] = "none" /\ work' = [work EXCEPT ![a] = n]
    BY <1>2 DEF Prepare
  <2>2. Unwritten(n)
    <3>1. <<n, "write">> \notin queue BY <2>1 DEF QueuedOpen
    <3>2. \A s \in Skills : skills[s].by # n BY <2>1 DEF Authored, Consuming
    <3> QED BY <3>1, <3>2 DEF Unwritten
  <2>3. w = n BY <1>2, <2>1 DEF ActorsOK
  <2> QED BY <1>2, <2>2, <2>3 DEF Prepare, hostVars, Unwritten
<1>3. ASSUME NEW a \in Actors, HostWrite(a), NEW w, w = work'[a]
      PROVE  /\ answer'[a] # "none"
             /\ answer'[a] = "done" => <<w, "write">> \notin queue'
             /\ answer'[a] = "refused" => Unwritten(w)'
  <2>1. Unwritten(w) BY <1>3 DEF HostWrite, Answered
  <2>2. \E r \in {"done", "staged", "unnamed", "refused"} :
          /\ answer' = [answer EXCEPT ![a] = r]
          /\ r = "done" => queue' = queue
          /\ r = "refused" => UNCHANGED hostVars
    BY <1>3 DEF HostWrite
  <2>3. \/ answer'[a] = "done" /\ queue' = queue
        \/ answer'[a] \in {"staged", "unnamed"}
        \/ answer'[a] = "refused" /\ UNCHANGED hostVars
    BY <2>2 DEF ActorsOK
  <2> QED BY <2>1, <2>3 DEF Unwritten, hostVars
<1>4. ASSUME NEW a \in Actors, NEW w, w = work'[a]
      PROVE  /\ pc'[a] = "prepared" => Unwritten(w)'
             /\ pc'[a] = "written" =>
                  /\ answer'[a] # "none"
                  /\ answer'[a] = "done" => <<w, "write">> \notin queue'
                  /\ answer'[a] = "refused" => Unwritten(w)'
  <2>1. CASE pc'[a] = pc[a] BY <1>1, <1>4, <2>1 DEF Mutating
  <2>2. CASE pc'[a] # pc[a]
    <3>1. /\ pc'[a] = "prepared" => Prepare(a)
          /\ pc'[a] = "written" => HostWrite(a)
      BY <2>2, Arriving
    <3> QED BY <1>2, <1>3, <1>4, <3>1
  <2> QED BY <2>1, <2>2
<1> QED BY <1>4 DEF Answered, Unwritten

\* Where the memory store is not refine's to write, nothing in it is refine's.
UserItems == [text : UserTexts, by : {User}]
OwnMemory == memory \in Seq(UserItems)

LEMMA OwnMemoryStep ==
  ASSUME Lessons = {}, IInv, OwnMemory, [Next]_vars
  PROVE  OwnMemory'
<1> USE DEF IInv, TypeOK
<1>1. \A x \in Edits : x.kind = "skill"
  BY DEF Edits, SkillEdits, MemoryEdits
<1>2. CASE memory' = memory BY <1>2 DEF OwnMemory
<1>3. ASSUME NEW e \in Entries, edit[e] \in Edits, WriteTo(e)
      PROVE  memory' = memory
  BY <1>1, <1>3 DEF WriteTo
<1>4. ASSUME NEW a \in Actors, HostWrite(a)
      PROVE  memory' = memory
  <2>1. work[a] \in Entries /\ edit[work[a]] \in Edits
    BY <1>4 DEF HostWrite, OfWork, Mutating, Recorded, Consuming
  <2> QED BY <1>3, <1>4, <2>1 DEF HostWrite, hostVars
<1>5. ASSUME NEW a \in Actors, HostUndo(a)
      PROVE  memory' = memory
  <2>1. edit[work[a]].kind = "skill"
    BY <1>1, <1>5 DEF HostUndo, OfWork, Reversing, Recorded, Consuming
  <2> QED BY <1>5, <2>1 DEF HostUndo, Restore, hostVars
<1>6. ASSUME NEW r \in queue, Approve(r)
      PROVE  memory' = memory
  <2>1. r[1] \in Entries /\ edit[r[1]] \in Edits BY <1>6 DEF HostOK, Recorded
  <2> QED BY <1>3, <1>6, <2>1 DEF Approve, Restore
<1>7. ASSUME UserEditsMemory
      PROVE  OwnMemory'
  <2>1. \A t \in UserTexts : [text |-> t, by |-> User] \in UserItems BY DEF UserItems
  <2>2. ASSUME NEW t \in UserTexts PROVE Append(memory, [text |-> t, by |-> User]) \in Seq(UserItems)
    BY <2>1 DEF OwnMemory
  <2>3. ASSUME NEW i \in 1..Len(memory), NEW t \in UserTexts
        PROVE  [memory EXCEPT ![i] = [text |-> t, by |-> User]] \in Seq(UserItems)
    BY <2>1 DEF OwnMemory
  <2>4. ASSUME NEW i \in 1..Len(memory) PROVE RemoveAt(memory, i) \in Seq(UserItems)
    BY RemoveOK DEF OwnMemory
  <2> QED BY <1>7, <2>2, <2>3, <2>4 DEF UserEditsMemory, OwnMemory
<1>8. ASSUME NEW a \in Actors, StartPass(a) \/ Propose(a) \/ GiveUp(a) \/ Admit(a)
                                \/ BudgetRefused(a) \/ Refuse(a) \/ Check(a) \/ Prepare(a)
                                \/ PrepareFails(a)
      PROVE  memory' = memory
  BY <1>8 DEF StartPass, Propose, GiveUp, Admit, BudgetRefused, Refuse, Check, Prepare,
              PrepareFails, hostVars
<1>9. ASSUME NEW a \in Actors, FinishEdit(a) \/ Intend(a) \/ RollbackRefused(a)
                                \/ FinishRollback(a) \/ Crash(a)
                                \/ \E e \in Entries : StartRollback(a, e)
      PROVE  memory' = memory
  BY <1>9 DEF FinishEdit, Intend, RollbackRefused, FinishRollback, Crash, StartRollback,
              hostVars
<1>10. ASSUME \/ \E r \in queue : Deny(r)
              \/ \E s \in Skills : UserEditsSkill(s)
              \/ \E e \in Entries : Age(e)
              \/ Midnight
              \/ UNCHANGED vars
       PROVE  memory' = memory
  BY <1>10 DEF Deny, UserEditsSkill, Age, Midnight, vars, hostVars
<1> QED BY <1>2, <1>4, <1>5, <1>6, <1>7, <1>8, <1>9, <1>10 DEF Next, Step

\* A skill that an edit wrote has a record that counts and that a rollback can start from,
\* whoever died, answered late or wrote over it: nothing in force is forgotten (_apply_edit,
\* reconcile, _restore_applied).  The target can be read, and no lesson is kept in memory.
THEOREM StandingIsAccounted ==
  ASSUME ~ReadsFail, Lessons = {}
  PROVE  Spec => []StandingAccounted
<1>1. Init => Unrepeated /\ AccountInv /\ OwnMemory
  <2> SUFFICES ASSUME Init PROVE Unrepeated /\ AccountInv /\ OwnMemory
    OBVIOUS
  <2>1. Unrepeated BY DEF Init, Unrepeated
  <2>2. Authored BY NameAssumption DEF Init, Authored
  <2>3. Changing BY DEF Init, Changing, Consuming
  <2>4. QueuedOpen /\ Answered BY DEF Init, QueuedOpen, Answered
  <2>5. OwnMemory
    <3>1. <<>> \in Seq(UserItems) OBVIOUS
    <3>2. ASSUME NEW t \in UserTexts PROVE <<[text |-> t, by |-> User]>> \in Seq(UserItems)
      <4>1. [text |-> t, by |-> User] \in UserItems BY <3>2 DEF UserItems
      <4> QED BY <4>1
    <3> QED BY <3>1, <3>2 DEF Init, OwnMemory
  <2> QED BY <2>1, <2>2, <2>3, <2>4, <2>5 DEF AccountInv
<1>2. IInv /\ Unrepeated /\ AccountInv /\ OwnMemory /\ [Next]_vars
        => (Unrepeated /\ AccountInv /\ OwnMemory)'
  BY UnrepeatedStep, AuthoredStep, ChangingStep, QueuedOpenStep, AnsweredStep, OwnMemoryStep
  DEF AccountInv
<1>3. AccountInv /\ OwnMemory => StandingAccounted
  <2> SUFFICES ASSUME AccountInv, OwnMemory, NEW e \in Entries, Standing(e)
               PROVE  outcome[e] \in Consuming
    BY DEF StandingAccounted
  <2>1. \A i \in 1..Len(memory) : memory[i].by # e
    <3>1. \A i \in 1..Len(memory) : memory[i] \in UserItems
      BY DEF OwnMemory
    <3> QED BY <3>1, NameAssumption DEF UserItems
  <2> QED BY <2>1 DEF Standing, AccountInv, Authored
<1> QED BY <1>1, <1>2, <1>3, Invariance, PTL DEF Spec

-----------------------------------------------------------------------------
(* The memory entries of others. *)

\* Nothing moves, something comes last, or something of refine's is taken out.
LEMMA SameStays == ASSUME NEW m, NEW gone PROVE SameOthers(m, m, gone)
<1> DEFINE f == [i \in OthersAt(m, gone) |-> i]
<1>1. f \in [OthersAt(m, gone) -> OthersAt(m, gone)] OBVIOUS
<1> QED BY <1>1 DEF SameOthers

LEMMA SameAppended ==
  ASSUME NEW S, NEW m \in Seq(S), NEW item \in S, item.by # User, NEW gone
  PROVE  SameOthers(m, Append(m, item), gone) /\ Len(m) <= Len(Append(m, item)) + 1
<1> DEFINE n == Append(m, item)
<1>1. /\ Len(m) \in Nat /\ DOMAIN m = 1..Len(m) /\ DOMAIN n = 1..Len(m) + 1
      /\ Len(n) = Len(m) + 1
      /\ \A i \in 1..Len(m) : n[i] = m[i]
      /\ n[Len(m) + 1] = item
  OBVIOUS
<1> HIDE DEF n
<1>2. \A i \in 1..Len(m) + 1 : i \in 1..Len(m) \/ i = Len(m) + 1 BY <1>1
<1>3. \A i \in 1..Len(m) : i \in 1..Len(m) + 1 BY <1>1
<1>4. OthersAt(n, gone) = OthersAt(m, gone) BY <1>1, <1>2, <1>3 DEF OthersAt
<1> DEFINE f == [i \in OthersAt(m, gone) |-> i]
<1>5. f \in [OthersAt(m, gone) -> OthersAt(n, gone)] BY <1>4
<1>6. \A i \in OthersAt(m, gone) : n[f[i]] = m[i] BY <1>1 DEF OthersAt
<1>7. SameOthers(m, n, gone) BY <1>4, <1>5, <1>6 DEF SameOthers
<1>8. Len(m) <= Len(n) + 1 BY <1>1
<1> QED BY <1>7, <1>8 DEF n

LEMMA Concatenated ==
  ASSUME NEW S, NEW p \in Seq(S), NEW q \in Seq(S)
  PROVE  /\ DOMAIN (p \o q) = 1..Len(p) + Len(q)
         /\ \A i \in 1..Len(p) + Len(q) : (p \o q)[i] = IF i <= Len(p) THEN p[i] ELSE q[i - Len(p)]
  BY ConcatProperties

\* What is left when one is taken out.
LEMMA Removed ==
  ASSUME NEW S, NEW m \in Seq(S), NEW k \in 1..Len(m)
  PROVE  /\ DOMAIN RemoveAt(m, k) = 1..Len(m) - 1
         /\ \A i \in 1..Len(m) - 1 : RemoveAt(m, k)[i] = IF i < k THEN m[i] ELSE m[i + 1]
<1>1. Len(m) \in Nat /\ k \in Nat /\ k >= 1 /\ k <= Len(m) OBVIOUS
<1>2. /\ SubSeq(m, 1, k - 1) \in Seq(S) /\ Len(SubSeq(m, 1, k - 1)) = k - 1
      /\ \A i \in 1..k - 1 : SubSeq(m, 1, k - 1)[i] = m[i]
  BY <1>1
<1>3. /\ SubSeq(m, k + 1, Len(m)) \in Seq(S) /\ Len(SubSeq(m, k + 1, Len(m))) = Len(m) - k
      /\ \A i \in 1..Len(m) - k : SubSeq(m, k + 1, Len(m))[i] = m[k + i]
  BY <1>1
<1> DEFINE p == SubSeq(m, 1, k - 1)
           q == SubSeq(m, k + 1, Len(m))
<1> HIDE DEF p, q
<1>4. /\ p \in Seq(S) /\ q \in Seq(S) /\ Len(p) = k - 1 /\ Len(q) = Len(m) - k
      /\ RemoveAt(m, k) = p \o q
      /\ \A i \in 1..k - 1 : p[i] = m[i]
      /\ \A i \in 1..Len(m) - k : q[i] = m[k + i]
  BY <1>2, <1>3 DEF RemoveAt, p, q
<1>5. /\ DOMAIN (p \o q) = 1..Len(p) + Len(q)
      /\ \A i \in 1..Len(p) + Len(q) : (p \o q)[i] = IF i <= Len(p) THEN p[i] ELSE q[i - Len(p)]
  BY <1>4, Concatenated
<1>6. Len(p) + Len(q) = Len(m) - 1 BY <1>1, <1>4
<1>7. ASSUME NEW i \in 1..Len(m) - 1
      PROVE  RemoveAt(m, k)[i] = IF i < k THEN m[i] ELSE m[i + 1]
  <2>1. CASE i < k
    <3>1. i \in 1..k - 1 /\ i <= Len(p) BY <1>1, <1>4, <2>1
    <3> QED BY <1>4, <1>5, <1>6, <2>1, <3>1
  <2>2. CASE ~(i < k)
    <3>1. i - Len(p) \in 1..Len(m) - k /\ ~(i <= Len(p)) /\ k + (i - Len(p)) = i + 1
      BY <1>1, <1>4, <2>2
    <3> QED BY <1>4, <1>5, <1>6, <2>2, <3>1
  <2> QED BY <2>1, <2>2
<1> QED BY <1>4, <1>5, <1>6, <1>7

LEMMA SameRemoved ==
  ASSUME NEW S, NEW m \in Seq(S), NEW k \in 1..Len(m), NEW gone,
         m[k].by # User \/ m[k].text \in gone
  PROVE  SameOthers(m, RemoveAt(m, k), gone)
<1> DEFINE n == RemoveAt(m, k)
<1>1. Len(m) \in Nat /\ DOMAIN m = 1..Len(m) /\ k \in Nat /\ k >= 1 /\ k <= Len(m)
  OBVIOUS
<1>2. /\ DOMAIN n = 1..Len(m) - 1
      /\ \A i \in 1..Len(m) - 1 : n[i] = IF i < k THEN m[i] ELSE m[i + 1]
  BY Removed
<1> HIDE DEF n
<1> DEFINE to(i) == IF i < k THEN i ELSE i - 1
           f == [i \in OthersAt(m, gone) |-> to(i)]
<1>3. ASSUME NEW i \in OthersAt(m, gone)
      PROVE  /\ i \in 1..Len(m) /\ i # k /\ to(i) \in 1..Len(m) - 1 /\ n[to(i)] = m[i]
             /\ to(i) \in OthersAt(n, gone)
  <2>1. i \in 1..Len(m) /\ i # k /\ m[i].by = User /\ m[i].text \notin gone BY <1>1 DEF OthersAt
  <2>2. to(i) \in 1..Len(m) - 1 BY <1>1, <2>1
  <2>3. n[to(i)] = m[i]
    <3>1. CASE i < k BY <1>2, <2>2, <3>1
    <3>2. CASE ~(i < k)
      <4>1. to(i) = i - 1 /\ ~(i - 1 < k) /\ (i - 1) + 1 = i BY <1>1, <2>1, <3>2
      <4> QED BY <1>2, <2>2, <4>1
    <3> QED BY <3>1, <3>2
  <2>4. to(i) \in OthersAt(n, gone) BY <1>2, <2>1, <2>2, <2>3 DEF OthersAt
  <2> QED BY <2>1, <2>2, <2>3, <2>4
<1>4. f \in [OthersAt(m, gone) -> OthersAt(n, gone)] BY <1>3
<1>5. \A i \in OthersAt(m, gone) : n[f[i]] = m[i] BY <1>3
<1>6. ASSUME NEW i \in OthersAt(m, gone), NEW j \in OthersAt(m, gone), i < j
      PROVE  f[i] < f[j]
  <2>1. i \in 1..Len(m) /\ j \in 1..Len(m) /\ i # k /\ j # k BY <1>3
  <2>2. to(i) < to(j) BY <1>1, <1>6, <2>1
  <2> QED BY <2>2
<1>7. ASSUME NEW h \in OthersAt(n, gone)
      PROVE  \E i \in OthersAt(m, gone) : f[i] = h
  <2>1. h \in 1..Len(m) - 1 /\ n[h].by = User /\ n[h].text \notin gone BY <1>2 DEF OthersAt
  <2> DEFINE from == IF h < k THEN h ELSE h + 1
  <2>2. from \in 1..Len(m) /\ to(from) = h BY <1>1, <2>1
  <2>3. m[from] = n[h] BY <1>2, <2>1
  <2>4. from \in OthersAt(m, gone) BY <1>1, <2>1, <2>2, <2>3 DEF OthersAt
  <2>5. f[from] = h BY <2>2, <2>4
  <2> QED BY <2>4, <2>5
<1> HIDE DEF f
<1>8. SameOthers(m, n, gone) BY <1>4, <1>5, <1>6, <1>7 DEF SameOthers
<1> QED BY <1>8 DEF n

\* What a step does to the memory store.
LEMMA MemoryMoves ==
  ASSUME IInv, [Next]_vars
  PROVE  \/ memory' = memory
         \/ \E e \in Entries, l \in Lessons : memory' = Append(memory, [text |-> l, by |-> e])
         \/ \E k \in 1..Len(memory) :
              memory[k].text \in BeingUndone /\ memory' = RemoveAt(memory, k)
         \/ UserEditsMemory
<1> USE DEF IInv, TypeOK
<1>1. \A x \in Edits : x.kind # "skill" => x \in MemoryEdits BY KindOK
<1> DEFINE Same == memory' = memory
           Added == \E e \in Entries, l \in Lessons :
                      memory' = Append(memory, [text |-> l, by |-> e])
           Taken == \E k \in 1..Len(memory) :
                      memory[k].text \in BeingUndone /\ memory' = RemoveAt(memory, k)
<1>2. ASSUME NEW e \in Entries, edit[e] \in Edits, WriteTo(e)
      PROVE  Same \/ Added
  <2>1. CASE edit[e].kind = "skill" BY <1>2, <2>1 DEF WriteTo
  <2>2. CASE edit[e].kind # "skill"
    <3>1. edit[e].after \in Lessons BY <1>1, <1>2, <2>2 DEF MemoryEdits
    <3>2. memory' = Append(memory, [text |-> edit[e].after, by |-> e])
      BY <1>2, <2>2 DEF WriteTo
    <3> QED BY <3>1, <3>2
  <2> QED BY <2>1, <2>2
<1>3. ASSUME NEW x \in Edits, x.kind = "memory", x.after \in BeingUndone, RemoveOwn(x)
      PROVE  Taken
  <2>1. PICK k \in Positions(x) : memory' = RemoveAt(memory, k) BY <1>3 DEF RemoveOwn
  <2>2. x.before \in Seq(Lessons \cup UserTexts)
    BY <1>1, <1>3 DEF MemoryEdits
  <2>3. Len(x.before) \in Nat /\ Len(memory) \in Nat BY <2>2 DEF HostOK
  <2>4. k \in 1..Len(memory) /\ memory[k].text = x.after BY <2>1, <2>3 DEF Positions
  <2> QED BY <1>3, <2>1, <2>4
<1>4. ASSUME NEW a \in Actors, HostWrite(a)
      PROVE  Same \/ Added
  <2>1. work[a] \in Entries /\ edit[work[a]] \in Edits
    BY <1>4 DEF HostWrite, OfWork, Mutating, Recorded, Consuming
  <2> HIDE DEF Added
  <2> QED BY <1>2, <1>4, <2>1 DEF HostWrite, hostVars
<1>5. ASSUME NEW a \in Actors, HostUndo(a)
      PROVE  Same \/ Taken
  <2>1. /\ work[a] \in Entries /\ edit[work[a]] \in Edits
        /\ outcome[work[a]] = "rollback_prepared"
    BY <1>5 DEF HostUndo, OfWork, Reversing, Recorded, Consuming
  <2>2. edit[work[a]].kind = "memory" => edit[work[a]].after \in BeingUndone
    BY <2>1 DEF BeingUndone
  <2> HIDE DEF Taken
  <2> QED BY <1>3, <1>5, <2>1, <2>2 DEF HostUndo, Restore, hostVars
<1>6. ASSUME NEW r \in queue, Approve(r)
      PROVE  Same \/ Added
  <2>1. r[1] \in Entries /\ edit[r[1]] \in Edits BY <1>6 DEF HostOK, Recorded
  <2> HIDE DEF Added
  <2> QED BY <1>2, <1>6, <2>1 DEF Approve, Restore
<1>7. ASSUME NEW a \in Actors, StartPass(a) \/ Propose(a) \/ GiveUp(a) \/ Admit(a)
                                \/ BudgetRefused(a) \/ Refuse(a) \/ Check(a) \/ Prepare(a)
                                \/ PrepareFails(a)
      PROVE  Same
  BY <1>7 DEF StartPass, Propose, GiveUp, Admit, BudgetRefused, Refuse, Check, Prepare,
              PrepareFails, hostVars
<1>8. ASSUME NEW a \in Actors, FinishEdit(a) \/ Intend(a) \/ RollbackRefused(a)
                                \/ FinishRollback(a) \/ Crash(a)
                                \/ \E e \in Entries : StartRollback(a, e)
      PROVE  Same
  BY <1>8 DEF FinishEdit, Intend, RollbackRefused, FinishRollback, Crash, StartRollback,
              hostVars
<1>9. ASSUME \/ \E r \in queue : Deny(r)
             \/ \E s \in Skills : UserEditsSkill(s)
             \/ \E e \in Entries : Age(e)
             \/ Midnight
             \/ UNCHANGED vars
      PROVE  Same
  BY <1>9 DEF Deny, UserEditsSkill, Age, Midnight, vars, hostVars
<1> HIDE DEF Same, Added, Taken
<1>10. Same \/ Added \/ Taken \/ UserEditsMemory
  BY <1>4, <1>5, <1>6, <1>7, <1>8, <1>9 DEF Next, Step
<1> QED BY <1>10 DEF Same, Added, Taken

\* The memory entries others wrote survive every pass, approval, rollback and crash, in their
\* order, except that a rollback takes out one entry that reads like its lesson: the first
\* match after the recorded prefix, whoever wrote it (rollback_memory).
THEOREM OthersAreKept == Spec => OthersMemoryKept
<1>1. IInv /\ [Next]_vars
        => [userEdits' = userEdits => /\ SameOthers(memory, memory', BeingUndone)
                                      /\ Len(memory) <= Len(memory') + 1]_vars
  <2> SUFFICES ASSUME IInv, [Next]_vars, userEdits' = userEdits
               PROVE  /\ SameOthers(memory, memory', BeingUndone)
                      /\ Len(memory) <= Len(memory') + 1
    OBVIOUS
  <2>0. memory \in Seq(Items) /\ Len(memory) \in Nat /\ userEdits \in Nat
    BY DEF IInv, TypeOK, HostOK
  <2>1. CASE memory' = memory BY <2>0, <2>1, SameStays
  <2>2. ASSUME NEW e \in Entries, NEW l \in Lessons,
               memory' = Append(memory, [text |-> l, by |-> e])
        PROVE  /\ SameOthers(memory, memory', BeingUndone)
               /\ Len(memory) <= Len(memory') + 1
    <3>1. [text |-> l, by |-> e] \in Items BY DEF Items
    <3>2. [text |-> l, by |-> e].by # User BY NameAssumption
    <3> QED BY <2>0, <2>2, <3>1, <3>2, SameAppended
  <2>3. ASSUME NEW k \in 1..Len(memory), memory[k].text \in BeingUndone,
               memory' = RemoveAt(memory, k)
        PROVE  /\ SameOthers(memory, memory', BeingUndone)
               /\ Len(memory) <= Len(memory') + 1
    <3>1. SameOthers(memory, memory', BeingUndone) BY <2>0, <2>3, SameRemoved
    <3>2. RemoveAt(memory, k) \in Seq(Items) BY <2>0, RemoveOK
    <3>3. DOMAIN memory' = 1..Len(memory) - 1 BY <2>0, <2>3, Removed
    <3>4. Len(memory') \in Nat /\ DOMAIN memory' = 1..Len(memory') BY <2>3, <3>2
    <3>5. \A x, y \in Nat : x > 0 /\ 1..x - 1 = 1..y => x <= y + 1
      <4> SUFFICES ASSUME NEW x \in Nat, NEW y \in Nat, x > 0, 1..x - 1 = 1..y
                   PROVE  x <= y + 1
        OBVIOUS
      <4>1. x = 1 \/ x - 1 \in 1..x - 1 OBVIOUS
      <4> QED BY <4>1
    <3>6. Len(memory) > 0 BY <2>0
    <3>7. Len(memory) <= Len(memory') + 1 BY <2>0, <3>3, <3>4, <3>5, <3>6
    <3> QED BY <3>1, <3>7
  <2>4. CASE UserEditsMemory BY <2>0, <2>4 DEF UserEditsMemory
  <2> QED BY <2>1, <2>2, <2>3, <2>4, MemoryMoves
<1>2. Spec => []IInv BY Invariance
<1> QED BY <1>1, <1>2, PTL DEF Spec, OthersMemoryKept
=============================================================================
