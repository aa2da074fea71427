--------------------------- MODULE JournalLifecycle ---------------------------
(***************************************************************************)
(* What the refine journal promises of its records, whoever writes them    *)
(* and whatever the host does: a record moves only along the declared      *)
(* transitions, an ended one never moves, and the records that hold a slot *)
(* of a day's budget never outnumber it (journal._JOURNAL_TRANSITIONS,     *)
(* journal.count_today_applied).                                           *)
(***************************************************************************)
EXTENDS Naturals, FiniteSets

CONSTANTS Entries,     \* journal ids
          Days,        \* the days (UTC) records are counted by
          MaxPerDay    \* max_edits_per_day

VARIABLES outcome,     \* of each record, "none" before it is written
          day,         \* the day of each record's timestamp
          today

Outcomes == {"none", "prepared", "pending_approval", "applied", "rollback_prepared",
             "pending_rollback", "rolled_back", "rejected", "error", "conflict",
             "evidence_invalidated"}

\* What a pass that mutates nothing may record.
Refusals == {"rejected", "error", "conflict", "evidence_invalidated"}

\* The transitions of a record that has one, without session cleanup's.
Transitions ==
  [o \in Outcomes |->
     CASE o = "prepared" -> {"applied", "error", "pending_approval"}
       [] o = "pending_approval" -> {"applied", "rejected"}
       [] o = "applied" -> {"rollback_prepared"}
       [] o = "rollback_prepared" -> {"pending_rollback", "rolled_back", "applied"}
       [] o = "pending_rollback" -> {"rolled_back", "applied"}
       [] OTHER -> {}]

\* The outcomes that hold a slot of their day's budget.
Consuming == {"prepared", "pending_approval", "applied", "rollback_prepared",
              "pending_rollback"}

Consumed(d) == {e \in Entries : outcome[e] \in Consuming /\ day[e] = d}

Init ==
  /\ outcome = [e \in Entries |-> "none"]
  /\ day = [e \in Entries |-> 0]
  /\ today \in Days

\* A pass reserves a slot of today's budget before it touches the host.
Reserve(e) ==
  /\ outcome[e] = "none"
  /\ Cardinality(Consumed(today)) < MaxPerDay
  /\ outcome' = [outcome EXCEPT ![e] = "prepared"]
  /\ day' = [day EXCEPT ![e] = today]
  /\ UNCHANGED today

\* A pass records that it was refused; no slot is held.
Refuse(e) ==
  /\ outcome[e] = "none"
  /\ \E o \in Refusals : outcome' = [outcome EXCEPT ![e] = o]
  /\ day' = [day EXCEPT ![e] = today]
  /\ UNCHANGED today

\* Any number of records move on, one transition each.
Advance ==
  /\ outcome' \in [Entries -> Outcomes]
  /\ \A e \in Entries :
       outcome'[e] = outcome[e] \/ outcome'[e] \in Transitions[outcome[e]]
  /\ UNCHANGED <<day, today>>

\* Midnight.
Turn == /\ today' \in Days
        /\ UNCHANGED <<outcome, day>>

Next == \/ \E e \in Entries : Reserve(e) \/ Refuse(e)
        \/ Advance
        \/ Turn

Spec == Init /\ [][Next]_<<outcome, day, today>>
=============================================================================
