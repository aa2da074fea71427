--------------------------- MODULE RefinePassProofs ---------------------------
(***************************************************************************)
(* Theorems about RefinePass for any number of runs and any budgets, and   *)
(* about Proposer for any patches and fingerprints.                        *)
(*                                                                         *)
(* A step appends rows of its own run and pass and leaves the other runs   *)
(* alone.  An edit is made by the holder of the lock only, and the budget  *)
(* was read under that lock; a model is asked only by a pass that came     *)
(* past the ceiling, and it is still on its way or has a row.  The report  *)
(* of a run is what its passes made, in order, because it writes the rows  *)
(* of one pass after those of another.                                     *)
(***************************************************************************)
EXTENDS RefinePass, Proposer, FiniteSetTheorems, TLAPS

Stages == {"called", "between", "gates", "collected", "versioned", "reviewing", "asking",
           "waiting", "applying", "stopped", "ended"}
Locked == {"applying", "stopped"}

RowRecords == [run : Runs, pass : Nat \ {0}, index : Nat,
               outcome : ConsumedOutcomes \cup {NoEditMade},
               counts : BOOLEAN, size : Nat]

PassTypes ==
  /\ stage \in [Runs -> Stages]
  /\ pass \in [Runs -> Nat \ {0}] /\ next \in [Runs -> Nat \ {0}]
  /\ plan \in [Runs -> Seq(PlanEdits)]
  /\ rows \in Seq(RowRecords)
  /\ holder \in Runs \cup {NoRun}

-----------------------------------------------------------------------------
(* Sequences of rows. *)

LEMMA Joined ==
  ASSUME NEW S, NEW q \in Seq(S), NEW n \in Seq(S)
  PROVE  /\ q \o n \in Seq(S) /\ Len(q \o n) = Len(q) + Len(n)
         /\ DOMAIN (q \o n) = 1..Len(q) + Len(n)
         /\ \A i \in 1..Len(q) : (q \o n)[i] = q[i]
         /\ \A k \in 1..Len(n) : (q \o n)[Len(q) + k] = n[k]
OBVIOUS

LEMMA OneMore ==
  ASSUME NEW S, NEW q \in Seq(S), NEW x \in S
  PROVE  Append(q, x) = q \o <<x>> /\ <<x>> \in Seq(S)
OBVIOUS

LEMMA AllButLast ==
  ASSUME NEW S, NEW q \in Seq(S), q # <<>>
  PROVE  /\ Front(q) \in Seq(S) /\ Len(Front(q)) = Len(q) - 1
         /\ \A i \in 1..Len(q) - 1 : Front(q)[i] = q[i]
BY DEF Front

LEMMA NewRow ==
  ASSUME PassTypes, NEW r \in Runs, NEW i \in Nat, NEW outcome \in ConsumedOutcomes \cup {NoEditMade},
         NEW counts \in BOOLEAN
  PROVE  Row(r, i, outcome, counts) \in RowRecords
<1>1. pass[r] \in Nat \ {0} /\ Len(plan[r]) \in Nat BY DEF PassTypes
<1>2. QED BY <1>1 DEF Row, RowRecords

\* New rows of this run and pass.
News(r, new) ==
  /\ new \in Seq(RowRecords) /\ rows' = rows \o new
  /\ \A k \in 1..Len(new) : new[k].run = r /\ new[k].pass = pass[r]

\* Rows that record no edit.
Silent(new) == \A k \in 1..Len(new) : new[k].outcome = NoEditMade

LEMMA Recorded ==
  ASSUME PassTypes, NEW r \in Runs, NEW i \in Nat, NEW counts \in BOOLEAN,
         Record(r, Row(r, i, NoEditMade, counts))
  PROVE  \E new : /\ News(r, new) /\ Silent(new)
                  /\ \/ new = <<Row(r, i, NoEditMade, counts)>> /\ UNCHANGED lost
                     \/ /\ new = <<>>
                        /\ lost' = IF counts THEN lost \cup {<<r, pass[r]>>} ELSE lost
<1> DEFINE row == Row(r, i, NoEditMade, counts)
<1>1. /\ row \in RowRecords /\ row.run = r /\ row.pass = pass[r] /\ row.outcome = NoEditMade
      /\ row.counts = counts
  BY NewRow DEF Row
<1> HIDE DEF row
<1>2. rows \in Seq(RowRecords) BY DEF PassTypes
<1>3. CASE rows' = Append(rows, row) /\ UNCHANGED lost
  <2>1. News(r, <<row>>) /\ Silent(<<row>>) BY <1>1, <1>2, <1>3, OneMore DEF News, Silent
  <2>2. QED BY <1>3, <2>1 DEF row
<1>4. CASE rows' = rows /\ lost' = IF counts THEN lost \cup {<<r, pass[r]>>} ELSE lost
  <2>1. News(r, <<>>) /\ Silent(<<>>) BY <1>2, <1>4 DEF News, Silent
  <2>2. QED BY <1>4, <2>1
<1>5. QED BY <1>1, <1>3, <1>4 DEF Record, row

LEMMA AllRecorded ==
  ASSUME PassTypes, NEW r \in Runs, NEW newRows, RecordAll(r, newRows),
         newRows \in Seq(RowRecords), Silent(newRows),
         \A k \in 1..Len(newRows) : newRows[k].run = r /\ newRows[k].pass = pass[r]
  PROVE  \E new : /\ News(r, new) /\ Silent(new)
                  /\ \/ new = newRows /\ UNCHANGED lost
                     \/ /\ newRows # <<>> /\ new = Front(newRows)
                        /\ lost' = lost \cup {<<r, pass[r]>>}
<1>1. CASE rows' = rows \o newRows /\ UNCHANGED lost
  BY <1>1 DEF News
<1>2. CASE /\ newRows # <<>> /\ rows' = rows \o Front(newRows)
           /\ lost' = lost \cup {<<r, pass[r]>>}
  <2>1. /\ Front(newRows) \in Seq(RowRecords) /\ Len(Front(newRows)) = Len(newRows) - 1
        /\ \A k \in 1..Len(newRows) - 1 : Front(newRows)[k] = newRows[k]
    BY <1>2, AllButLast
  <2>2. \A k \in 1..Len(newRows) - 1 : k \in 1..Len(newRows) OBVIOUS
  <2>3. News(r, Front(newRows)) BY <1>2, <2>1, <2>2 DEF News
  <2>4. Silent(Front(newRows)) BY <2>1, <2>2 DEF Silent
  <2>5. QED BY <1>2, <2>3, <2>4
<1>3. QED BY <1>1, <1>2 DEF RecordAll

\* Rows of edits that are not made, one after the other.
LEMMA RowsInOrder ==
  ASSUME PassTypes, NEW r \in Runs, NEW n \in Nat, NEW new, new \in [1..n -> RowRecords],
         \A k \in 1..n : \E i \in Nat : new[k] = Row(r, i, NoEditMade, TRUE)
  PROVE  /\ new \in Seq(RowRecords) /\ Len(new) = n /\ Silent(new)
         /\ \A k \in 1..n : new[k].run = r /\ new[k].pass = pass[r] /\ new[k].counts
<1>1. ASSUME NEW k \in 1..n
      PROVE  /\ new[k].outcome = NoEditMade
             /\ new[k].run = r /\ new[k].pass = pass[r] /\ new[k].counts
  BY DEF Row
<1>2. new \in Seq(RowRecords) /\ Len(new) = n OBVIOUS
<1>3. QED BY <1>1, <1>2 DEF Silent

\* The rows of a transaction that is refused as a whole.
LEMMA RefusedRows ==
  ASSUME PassTypes, NEW r \in Runs
  PROVE  /\ WholeRows(r) \in Seq(RowRecords) /\ Len(WholeRows(r)) > 0 /\ Silent(WholeRows(r))
         /\ \A k \in 1..Len(WholeRows(r)) :
              /\ WholeRows(r)[k].run = r /\ WholeRows(r)[k].pass = pass[r]
              /\ WholeRows(r)[k].counts
         /\ plan[r] = <<>> => WholeRows(r) = <<Row(r, 0, NoEditMade, TRUE)>>
         /\ plan[r] # <<>> =>
              /\ Len(WholeRows(r)) = Len(plan[r])
              /\ \A k \in 1..Len(plan[r]) : WholeRows(r)[k] = Row(r, k, NoEditMade, TRUE)
<1> DEFINE rs == WholeRows(r)
           row == Row(r, 0, NoEditMade, TRUE)
<1>2. CASE plan[r] = <<>>
  <2>1. rs = <<row>> BY <1>2 DEF WholeRows
  <2>2. row \in RowRecords BY NewRow
  <2>3. row.run = r /\ row.pass = pass[r] /\ row.counts /\ row.outcome = NoEditMade
    BY DEF Row
  <2> HIDE DEF row, rs
  <2>4. /\ rs \in Seq(RowRecords) /\ Len(rs) = 1 /\ rs[1] = row
    BY <2>1, <2>2
  <2>5. /\ rs \in Seq(RowRecords) /\ Len(rs) > 0 /\ Silent(rs)
        /\ \A k \in 1..Len(rs) : rs[k].run = r /\ rs[k].pass = pass[r] /\ rs[k].counts
    BY <2>3, <2>4 DEF Silent
  <2>6. QED BY <1>2, <2>1, <2>5 DEF row, rs
<1>3. CASE plan[r] # <<>>
  <2>1. /\ Len(plan[r]) \in Nat \ {0} /\ DOMAIN plan[r] = 1..Len(plan[r])
    BY <1>3 DEF PassTypes
  <2>2. rs = [i \in 1..Len(plan[r]) |-> Row(r, i, NoEditMade, TRUE)]
    BY <1>3, <2>1 DEF WholeRows
  <2>3. \A k \in 1..Len(plan[r]) : Row(r, k, NoEditMade, TRUE) \in RowRecords
    <3>1. \A k \in 1..Len(plan[r]) : k \in Nat BY <2>1
    <3>2. QED BY <3>1, NewRow
  <2> HIDE DEF rs
  <2>4. /\ rs \in [1..Len(plan[r]) -> RowRecords]
        /\ \A k \in 1..Len(plan[r]) : rs[k] = Row(r, k, NoEditMade, TRUE)
    BY <2>2, <2>3
  <2>5. /\ Len(plan[r]) \in Nat
        /\ \A k \in 1..Len(plan[r]) : \E i \in Nat : rs[k] = Row(r, i, NoEditMade, TRUE)
    <3>1. Len(plan[r]) \in Nat /\ \A k \in 1..Len(plan[r]) : k \in Nat BY <2>1
    <3>2. QED BY <2>4, <3>1
  <2>6. /\ rs \in Seq(RowRecords) /\ Len(rs) = Len(plan[r]) /\ Silent(rs)
        /\ \A k \in 1..Len(plan[r]) :
             rs[k].run = r /\ rs[k].pass = pass[r] /\ rs[k].counts
    BY <2>4, <2>5, RowsInOrder
  <2>7. Len(rs) > 0 BY <2>1, <2>6
  <2>8. QED BY <1>3, <2>4, <2>6, <2>7 DEF rs
<1>4. QED BY <1>2, <1>3

\* The rows of the edits that were never tried.
LEMMA UntriedRows ==
  ASSUME PassTypes, NEW r \in Runs
  PROVE  /\ Unattempted(r) \in Seq(RowRecords) /\ Silent(Unattempted(r))
         /\ \A k \in 1..Len(Unattempted(r)) :
              /\ Unattempted(r)[k].run = r /\ Unattempted(r)[k].pass = pass[r]
              /\ Unattempted(r)[k].counts
         /\ next[r] <= Len(plan[r]) + 1 =>
              /\ Len(Unattempted(r)) = Len(plan[r]) + 1 - next[r]
              /\ \A k \in 1..Len(Unattempted(r)) :
                   Unattempted(r)[k] = Row(r, next[r] - 1 + k, NoEditMade, TRUE)
<1> DEFINE c == Cardinality(Rest(r))
           l == Len(plan[r])
           rs == Unattempted(r)
<1>1. /\ l \in Nat /\ DOMAIN plan[r] = 1..l /\ next[r] \in Nat \ {0}
  BY DEF PassTypes
<1>2. c = IF next[r] > l THEN 0 ELSE l - next[r] + 1
  <2>1. Rest(r) = next[r]..l BY <1>1 DEF Rest
  <2>2. next[r] \in Int /\ l \in Int BY <1>1
  <2> HIDE DEF l
  <2>3. QED BY <2>1, <2>2, FS_Interval
<1>3. rs = [k \in 1..c |-> Row(r, l - c + k, NoEditMade, TRUE)] BY DEF Unattempted
<1> HIDE DEF c, l, rs
<1>5. c \in Nat /\ l - c \in Nat /\ (next[r] <= l + 1 => c = l + 1 - next[r] /\ l - c = next[r] - 1)
  BY <1>1, <1>2
<1>6. \A k \in 1..c : Row(r, l - c + k, NoEditMade, TRUE) \in RowRecords
  <2>1. \A k \in 1..c : l - c + k \in Nat BY <1>5
  <2>2. QED BY <2>1, NewRow
<1>7. /\ rs \in [1..c -> RowRecords]
      /\ \A k \in 1..c : rs[k] = Row(r, l - c + k, NoEditMade, TRUE)
  BY <1>3, <1>6
<1>8. /\ rs \in Seq(RowRecords) /\ Len(rs) = c /\ Silent(rs)
      /\ \A k \in 1..c : rs[k].run = r /\ rs[k].pass = pass[r] /\ rs[k].counts
  <2>1. \A k \in 1..c : l - c + k \in Nat BY <1>5
  <2>2. \A k \in 1..c : \E i \in Nat : rs[k] = Row(r, i, NoEditMade, TRUE) BY <1>7, <2>1
  <2>3. QED BY <1>5, <1>7, <2>2, RowsInOrder
<1>9. QED BY <1>5, <1>7, <1>8 DEF l, rs

-----------------------------------------------------------------------------
(* What a step does to the runs. *)

\* Where a run may be before it waits for the lock.
Early == Stages \ {"waiting", "applying", "stopped", "ended"}

\* The steps of a pass before it has edits to make.
EarlyStep(r) ==
  \/ Begin(r) \/ NextPass(r) \/ NoPlace(r)
  \/ RefusePass(r) \/ LimitRefused(r) \/ NoEvidence(r) \/ CollectEvidence(r) \/ CaptureRevision(r)
  \/ FindSignal(r) \/ NothingToOffer(r) \/ Review(r) \/ AskedAndOver(r) \/ StrictFails(r)
  \/ AnswerIsPlan(r)

\* A run goes somewhere and the others stay.
Moved(r, where) ==
  /\ stage' = [stage EXCEPT ![r] = where]
  /\ plan' \in [Runs -> Seq(PlanEdits)] /\ next' \in [Runs -> Nat \ {0}]
  /\ \A q \in Runs \ {r} : plan'[q] = plan[q] /\ next'[q] = next[q]

\* A row, of no edit of a plan, or none.
OneRow(r) ==
  \E new : /\ News(r, new) /\ Silent(new)
           /\ new = <<>> \/ \E counts \in BOOLEAN : new = <<Row(r, 0, NoEditMade, counts)>>

LEMMA NothingNew ==
  ASSUME PassTypes, NEW r \in Runs, UNCHANGED rows
  PROVE  OneRow(r)
<1>1. rows \in Seq(RowRecords) BY DEF PassTypes
<1>2. News(r, <<>>) /\ Silent(<<>>) BY <1>1 DEF News, Silent
<1>3. QED BY <1>2 DEF OneRow

LEMMA OneRecorded ==
  ASSUME PassTypes, NEW r \in Runs, NEW counts \in BOOLEAN,
         Record(r, Row(r, 0, NoEditMade, counts))
  PROVE  OneRow(r)
<1>1. 0 \in Nat OBVIOUS
<1>2. QED BY <1>1, Recorded DEF OneRow

LEMMA Stayed ==
  ASSUME PassTypes, NEW r \in Runs, NEW where, Goes(r, where), UNCHANGED <<plan, next>>
  PROVE  Moved(r, where)
BY DEF PassTypes, Moved, Goes

LEMMA Forgot ==
  ASSUME PassTypes, NEW r \in Runs, NEW where, Goes(r, where), Forget(r)
  PROVE  Moved(r, where) /\ plan'[r] = <<>> /\ next'[r] = 1
<1>1. <<>> \in Seq(PlanEdits) /\ 1 \in Nat \ {0} OBVIOUS
<1>2. plan' = [plan EXCEPT ![r] = <<>>] /\ next' = [next EXCEPT ![r] = 1] BY DEF Forget
<1>3. QED BY <1>1, <1>2 DEF PassTypes, Moved, Goes

LEMMA EarlyEffect ==
  ASSUME PassTypes, NEW r \in Runs, EarlyStep(r)
  PROVE  /\ stage[r] \in Early /\ UNCHANGED <<pass, holder, report>> /\ OneRow(r)
         /\ \E where \in Early \cup {"waiting", "ended"} :
              Moved(r, where) /\ (where = "waiting" => next'[r] = 1)
<1>1. CASE Begin(r) \/ NextPass(r) \/ CollectEvidence(r) \/ FindSignal(r)
  <2>1. \E where \in Early \cup {"ended"} : Goes(r, where)
    BY <1>1 DEF Begin, NextPass, CollectEvidence, FindSignal, Early, Stages
  <2>2. UNCHANGED <<pass, holder, report, rows, plan, next>> /\ stage[r] \in Early
    BY <1>1 DEF Begin, NextPass, CollectEvidence, FindSignal, Locals, Planned, Early, Stages
  <2>3. OneRow(r) BY <2>2, NothingNew
  <2>4. "waiting" \notin Early \cup {"ended"} BY DEF Early
  <2>5. QED BY <2>1, <2>2, <2>3, <2>4, Stayed
<1>2. CASE /\ Ends(r) /\ stage[r] \in Early /\ UNCHANGED <<pass, holder, report>>
           /\ UNCHANGED rows \/ \E counts \in BOOLEAN : Record(r, Row(r, 0, NoEditMade, counts))
  <2>1. Moved(r, "ended") BY <1>2, Forgot DEF Ends
  <2>2. OneRow(r) BY <1>2, NothingNew, OneRecorded
  <2>3. QED BY <1>2, <2>1, <2>2
<1>3. CASE NoPlace(r) \/ RefusePass(r) \/ LimitRefused(r) \/ NoEvidence(r) \/ NothingToOffer(r)
           \/ AskedAndOver(r)
  <2>1. Ends(r) /\ stage[r] \in Early /\ UNCHANGED <<pass, holder, report>>
    BY <1>3 DEF NoPlace, RefusePass, LimitRefused, NoEvidence, NothingToOffer, AskedAndOver, Early,
                Stages
  <2>2. UNCHANGED rows \/ \E counts \in BOOLEAN : Record(r, Row(r, 0, NoEditMade, counts))
    BY <1>3 DEF NoPlace, RefusePass, LimitRefused, NoEvidence, NothingToOffer, AskedAndOver
  <2>3. QED BY <1>2, <2>1, <2>2
<1>4. CASE CaptureRevision(r)
  <2>1. stage[r] \in Early /\ UNCHANGED <<pass, holder, report>>
    BY <1>4 DEF CaptureRevision, Early, Stages
  <2>2. CASE Goes(r, "versioned") /\ UNCHANGED <<plan, next, rows>>
    <3>1. Moved(r, "versioned") /\ OneRow(r) BY <2>2, Stayed, NothingNew
    <3>2. QED BY <2>1, <3>1 DEF Early, Stages
  <2>3. CASE Ends(r) /\ Record(r, Row(r, 0, NoEditMade, FALSE))
    BY <1>2, <2>1, <2>3
  <2>4. QED BY <1>4, <2>2, <2>3 DEF CaptureRevision
<1>5. CASE Review(r)
  <2>1. stage[r] \in Early /\ UNCHANGED <<pass, holder, report>>
        /\ Record(r, Row(r, 0, NoEditMade, TRUE))
    BY <1>5 DEF Review, Early, Stages
  <2>2. CASE Goes(r, "asking") /\ UNCHANGED Planned
    <3>1. Moved(r, "asking") BY <2>2, Stayed DEF Planned
    <3>2. OneRow(r) BY <2>1, OneRecorded
    <3>3. QED BY <2>1, <3>1, <3>2 DEF Early, Stages
  <2>3. CASE Ends(r)
    BY <1>2, <2>1, <2>3
  <2>4. QED BY <1>5, <2>2, <2>3 DEF Review
<1>6. CASE AnswerIsPlan(r)
  <2>1. /\ stage[r] \in Early /\ UNCHANGED <<pass, holder, report, rows>>
        /\ Goes(r, "waiting") /\ next' = [next EXCEPT ![r] = 1]
        /\ \E p \in Plans : plan' = [plan EXCEPT ![r] = p]
    BY <1>6 DEF AnswerIsPlan, Early, Stages
  <2>2. \A p \in Plans : p \in Seq(PlanEdits) BY DEF Plans
  <2>3. Moved(r, "waiting") /\ next'[r] = 1 BY <2>1, <2>2 DEF PassTypes, Moved, Goes
  <2>4. OneRow(r) BY <2>1, NothingNew
  <2>5. QED BY <2>1, <2>3, <2>4
<1>7. CASE StrictFails(r)
  <2> DEFINE row == Row(r, 0, NoEditMade, FALSE)
  <2>1. /\ stage[r] \in Early /\ UNCHANGED <<pass, holder, report>> /\ Ends(r)
        /\ rows' = Append(rows, row) \/ UNCHANGED rows
    BY <1>7 DEF StrictFails, Early, Stages
  <2>2. Moved(r, "ended") BY <2>1, Forgot DEF Ends
  <2>3. ASSUME rows' = Append(rows, row) PROVE OneRow(r)
    <3>1. 0 \in Nat /\ rows \in Seq(RowRecords) BY DEF PassTypes
    <3>2. row \in RowRecords BY <3>1, NewRow
    <3>3. row.run = r /\ row.pass = pass[r] /\ row.outcome = NoEditMade BY DEF Row
    <3>4. rows' = Append(rows, row) BY <2>3
    <3>5. \E counts \in BOOLEAN : <<row>> = <<Row(r, 0, NoEditMade, counts)>> OBVIOUS
    <3> HIDE DEF row
    <3>6. News(r, <<row>>) /\ Silent(<<row>>)
      BY <3>1, <3>2, <3>3, <3>4, OneMore DEF News, Silent
    <3>7. QED BY <3>5, <3>6 DEF OneRow
  <2>4. OneRow(r) BY <2>1, <2>3, NothingNew
  <2>5. QED BY <2>1, <2>2, <2>4
<1>8. QED BY <1>1, <1>3, <1>4, <1>5, <1>6, <1>7 DEF EarlyStep

\* A plan that is not carried out.
LEMMA DroppedEffect ==
  ASSUME PassTypes, NEW r \in Runs, LosePlace(r) \/ RefuseTransaction(r)
  PROVE  /\ stage[r] = "waiting" /\ UNCHANGED <<pass, holder, report>> /\ Moved(r, "ended")
         /\ \/ UNCHANGED rows
            \/ Record(r, Row(r, 0, NoEditMade, TRUE))
            \/ RecordAll(r, WholeRows(r))
         /\ \E new : News(r, new) /\ Silent(new)
<1>1. stage[r] = "waiting" /\ UNCHANGED <<pass, holder, report>> /\ Ends(r)
  BY DEF LosePlace, RefuseTransaction
<1>2. Moved(r, "ended") BY <1>1, Forgot DEF Ends
<1>3. \/ UNCHANGED rows
      \/ Record(r, Row(r, 0, NoEditMade, TRUE))
      \/ RecordAll(r, WholeRows(r))
  BY DEF LosePlace, RefuseTransaction
<1>4. \E new : News(r, new) /\ Silent(new)
  <2>1. CASE UNCHANGED rows \/ Record(r, Row(r, 0, NoEditMade, TRUE))
    BY <2>1, NothingNew, OneRecorded DEF OneRow
  <2>2. CASE RecordAll(r, WholeRows(r))
    <3> DEFINE rs == WholeRows(r)
    <3>1. /\ rs \in Seq(RowRecords) /\ Silent(rs)
          /\ \A k \in 1..Len(rs) : rs[k].run = r /\ rs[k].pass = pass[r]
      BY RefusedRows
    <3>2. RecordAll(r, rs) BY <2>2
    <3> HIDE DEF rs
    <3>3. QED BY <3>1, <3>2, AllRecorded
  <2>3. QED BY <1>3, <2>1, <2>2
<1>5. QED BY <1>1, <1>2, <1>3, <1>4

LEMMA TakeLockEffect ==
  ASSUME PassTypes, NEW r \in Runs, TakeLock(r)
  PROVE  /\ stage[r] = "waiting" /\ holder = NoRun /\ holder' = r /\ Moved(r, "applying")
         /\ UNCHANGED <<pass, plan, next, rows, report, reached, lost>>
<1>1. Goes(r, "applying") /\ UNCHANGED <<pass, plan, next, rows, report, reached, lost>>
  BY DEF TakeLock, Locals, Planned
<1>2. QED BY <1>1, Stayed DEF TakeLock

LEMMA EditFailsEffect ==
  ASSUME PassTypes, NEW r \in Runs, EditFails(r)
  PROVE  /\ stage[r] = "applying" /\ next[r] <= Len(plan[r]) /\ Moved(r, "stopped")
         /\ next'[r] = next[r] + 1
         /\ UNCHANGED <<pass, plan, holder, report, reached>>
         /\ Record(r, Row(r, next[r], NoEditMade, TRUE))
<1>1. /\ Goes(r, "stopped") /\ next' = [next EXCEPT ![r] = next[r] + 1]
      /\ UNCHANGED <<pass, plan, holder, report, reached>>
  BY DEF EditFails, PassTypes
<1>2. next[r] \in Nat \ {0} /\ next[r] + 1 \in Nat \ {0} BY DEF PassTypes
<1>3. Moved(r, "stopped") /\ next'[r] = next[r] + 1 BY <1>1, <1>2 DEF PassTypes, Moved, Goes
<1>4. QED BY <1>1, <1>3 DEF EditFails, Due

LEMMA EditMadeEffect ==
  ASSUME PassTypes, NEW r \in Runs, EditMade(r)
  PROVE  /\ Due(r) /\ stage[r] = "applying" /\ next[r] <= Len(plan[r])
         /\ next'[r] = next[r] + 1
         /\ UNCHANGED <<pass, plan, holder, report, reached, lost>>
         /\ \E where \in Locked, outcome \in ConsumedOutcomes :
              /\ Moved(r, where) /\ (outcome = "success" <=> where = "applying")
              /\ rows' = Append(rows, Row(r, next[r], outcome, TRUE))
              /\ Row(r, next[r], outcome, TRUE) \in RowRecords
<1>1. /\ next' = [next EXCEPT ![r] = next[r] + 1]
      /\ UNCHANGED <<pass, plan, holder, report, reached, lost>>
  BY DEF EditMade, PassTypes
<1>2. next[r] \in Nat /\ next[r] \in Nat \ {0} /\ next[r] + 1 \in Nat \ {0} BY DEF PassTypes
<1>3. \E where \in Locked, outcome \in ConsumedOutcomes :
        /\ Goes(r, where) /\ (outcome = "success" <=> where = "applying")
        /\ rows' = Append(rows, Row(r, next[r], outcome, TRUE))
  BY DEF EditMade, Locked, ConsumedOutcomes
<1>4. ASSUME NEW where, Goes(r, where) PROVE Moved(r, where)
  BY <1>1, <1>2, <1>4 DEF PassTypes, Moved, Goes
<1>5. \A outcome \in ConsumedOutcomes : Row(r, next[r], outcome, TRUE) \in RowRecords
  BY <1>2, NewRow
<1>6. next'[r] = next[r] + 1 BY <1>1 DEF PassTypes
<1>7. QED BY <1>1, <1>3, <1>4, <1>5, <1>6 DEF EditMade, Due

LEMMA ConcludeEffect ==
  ASSUME PassTypes, NEW r \in Runs, Conclude(r)
  PROVE  /\ stage[r] \in Locked /\ holder' = NoRun /\ UNCHANGED reached
         /\ RecordAll(r, Unattempted(r))
         /\ \/ Moved(r, "ended") /\ UNCHANGED pass
            \/ Moved(r, "between") /\ pass' = [pass EXCEPT ![r] = pass[r] + 1]
         /\ \E new : News(r, new) /\ Silent(new)
<1>1. \/ Goes(r, "ended") /\ UNCHANGED pass
      \/ Goes(r, "between") /\ pass' = [pass EXCEPT ![r] = pass[r] + 1]
  BY DEF Conclude
<1>2. Forget(r) /\ RecordAll(r, Unattempted(r)) /\ stage[r] \in Locked /\ holder' = NoRun
      /\ UNCHANGED reached
  BY DEF Conclude, Locked
<1>3. \E new : News(r, new) /\ Silent(new) BY <1>2, UntriedRows, AllRecorded
<1>4. QED BY <1>1, <1>2, <1>3, Forgot

LEMMA StepKinds ==
  ASSUME NEW r \in Runs, RunStep(r)
  PROVE  \/ EarlyStep(r) \/ LosePlace(r) \/ RefuseTransaction(r) \/ TakeLock(r)
         \/ EditFails(r) \/ EditMade(r) \/ Conclude(r)
BY DEF RunStep, EarlyStep, AnswerFails, Preview, EvidenceRefused

\* What a step may do, whichever it is: the other runs stay where they are, and the new rows
\* are its own.
LEMMA StepEffect ==
  ASSUME PassTypes, NEW r \in Runs, RunStep(r)
  PROVE  /\ PassTypes'
         /\ \E new : News(r, new) /\ (Silent(new) \/ EditMade(r))
         /\ \A q \in Runs \ {r} : /\ stage'[q] = stage[q] /\ pass'[q] = pass[q]
                                 /\ plan'[q] = plan[q] /\ next'[q] = next[q]
         /\ lost \subseteq lost'
<1>1. \E where \in Stages : Moved(r, where)
  BY StepKinds, EarlyEffect, DroppedEffect, TakeLockEffect, EditFailsEffect, EditMadeEffect,
     ConcludeEffect DEF Stages, Early, Locked
<1>2. pass' = pass \/ pass' = [pass EXCEPT ![r] = pass[r] + 1]
  BY StepKinds, EarlyEffect, DroppedEffect, TakeLockEffect, EditFailsEffect, EditMadeEffect,
     ConcludeEffect
<1>3. holder' \in Runs \cup {NoRun}
  <2>1. holder' \in {holder, NoRun, r}
    BY StepKinds, EarlyEffect, DroppedEffect, TakeLockEffect, EditFailsEffect, EditMadeEffect,
       ConcludeEffect
  <2>2. QED BY <2>1 DEF PassTypes
<1>4. \E new : News(r, new) /\ (Silent(new) \/ EditMade(r))
  <2>1. rows \in Seq(RowRecords) /\ next[r] \in Nat BY DEF PassTypes
  <2>2. CASE EarlyStep(r)
    BY <2>2, EarlyEffect DEF OneRow
  <2>3. CASE LosePlace(r) \/ RefuseTransaction(r) \/ Conclude(r)
    BY <2>3, DroppedEffect, ConcludeEffect
  <2>4. CASE TakeLock(r)
    BY <2>4, TakeLockEffect, NothingNew DEF OneRow
  <2>5. CASE EditFails(r)
    BY <2>1, <2>5, EditFailsEffect, Recorded
  <2>6. CASE EditMade(r)
    <3>1. PICK outcome \in ConsumedOutcomes :
            /\ rows' = Append(rows, Row(r, next[r], outcome, TRUE))
            /\ Row(r, next[r], outcome, TRUE) \in RowRecords
      BY <2>6, EditMadeEffect
    <3> DEFINE row == Row(r, next[r], outcome, TRUE)
    <3>2. row.run = r /\ row.pass = pass[r] BY DEF Row
    <3>3. row \in RowRecords /\ rows' = Append(rows, row) BY <3>1
    <3> HIDE DEF row
    <3>4. News(r, <<row>>) BY <2>1, <3>2, <3>3, OneMore DEF News
    <3>5. QED BY <2>6, <3>4
  <2>7. QED BY <2>2, <2>3, <2>4, <2>5, <2>6, StepKinds
<1>5. PassTypes'
  <2>1. rows' \in Seq(RowRecords)
    <3>1. PICK new : News(r, new) BY <1>4
    <3>2. new \in Seq(RowRecords) /\ rows \in Seq(RowRecords) /\ rows' = rows \o new
      BY <3>1 DEF News, PassTypes
    <3>3. QED BY <3>2, Joined
  <2>2. pass' \in [Runs -> Nat \ {0}]
    <3>1. pass[r] + 1 \in Nat \ {0} BY DEF PassTypes
    <3>2. QED BY <1>2, <3>1 DEF PassTypes
  <2>3. stage' \in [Runs -> Stages] BY <1>1 DEF PassTypes, Moved
  <2>4. plan' \in [Runs -> Seq(PlanEdits)] /\ next' \in [Runs -> Nat \ {0}] BY <1>1 DEF Moved
  <2>5. QED BY <1>3, <2>1, <2>2, <2>3, <2>4 DEF PassTypes
<1>6. \A q \in Runs \ {r} : /\ stage'[q] = stage[q] /\ pass'[q] = pass[q]
                           /\ plan'[q] = plan[q] /\ next'[q] = next[q]
  BY <1>1, <1>2 DEF PassTypes, Moved
<1>7. lost \subseteq lost'
  BY DEF RunStep, Begin, NextPass, NoPlace, RefusePass, LimitRefused, NoEvidence, CollectEvidence,
         CaptureRevision, FindSignal, NothingToOffer, Review, AnswerFails, Preview,
         EvidenceRefused, AskedAndOver, StrictFails, AnswerIsPlan, LosePlace, RefuseTransaction,
         TakeLock, EditFails, EditMade, Conclude, Record, RecordAll
<1>8. QED BY <1>4, <1>5, <1>6, <1>7

LEMMA InitialTypes == PassInit => PassTypes
<1>1. SUFFICES ASSUME PassInit PROVE PassTypes OBVIOUS
<1>2. <<>> \in Seq(PlanEdits) /\ <<>> \in Seq(RowRecords) /\ 1 \in Nat \ {0} OBVIOUS
<1>3. QED BY <1>1, <1>2 DEF PassInit, PassTypes, Stages

\* The user does not touch the runs.
LEMMA UserEffect ==
  ASSUME PassTypes, Rewind \/ (\E t \in Targets : Rewrite(t)) \/ UNCHANGED passVars
  PROVE  /\ UNCHANGED <<stage, pass, plan, next, rows, report, holder, abreast, reached, lost>>
         /\ PassTypes'
<1>1. UNCHANGED <<stage, pass, plan, next, rows, report, holder, abreast, reached, lost>>
  BY DEF Rewind, Rewrite, passVars, Locals, Planned
<1>2. QED BY <1>1 DEF PassTypes

-----------------------------------------------------------------------------
(* The day's edits. *)

MadeRows(q) == {i \in DOMAIN q : q[i].outcome \in ConsumedOutcomes}

\* The lock is held by the run that applies.
Exclusive == \A r \in Runs : holder = r <=> stage[r] \in Locked

\* A single edit came past the budget under the lock, and nobody else has applied since.
PlaceKept ==
  \A r \in Runs : stage[r] = "applying" /\ Single(r) /\ next[r] = 1
                 => AppliedToday < MaxEditsPerDay

BudgetInv == PassTypes /\ Exclusive /\ PlaceKept /\ EditBudgetKept

LEMMA AppliedIsMade ==
  /\ AppliedToday = Cardinality(MadeRows(rows))
  /\ AppliedToday' = Cardinality(MadeRows(rows'))
BY DEF AppliedToday, RowsOf, MadeRows

LEMMA MadeIsFinite ==
  ASSUME NEW q \in Seq(RowRecords)
  PROVE  IsFiniteSet(MadeRows(q)) /\ Cardinality(MadeRows(q)) \in Nat
<1>1. DOMAIN q = 1..Len(q) /\ Len(q) \in Int /\ 1 \in Int OBVIOUS
<1>2. IsFiniteSet(DOMAIN q) BY <1>1, FS_Interval
<1>3. MadeRows(q) \in SUBSET DOMAIN q BY DEF MadeRows
<1>4. QED BY <1>2, <1>3, FS_Subset, FS_CardinalityType

\* Rows of no edit cost nothing.
LEMMA SilentIsFree ==
  ASSUME PassTypes, NEW r \in Runs, NEW new, News(r, new), Silent(new)
  PROVE  AppliedToday' = AppliedToday
<1>1. /\ rows \in Seq(RowRecords) /\ new \in Seq(RowRecords) /\ rows' = rows \o new
      /\ DOMAIN rows = 1..Len(rows) /\ Len(rows) \in Nat /\ Len(new) \in Nat
  BY DEF PassTypes, News
<1>2. /\ DOMAIN rows' = 1..Len(rows) + Len(new)
      /\ \A i \in 1..Len(rows) : rows'[i] = rows[i]
      /\ \A k \in 1..Len(new) : rows'[Len(rows) + k] = new[k]
  BY <1>1, Joined
<1>3. ASSUME NEW i \in DOMAIN rows', i \notin DOMAIN rows PROVE rows'[i].outcome = NoEditMade
  <2>1. i - Len(rows) \in 1..Len(new) /\ i = Len(rows) + (i - Len(rows))
    BY <1>1, <1>2, <1>3
  <2>2. QED BY <1>2, <2>1 DEF Silent
<1>4. NoEditMade \notin ConsumedOutcomes BY DEF NoEditMade, ConsumedOutcomes
<1>5. DOMAIN rows \subseteq DOMAIN rows' BY <1>1, <1>2
<1>6. MadeRows(rows') = MadeRows(rows) BY <1>1, <1>2, <1>3, <1>4, <1>5 DEF MadeRows
<1>7. QED BY <1>6, AppliedIsMade

\* An edit costs one.
LEMMA EditCostsOne ==
  ASSUME PassTypes, NEW row \in RowRecords, rows' = Append(rows, row)
  PROVE  AppliedToday' <= AppliedToday + 1 /\ AppliedToday \in Nat /\ AppliedToday' \in Nat
<1>1. rows \in Seq(RowRecords) /\ rows' \in Seq(RowRecords) BY DEF PassTypes
<1>2. MadeRows(rows') \in SUBSET (MadeRows(rows) \cup {Len(rows) + 1})
  BY <1>1 DEF MadeRows
<1>3. /\ IsFiniteSet(MadeRows(rows)) /\ Cardinality(MadeRows(rows)) \in Nat
      /\ Cardinality(MadeRows(rows')) \in Nat
  BY <1>1, MadeIsFinite
<1>4. /\ IsFiniteSet(MadeRows(rows) \cup {Len(rows) + 1})
      /\ Cardinality(MadeRows(rows) \cup {Len(rows) + 1}) <= Cardinality(MadeRows(rows)) + 1
      /\ Cardinality(MadeRows(rows) \cup {Len(rows) + 1}) \in Nat
  BY <1>3, FS_AddElement, FS_CardinalityType
<1>5. Cardinality(MadeRows(rows')) <= Cardinality(MadeRows(rows) \cup {Len(rows) + 1})
  BY <1>2, <1>4, FS_Subset
<1>6. QED BY <1>3, <1>4, <1>5, AppliedIsMade

LEMMA BudgetInit == PassInit => BudgetInv
<1>1. SUFFICES ASSUME PassInit PROVE BudgetInv OBVIOUS
<1>2. PassTypes BY <1>1, InitialTypes
<1>3. Exclusive BY <1>1, RefinePassAssumption DEF PassInit, Exclusive, Locked
<1>4. MadeRows(rows) = {} BY <1>1 DEF PassInit, MadeRows
<1>5. AppliedToday = 0 BY <1>4, AppliedIsMade, FS_EmptySet
<1>6. QED BY <1>1, <1>2, <1>3, <1>5, RefinePassAssumption
          DEF BudgetInv, PlaceKept, EditBudgetKept, PassInit

\* A run that makes an edit had a place for it.
LEMMA EditMadeBudget ==
  ASSUME BudgetInv, NEW r \in Runs, EditMade(r)
  PROVE  BudgetInv'
<1>0. PassTypes /\ PassTypes' BY StepEffect DEF BudgetInv, RunStep
<1>1. PICK where \in Locked, outcome \in ConsumedOutcomes :
        /\ Moved(r, where)
        /\ rows' = Append(rows, Row(r, next[r], outcome, TRUE))
        /\ Row(r, next[r], outcome, TRUE) \in RowRecords
  BY <1>0, EditMadeEffect
<1>2. AppliedToday' <= AppliedToday + 1 /\ AppliedToday \in Nat /\ AppliedToday' \in Nat
  BY <1>0, <1>1, EditCostsOne
<1>3. /\ Due(r) /\ stage[r] = "applying" /\ next[r] <= Len(plan[r])
      /\ next'[r] = next[r] + 1 /\ UNCHANGED <<plan, holder>>
  BY <1>0, EditMadeEffect
<1>4. AppliedToday < MaxEditsPerDay
  <2>1. CASE Single(r)
    <3>1. next[r] \in Nat \ {0} BY <1>0 DEF PassTypes
    <3>2. next[r] = 1 BY <1>3, <2>1, <3>1 DEF Single
    <3>3. QED BY <1>3, <2>1, <3>2 DEF BudgetInv, PlaceKept
  <2>2. CASE ~DailyLimitReached
    BY <1>2, <2>2, RefinePassAssumption DEF DailyLimitReached
  <2>3. QED BY <1>3, <2>1, <2>2 DEF Due, PlaceFor
<1>5. EditBudgetKept' BY <1>2, <1>4, RefinePassAssumption DEF EditBudgetKept
<1>6. Exclusive' BY <1>0, <1>1, <1>3 DEF BudgetInv, Exclusive, PassTypes, Moved, Locked
<1>7. PlaceKept'
  <2>1. ASSUME NEW q \in Runs, stage'[q] = "applying" PROVE q = r
    BY <1>3, <1>6, <2>1 DEF BudgetInv, Exclusive, Locked
  <2>2. next'[r] # 1 BY <1>0, <1>3 DEF PassTypes
  <2>3. QED BY <2>1, <2>2 DEF PlaceKept
<1>8. QED BY <1>0, <1>5, <1>6, <1>7 DEF BudgetInv

\* A step that leaves the budget alone.
LEMMA OtherStepBudget ==
  ASSUME BudgetInv, NEW r \in Runs, RunStep(r), ~EditMade(r)
  PROVE  BudgetInv'
<1>0. PassTypes /\ PassTypes' BY StepEffect DEF BudgetInv
<1>1. AppliedToday' = AppliedToday
  <2>1. \E new : News(r, new) /\ Silent(new) BY <1>0, StepEffect
  <2>2. QED BY <1>0, <2>1, SilentIsFree
<1>2. EditBudgetKept' BY <1>1 DEF BudgetInv, EditBudgetKept
<1>3. stage \in [Runs -> Stages] /\ NoRun \notin Runs
  BY <1>0, RefinePassAssumption DEF PassTypes
<1>4. \A q \in Runs \ {r} : /\ stage'[q] = stage[q] /\ plan'[q] = plan[q]
                           /\ next'[q] = next[q]
  BY <1>0, StepEffect
<1>5. CASE EarlyStep(r) \/ LosePlace(r) \/ RefuseTransaction(r)
  <2>1. stage[r] \notin Locked /\ stage'[r] \notin Locked /\ UNCHANGED holder
    BY <1>0, <1>3, <1>5, EarlyEffect, DroppedEffect DEF Moved, Early, Locked
  <2>2. Exclusive' BY <1>4, <2>1 DEF BudgetInv, Exclusive
  <2>3. PlaceKept' BY <1>1, <1>4, <2>1 DEF BudgetInv, PlaceKept, Single, Locked
  <2>4. QED BY <1>0, <1>2, <2>2, <2>3 DEF BudgetInv
<1>6. CASE TakeLock(r)
  <2>1. holder = NoRun /\ holder' = r /\ stage'[r] = "applying" /\ UNCHANGED <<plan, next>>
    BY <1>0, <1>3, <1>6, TakeLockEffect DEF Moved
  <2>2. Exclusive' BY <1>3, <1>4, <2>1 DEF BudgetInv, Exclusive, Locked
  <2>3. Single(r) => AppliedToday < MaxEditsPerDay
    <3>1. AppliedToday \in Nat BY <1>0, AppliedIsMade, MadeIsFinite DEF PassTypes
    <3>2. Single(r) => ~DailyLimitReached BY <1>6 DEF TakeLock
    <3>3. QED BY <3>1, <3>2, RefinePassAssumption DEF DailyLimitReached
  <2>4. PlaceKept' BY <1>1, <1>4, <2>1, <2>3 DEF BudgetInv, PlaceKept, Single
  <2>5. QED BY <1>0, <1>2, <2>2, <2>4 DEF BudgetInv
<1>7. CASE EditFails(r)
  <2>1. stage[r] = "applying" /\ stage'[r] = "stopped" /\ UNCHANGED holder
    BY <1>0, <1>3, <1>7, EditFailsEffect DEF Moved
  <2>2. Exclusive' BY <1>4, <2>1 DEF BudgetInv, Exclusive, Locked
  <2>3. PlaceKept' BY <1>1, <1>4, <2>1 DEF BudgetInv, PlaceKept, Single
  <2>4. QED BY <1>0, <1>2, <2>2, <2>3 DEF BudgetInv
<1>8. CASE Conclude(r)
  <2>1. stage[r] \in Locked /\ stage'[r] \notin Locked /\ holder' = NoRun
    BY <1>0, <1>3, <1>8, ConcludeEffect DEF Moved, Locked
  <2>2. Exclusive' BY <1>3, <1>4, <2>1 DEF BudgetInv, Exclusive
  <2>3. PlaceKept' BY <1>1, <1>4, <2>1 DEF BudgetInv, PlaceKept, Single, Locked
  <2>4. QED BY <1>0, <1>2, <2>2, <2>3 DEF BudgetInv
<1>9. QED BY <1>5, <1>6, <1>7, <1>8, StepKinds

LEMMA BudgetNext == BudgetInv /\ [PassNext]_passVars => BudgetInv'
<1>1. SUFFICES ASSUME BudgetInv, [PassNext]_passVars PROVE BudgetInv' OBVIOUS
<1>2. ASSUME NEW r \in Runs, RunStep(r) PROVE BudgetInv'
  BY <1>1, <1>2, EditMadeBudget, OtherStepBudget
<1>3. CASE Rewind \/ (\E t \in Targets : Rewrite(t)) \/ UNCHANGED passVars
  <2>1. UNCHANGED <<stage, plan, next, rows, holder>> /\ PassTypes'
    BY <1>1, <1>3, UserEffect DEF BudgetInv
  <2>2. AppliedToday' = AppliedToday BY <2>1, AppliedIsMade
  <2>3. QED BY <1>1, <2>1, <2>2 DEF BudgetInv, Exclusive, PlaceKept, EditBudgetKept, Single
<1>4. QED BY <1>1, <1>2, <1>3 DEF PassNext

\* The edits of all runs together stay within the day's budget, whatever their number and
\* however long ago each of them looked (daily_limit_reached under the lock).
THEOREM EditsStayInBudget == PassSpec => []EditBudgetKept
<1>1. BudgetInv => EditBudgetKept BY DEF BudgetInv
<1>2. QED BY BudgetInit, BudgetNext, <1>1, PTL DEF PassSpec

-----------------------------------------------------------------------------
(* The model runs.  A pass that is past the ceiling may reach a model; what  *)
(* reached one has a row, is on its way, or lost its row.                    *)

Past == {"collected", "versioned", "reviewing", "asking", "waiting", "applying", "stopped"}
Before == {"called", "between", "gates", "collected", "versioned", "reviewing"}

PastOf(where, number) == {<<r, number[r]>> : r \in {q \in Runs : where[q] \in Past}}
Flying == PastOf(stage, pass)
PaidRows(q) == {i \in DOMAIN q : q[i].counts}
PaidOf(q) == {<<q[i].run, q[i].pass>> : i \in PaidRows(q)}
Paid == PaidOf(rows)

Accounted == reached \ lost \subseteq Flying \cup Paid

Capped == abreast \in Nat /\ Cardinality(Flying \cup Paid) <= MaxModelRuns + abreast - 1

\* A pass that was not asked for yet reached nothing.
Fresh ==
  \A r \in Runs : \A p \in Nat \ {0} :
    p > pass[r] \/ (p = pass[r] /\ stage[r] \in Before) => <<r, p>> \notin reached

\* Edits that were tried have a row, and so has the reviewer.
TriedBy(r) ==
  /\ stage[r] = "asking" /\ <<r, pass[r]>> \in reached => <<r, pass[r]>> \in Paid \cup lost
  /\ stage[r] = "waiting" => next[r] = 1
  /\ stage[r] \in Locked => /\ plan[r] # <<>> /\ next[r] <= Len(plan[r]) + 1
                            /\ next[r] > 1 => <<r, pass[r]>> \in Paid \cup lost
Tried == \A r \in Runs : TriedBy(r)

SpendInv == PassTypes /\ Accounted /\ Capped /\ Fresh /\ Tried

LEMMA PastIsFew ==
  ASSUME NEW where, NEW number
  PROVE  LET S == {q \in Runs : where[q] \in Past}
         IN /\ IsFiniteSet(S) /\ Cardinality(S) \in Nat /\ Cardinality(S) <= Cardinality(Runs)
            /\ IsFiniteSet(PastOf(where, number)) /\ Cardinality(PastOf(where, number)) \in Nat
            /\ Cardinality(PastOf(where, number)) <= Cardinality(S)
<1> DEFINE S == {q \in Runs : where[q] \in Past}
           f == [q \in S |-> <<q, number[q]>>]
<1>1. IsFiniteSet(S) /\ Cardinality(S) <= Cardinality(Runs)
  <2>1. S \in SUBSET Runs OBVIOUS
  <2>2. QED BY <2>1, RefinePassAssumption, FS_Subset
<1>2. f \in Surjection(S, PastOf(where, number)) BY DEF Surjection, PastOf
<1>3. /\ IsFiniteSet(PastOf(where, number))
      /\ Cardinality(PastOf(where, number)) <= Cardinality(S)
  BY <1>1, <1>2, FS_Surjection
<1>4. Cardinality(PastOf(where, number)) \in Nat /\ Cardinality(S) \in Nat
  BY <1>1, <1>3, FS_CardinalityType
<1>5. QED BY <1>1, <1>3, <1>4

\* Only a pass that passes the ceiling may raise how many were past it at once, and then it
\* is one of them.
LEMMA AbreastStays ==
  ASSUME PassTypes, NEW r \in Runs, RunStep(r)
  PROVE  \/ UNCHANGED abreast
         \/ CollectEvidence(r) /\ stage[r] \notin Past /\ stage'[r] \in Past
<1>1. CASE CollectEvidence(r)
  <2>1. stage[r] = "gates" /\ stage' = [stage EXCEPT ![r] = "collected"]
    BY <1>1 DEF CollectEvidence, Goes
  <2>2. QED BY <1>1, <2>1 DEF PassTypes, Past
<1>2. CASE ~CollectEvidence(r)
  BY <1>2 DEF RunStep, Begin, NextPass, NoPlace, RefusePass, LimitRefused, NoEvidence,
              CaptureRevision, FindSignal, NothingToOffer, Review, AnswerFails, Preview,
              EvidenceRefused, AskedAndOver, StrictFails, AnswerIsPlan, LosePlace,
              RefuseTransaction, TakeLock, EditFails, EditMade, Conclude
<1>3. QED BY <1>1, <1>2

LEMMA AbreastCounts ==
  ASSUME PassTypes, NEW r \in Runs, CollectEvidence(r), abreast \in Nat
  PROVE  /\ abreast' \in Nat /\ abreast <= abreast'
         /\ Cardinality(Flying') <= abreast'
         /\ abreast <= Cardinality(Runs) => abreast' <= Cardinality(Runs)
<1> DEFINE S == {q \in Runs : q = r \/ HasRead(q)}
           P == {q \in Runs : stage'[q] \in Past}
<1>1. stage' = [stage EXCEPT ![r] = "collected"] BY DEF CollectEvidence, Goes
<1>2. \A q \in Runs : stage'[q] \in Past <=> (q = r \/ HasRead(q))
  BY <1>1 DEF PassTypes, HasRead, Past, Stages
<1>3. P = S BY <1>2
<1>4. /\ Cardinality(P) \in Nat /\ Cardinality(Flying') \in Nat
      /\ Cardinality(Flying') <= Cardinality(P) /\ Cardinality(P) <= Cardinality(Runs)
  BY PastIsFew DEF Flying
<1>5. abreast' = IF Cardinality(S) > abreast THEN Cardinality(S) ELSE abreast
  BY DEF CollectEvidence
<1> HIDE DEF S, P
<1>6. QED BY <1>3, <1>4, <1>5

LEMMA PaidIsFew ==
  ASSUME PassTypes
  PROVE  IsFiniteSet(Paid) /\ Cardinality(Paid) \in Nat /\ Cardinality(Paid) <= ModelRunsToday
         /\ ModelRunsToday \in Nat
<1> DEFINE S == PaidRows(rows)
           f == [i \in S |-> <<rows[i].run, rows[i].pass>>]
<1>1. IsFiniteSet(S)
  <2>1. DOMAIN rows = 1..Len(rows) /\ Len(rows) \in Int /\ 1 \in Int BY DEF PassTypes
  <2>2. IsFiniteSet(DOMAIN rows) BY <2>1, FS_Interval
  <2>3. S \in SUBSET DOMAIN rows BY DEF PaidRows
  <2>4. QED BY <2>2, <2>3, FS_Subset
<1>2. f \in Surjection(S, Paid) BY DEF Surjection, Paid, PaidOf
<1>3. IsFiniteSet(Paid) /\ Cardinality(Paid) <= Cardinality(S) BY <1>1, <1>2, FS_Surjection
<1>4. ModelRunsToday = Cardinality(S) BY DEF ModelRunsToday, RowsOf, PaidRows
<1>5. QED BY <1>1, <1>3, <1>4, FS_CardinalityType

\* What new rows pay for is the pass they are of.
LEMMA PaidGrows ==
  ASSUME PassTypes, NEW r \in Runs, NEW new, News(r, new)
  PROVE  /\ Paid \subseteq Paid' /\ Paid' \subseteq Paid \cup {<<r, pass[r]>>}
         /\ (\E k \in 1..Len(new) : new[k].counts) => <<r, pass[r]>> \in Paid'
         /\ (\A k \in 1..Len(new) : ~new[k].counts) => Paid' = Paid
<1>1. /\ rows \in Seq(RowRecords) /\ new \in Seq(RowRecords) /\ rows' = rows \o new
      /\ DOMAIN rows = 1..Len(rows) /\ Len(rows) \in Nat /\ Len(new) \in Nat
  BY DEF PassTypes, News
<1>2. /\ DOMAIN rows' = 1..Len(rows) + Len(new)
      /\ \A i \in 1..Len(rows) : rows'[i] = rows[i]
      /\ \A k \in 1..Len(new) : rows'[Len(rows) + k] = new[k]
  BY <1>1, Joined
<1>3. DOMAIN rows \subseteq DOMAIN rows' BY <1>1, <1>2
<1>4. Paid \subseteq Paid' BY <1>1, <1>2, <1>3 DEF Paid, PaidOf, PaidRows
<1>5. ASSUME NEW i \in PaidRows(rows'), i \notin DOMAIN rows
      PROVE  \E k \in 1..Len(new) : new[k].counts /\ rows'[i] = new[k]
  <2>1. i \in DOMAIN rows' /\ rows'[i].counts BY DEF PaidRows
  <2>2. i - Len(rows) \in 1..Len(new) /\ i = Len(rows) + (i - Len(rows))
    BY <1>1, <1>2, <1>5, <2>1
  <2>3. QED BY <1>2, <2>1, <2>2
<1>6. ASSUME NEW i \in PaidRows(rows'), i \in DOMAIN rows
      PROVE  <<rows'[i].run, rows'[i].pass>> \in Paid
  BY <1>1, <1>2, <1>6 DEF Paid, PaidOf, PaidRows
<1>7. \A k \in 1..Len(new) : new[k].run = r /\ new[k].pass = pass[r] BY DEF News
<1>8. Paid' \subseteq Paid \cup {<<r, pass[r]>>}
  BY <1>5, <1>6, <1>7 DEF Paid, PaidOf
<1>9. ASSUME NEW k \in 1..Len(new), new[k].counts PROVE <<r, pass[r]>> \in Paid'
  <2>1. Len(rows) + k \in DOMAIN rows' BY <1>1, <1>2
  <2>2. QED BY <1>2, <1>7, <1>9, <2>1 DEF Paid, PaidOf, PaidRows
<1>10. ASSUME \A k \in 1..Len(new) : ~new[k].counts PROVE Paid' = Paid
  <2>1. Paid' \subseteq Paid BY <1>5, <1>6, <1>10 DEF Paid, PaidOf
  <2>2. QED BY <1>4, <2>1
<1>11. QED BY <1>4, <1>8, <1>9, <1>10

\* A row of a pass that reached a model pays for it, or is lost.
LEMMA RecordPays ==
  ASSUME PassTypes, NEW r \in Runs, NEW i \in Nat, Record(r, Row(r, i, NoEditMade, TRUE))
  PROVE  <<r, pass[r]>> \in Paid' \cup lost'
<1> DEFINE row == Row(r, i, NoEditMade, TRUE)
<1>1. PICK new : /\ News(r, new)
                 /\ new = <<row>> \/ lost' = lost \cup {<<r, pass[r]>>}
  BY Recorded
<1>2. row.counts BY DEF Row
<1> HIDE DEF row
<1>3. CASE new = <<row>>
  <2>1. 1 \in 1..Len(new) /\ new[1].counts BY <1>2, <1>3
  <2>2. QED BY <1>1, <2>1, PaidGrows
<1>4. QED BY <1>1, <1>3

LEMMA RecordAllPays ==
  ASSUME PassTypes, NEW r \in Runs, NEW newRows, RecordAll(r, newRows),
         newRows \in Seq(RowRecords), Silent(newRows), Len(newRows) > 0,
         \A k \in 1..Len(newRows) : /\ newRows[k].run = r /\ newRows[k].pass = pass[r]
                                   /\ newRows[k].counts
  PROVE  <<r, pass[r]>> \in Paid' \cup lost'
<1>1. PICK new : /\ News(r, new)
                 /\ new = newRows \/ lost' = lost \cup {<<r, pass[r]>>}
  BY AllRecorded
<1>2. CASE new = newRows
  <2>1. 1 \in 1..Len(new) /\ new[1].counts BY <1>2
  <2>2. QED BY <1>1, <2>1, PaidGrows
<1>3. QED BY <1>1, <1>2

LEMMA PaidStays ==
  ASSUME PassTypes, NEW r \in Runs, RunStep(r)
  PROVE  Paid \subseteq Paid' /\ Paid' \subseteq Paid \cup {<<r, pass[r]>>}
BY StepEffect, PaidGrows

LEMMA AccountedKept ==
  ASSUME SpendInv, NEW r \in Runs, RunStep(r), reached' \subseteq reached \cup {<<r, pass[r]>>},
         \/ stage'[r] \in Past /\ pass'[r] = pass[r]
         \/ <<r, pass[r]>> \in Paid' \cup lost'
         \/ <<r, pass[r]>> \notin reached'
  PROVE  Accounted'
<1>0. PassTypes BY DEF SpendInv
<1>1. /\ lost \subseteq lost'
      /\ \A q \in Runs \ {r} : stage'[q] = stage[q] /\ pass'[q] = pass[q]
  BY <1>0, StepEffect
<1>2. SUFFICES ASSUME NEW x \in reached' \ lost' PROVE x \in Flying' \cup Paid'
  BY DEF Accounted
<1>3. CASE x = <<r, pass[r]>>
  BY <1>3 DEF Flying, PastOf
<1>4. CASE x # <<r, pass[r]>>
  <2>1. x \in Flying \cup Paid BY <1>1, <1>4 DEF SpendInv, Accounted
  <2>2. ASSUME x \in Flying PROVE x \in Flying'
    <3>1. PICK q \in Runs : stage[q] \in Past /\ x = <<q, pass[q]>> BY <2>2 DEF Flying, PastOf
    <3>2. stage'[q] \in Past /\ x = <<q, pass'[q]>> BY <1>1, <1>4, <3>1
    <3>3. QED BY <3>2 DEF Flying, PastOf
  <2>3. QED BY <1>0, <2>1, <2>2, PaidStays
<1>5. QED BY <1>3, <1>4

\* Of what flies or has paid nothing is added by a run that was past the ceiling already.
LEMMA CappedKept ==
  ASSUME SpendInv, NEW r \in Runs, RunStep(r),
         \/ stage[r] \in Past
         \/ stage'[r] \notin Past /\ Paid' = Paid,
         stage'[r] \in Past => pass'[r] = pass[r]
  PROVE  Capped'
<1>0. PassTypes /\ PassTypes' BY StepEffect DEF SpendInv
<1>1. \A q \in Runs \ {r} : stage'[q] = stage[q] /\ pass'[q] = pass[q]
  BY <1>0, StepEffect
<1>2. Flying' \subseteq Flying \cup {<<r, pass[r]>>} BY <1>1 DEF Flying, PastOf
<1>3. Flying' \cup Paid' \in SUBSET (Flying \cup Paid)
  <2>1. CASE stage[r] \in Past
    <3>1. <<r, pass[r]>> \in Flying BY <2>1 DEF Flying, PastOf
    <3>2. QED BY <1>0, <1>2, <3>1, PaidStays
  <2>2. CASE stage'[r] \notin Past /\ Paid' = Paid
    <3>1. Flying' \subseteq Flying BY <1>1, <2>2 DEF Flying, PastOf
    <3>2. QED BY <2>2, <3>1
  <2>3. QED BY <2>1, <2>2
<1>4. IsFiniteSet(Flying \cup Paid) BY <1>0, PastIsFew, PaidIsFew, FS_Union DEF Flying
<1>5. /\ Cardinality(Flying' \cup Paid') <= Cardinality(Flying \cup Paid)
      /\ Cardinality(Flying' \cup Paid') \in Nat /\ Cardinality(Flying \cup Paid) \in Nat
  BY <1>3, <1>4, FS_Subset, FS_CardinalityType
<1>6. UNCHANGED abreast BY <1>0, AbreastStays
<1>7. MaxModelRuns \in Nat BY RefinePassAssumption
<1>8. QED BY <1>5, <1>6, <1>7 DEF SpendInv, Capped

\* The pass that passes the ceiling is one of those that are past it then.
LEMMA CappedByCeiling ==
  ASSUME PassTypes, abreast \in Nat, NEW r \in Runs, CollectEvidence(r), ~ModelLimitReached,
         UNCHANGED rows
  PROVE  Capped'
<1>1. IsFiniteSet(Flying') /\ Cardinality(Flying') \in Nat /\ Cardinality(Flying') <= abreast'
  BY PastIsFew, AbreastCounts DEF Flying
<1>2. IsFiniteSet(Paid) /\ Cardinality(Paid) \in Nat /\ Cardinality(Paid) < MaxModelRuns
  BY PaidIsFew, RefinePassAssumption DEF ModelLimitReached
<1>3. Paid' = Paid BY DEF Paid
<1>4. /\ IsFiniteSet(Flying' \cap Paid)
      /\ Cardinality(Flying' \cup Paid)
           = Cardinality(Flying') + Cardinality(Paid) - Cardinality(Flying' \cap Paid)
  BY <1>1, <1>2, FS_Union, FS_Intersection
<1>5. Cardinality(Flying' \cap Paid) \in Nat BY <1>4, FS_CardinalityType
<1>6. abreast' \in Nat /\ MaxModelRuns \in Nat BY RefinePassAssumption, AbreastCounts
<1>7. QED BY <1>1, <1>2, <1>3, <1>4, <1>5, <1>6 DEF Capped

LEMMA FreshKept ==
  ASSUME SpendInv, NEW r \in Runs, RunStep(r), reached' \subseteq reached \cup {<<r, pass[r]>>},
         \/ pass'[r] = pass[r] /\ (stage'[r] \in Before => stage[r] \in Before /\ UNCHANGED reached)
         \/ pass'[r] = pass[r] + 1 /\ UNCHANGED reached
  PROVE  Fresh'
<1>0. PassTypes BY DEF SpendInv
<1>1. \A q \in Runs \ {r} : stage'[q] = stage[q] /\ pass'[q] = pass[q]
  BY <1>0, StepEffect
<1>2. SUFFICES ASSUME NEW q \in Runs, NEW p \in Nat \ {0},
                      p > pass'[q] \/ (p = pass'[q] /\ stage'[q] \in Before)
               PROVE  <<q, p>> \notin reached'
  BY DEF Fresh
<1>3. CASE q # r
  BY <1>1, <1>2, <1>3 DEF SpendInv, Fresh
<1>4. CASE q = r
  <2>1. pass[r] \in Nat BY <1>0 DEF PassTypes
  <2>2. CASE pass'[r] = pass[r] + 1 /\ UNCHANGED reached
    <3>1. p > pass[r] BY <1>2, <1>4, <2>1, <2>2
    <3>2. QED BY <1>4, <2>2, <3>1 DEF SpendInv, Fresh
  <2>3. CASE p > pass[r] /\ pass'[r] = pass[r]
    <3>1. p # pass[r] BY <2>1, <2>3
    <3>2. QED BY <1>4, <2>3, <3>1 DEF SpendInv, Fresh
  <2>4. CASE p = pass[r] /\ stage[r] \in Before /\ UNCHANGED reached
    BY <1>4, <2>4 DEF SpendInv, Fresh
  <2>5. QED BY <1>2, <1>4, <2>1, <2>2, <2>3, <2>4
<1>5. QED BY <1>3, <1>4

LEMMA TriedKept ==
  ASSUME SpendInv, NEW r \in Runs, RunStep(r), TriedBy(r)',
         reached' \subseteq reached \cup {<<r, pass[r]>>}
  PROVE  Tried'
<1>0. PassTypes BY DEF SpendInv
<1>1. /\ lost \subseteq lost' /\ Paid \subseteq Paid'
      /\ \A q \in Runs \ {r} : /\ stage'[q] = stage[q] /\ pass'[q] = pass[q]
                              /\ plan'[q] = plan[q] /\ next'[q] = next[q]
  BY <1>0, StepEffect, PaidStays
<1>2. ASSUME NEW q \in Runs \ {r} PROVE TriedBy(q)'
  <2>1. TriedBy(q) BY DEF SpendInv, Tried
  <2>2. /\ stage'[q] = stage[q] /\ pass'[q] = pass[q]
        /\ plan'[q] = plan[q] /\ next'[q] = next[q]
    BY <1>1
  <2>3. <<q, pass[q]>> \in reached' => <<q, pass[q]>> \in reached OBVIOUS
  <2>4. QED BY <1>1, <2>1, <2>2, <2>3 DEF TriedBy
<1>3. QED BY <1>2 DEF Tried

LEMMA GateSpend ==
  ASSUME SpendInv, NEW r \in Runs, RunStep(r),
         \/ Begin(r) \/ NextPass(r) \/ NoPlace(r) \/ RefusePass(r) \/ LimitRefused(r)
         \/ NoEvidence(r)
  PROVE  SpendInv'
<1>0. PassTypes /\ PassTypes' BY StepEffect DEF SpendInv
<1>1. /\ stage[r] \in {"called", "between", "gates"} /\ UNCHANGED <<reached, pass>>
      /\ \E where \in {"between", "gates", "ended"} : stage' = [stage EXCEPT ![r] = where]
      /\ UNCHANGED rows \/ Record(r, Row(r, 0, NoEditMade, FALSE))
  BY DEF Begin, NextPass, NoPlace, RefusePass, LimitRefused, NoEvidence, Ends, Goes
<1>2. stage'[r] \in {"between", "gates", "ended"} BY <1>0, <1>1 DEF PassTypes
<1>3. Paid' = Paid
  <2>1. CASE UNCHANGED rows
    BY <2>1 DEF Paid
  <2>2. CASE Record(r, Row(r, 0, NoEditMade, FALSE))
    <3>1. PICK new : News(r, new) /\ (new = <<Row(r, 0, NoEditMade, FALSE)>> \/ new = <<>>)
      BY <1>0, <2>2, Recorded
    <3>2. \A k \in 1..Len(new) : ~new[k].counts BY <3>1 DEF Row
    <3>3. QED BY <1>0, <3>1, <3>2, PaidGrows
  <2>3. QED BY <1>1, <2>1, <2>2
<1>4. <<r, pass[r]>> \notin reached' BY <1>0, <1>1 DEF SpendInv, Fresh, Before, PassTypes
<1>5. Accounted' BY <1>1, <1>4, AccountedKept
<1>6. Capped' BY <1>2, <1>3, CappedKept DEF Past
<1>7. Fresh' BY <1>1, <1>2, FreshKept DEF Before
<1>8. Tried' BY <1>1, <1>2, TriedKept DEF TriedBy, Locked
<1>9. QED BY <1>0, <1>5, <1>6, <1>7, <1>8 DEF SpendInv

LEMMA CollectSpend ==
  ASSUME SpendInv, NEW r \in Runs, RunStep(r), CollectEvidence(r)
  PROVE  SpendInv'
<1>0. PassTypes /\ PassTypes' BY StepEffect DEF SpendInv
<1>1. /\ stage[r] = "gates" /\ UNCHANGED <<reached, pass, rows>> /\ ~ModelLimitReached
      /\ stage' = [stage EXCEPT ![r] = "collected"]
  BY DEF CollectEvidence, PassesLimits, Goes
<1>2. stage'[r] = "collected" BY <1>0, <1>1 DEF PassTypes
<1>3. Accounted' BY <1>1, <1>2, AccountedKept DEF Past
<1>4. Capped' BY <1>0, <1>1, CappedByCeiling DEF SpendInv, Capped
<1>5. Fresh' BY <1>1, <1>2, FreshKept DEF Before
<1>6. Tried' BY <1>1, <1>2, TriedKept DEF TriedBy, Locked
<1>7. QED BY <1>0, <1>3, <1>4, <1>5, <1>6 DEF SpendInv

LEMMA SignalSpend ==
  ASSUME SpendInv, NEW r \in Runs, RunStep(r),
         CaptureRevision(r) \/ FindSignal(r) \/ NothingToOffer(r)
  PROVE  SpendInv'
<1>0. PassTypes /\ PassTypes' BY StepEffect DEF SpendInv
<1>1. /\ stage[r] \in {"collected", "versioned"} /\ UNCHANGED <<reached, pass>>
      /\ \E where \in {"versioned", "asking", "reviewing", "ended"} :
           stage' = [stage EXCEPT ![r] = where]
  BY DEF CaptureRevision, FindSignal, NothingToOffer, Ends, Goes
<1>2. stage'[r] \in {"versioned", "asking", "reviewing", "ended"} BY <1>0, <1>1 DEF PassTypes
<1>3. <<r, pass[r]>> \notin reached' BY <1>0, <1>1 DEF SpendInv, Fresh, Before, PassTypes
<1>4. Accounted' BY <1>1, <1>3, AccountedKept
<1>5. Capped' BY <1>1, CappedKept DEF Past
<1>6. Fresh' BY <1>1, <1>2, FreshKept DEF Before
<1>7. Tried' BY <1>1, <1>2, <1>3, TriedKept DEF TriedBy, Locked
<1>8. QED BY <1>0, <1>4, <1>5, <1>6, <1>7 DEF SpendInv

LEMMA AskedSpend ==
  ASSUME SpendInv, NEW r \in Runs, RunStep(r), Review(r) \/ AskedAndOver(r)
  PROVE  SpendInv'
<1>0. PassTypes /\ PassTypes' BY StepEffect DEF SpendInv
<1>1. /\ stage[r] \in {"reviewing", "asking"} /\ reached' = reached \cup {<<r, pass[r]>>}
      /\ UNCHANGED pass /\ Record(r, Row(r, 0, NoEditMade, TRUE))
      /\ \E where \in {"asking", "ended"} : stage' = [stage EXCEPT ![r] = where]
  BY DEF Review, AskedAndOver, Ends, Goes
<1>2. stage'[r] \in {"asking", "ended"} BY <1>0, <1>1 DEF PassTypes
<1>3. <<r, pass[r]>> \in Paid' \cup lost'
  <2>1. 0 \in Nat OBVIOUS
  <2>2. QED BY <1>0, <1>1, <2>1, RecordPays
<1>4. Accounted' BY <1>1, <1>3, AccountedKept
<1>5. Capped' BY <1>1, CappedKept DEF Past
<1>6. Fresh' BY <1>1, <1>2, FreshKept DEF Before
<1>7. Tried' BY <1>1, <1>2, <1>3, TriedKept DEF TriedBy, Locked
<1>8. QED BY <1>0, <1>4, <1>5, <1>6, <1>7 DEF SpendInv

LEMMA StrictSpend ==
  ASSUME SpendInv, NEW r \in Runs, RunStep(r), StrictFails(r)
  PROVE  SpendInv'
<1>0. PassTypes /\ PassTypes' BY StepEffect DEF SpendInv
<1>1. /\ stage[r] = "asking" /\ UNCHANGED pass /\ stage' = [stage EXCEPT ![r] = "ended"]
      /\ reached' \subseteq reached \cup {<<r, pass[r]>>}
      /\ \/ <<r, pass[r]>> \in lost'
         \/ UNCHANGED <<reached, lost>>
  BY DEF StrictFails, Ends, Goes
<1>2. stage'[r] = "ended" BY <1>0, <1>1 DEF PassTypes
<1>3. Accounted'
  <2>1. CASE <<r, pass[r]>> \in lost'
    BY <1>1, <2>1, AccountedKept
  <2>2. CASE UNCHANGED <<reached, lost>>
    <3>1. <<r, pass[r]>> \in reached => <<r, pass[r]>> \in Paid \cup lost
      BY <1>1 DEF SpendInv, Tried, TriedBy
    <3>2. Paid \subseteq Paid' BY <1>0, PaidStays
    <3>3. QED BY <1>1, <2>2, <3>1, <3>2, AccountedKept
  <2>3. QED BY <1>1, <2>1, <2>2
<1>4. Capped' BY <1>1, <1>2, CappedKept DEF Past
<1>5. Fresh' BY <1>1, <1>2, FreshKept DEF Before
<1>6. Tried' BY <1>1, <1>2, TriedKept DEF TriedBy, Locked
<1>7. QED BY <1>0, <1>3, <1>4, <1>5, <1>6 DEF SpendInv

LEMMA PlanSpend ==
  ASSUME SpendInv, NEW r \in Runs, RunStep(r), AnswerIsPlan(r)
  PROVE  SpendInv'
<1>0. PassTypes /\ PassTypes' BY StepEffect DEF SpendInv
<1>1. /\ stage[r] = "asking" /\ reached' = reached \cup {<<r, pass[r]>>} /\ UNCHANGED pass
      /\ stage' = [stage EXCEPT ![r] = "waiting"] /\ next' = [next EXCEPT ![r] = 1]
  BY DEF AnswerIsPlan, Goes
<1>2. stage'[r] = "waiting" /\ next'[r] = 1 BY <1>0, <1>1 DEF PassTypes
<1>4. Accounted' BY <1>1, <1>2, AccountedKept DEF Past
<1>5. Capped' BY <1>1, CappedKept DEF Past
<1>6. Fresh' BY <1>1, <1>2, FreshKept DEF Before
<1>7. Tried' BY <1>1, <1>2, TriedKept DEF TriedBy, Locked
<1>8. QED BY <1>0, <1>4, <1>5, <1>6, <1>7 DEF SpendInv

LEMMA DroppedSpend ==
  ASSUME SpendInv, NEW r \in Runs, RunStep(r), LosePlace(r) \/ RefuseTransaction(r)
  PROVE  SpendInv'
<1>0. PassTypes /\ PassTypes' BY StepEffect DEF SpendInv
<1>1. /\ stage[r] = "waiting" /\ UNCHANGED <<reached, pass>>
      /\ stage' = [stage EXCEPT ![r] = "ended"]
  BY DEF LosePlace, RefuseTransaction, Ends, Goes
<1>2. stage'[r] = "ended" BY <1>0, <1>1 DEF PassTypes
<1>3. <<r, pass[r]>> \in Paid' \cup lost'
  <2>1. CASE LosePlace(r)
    BY <2>1 DEF LosePlace
  <2>2. CASE Record(r, Row(r, 0, NoEditMade, TRUE))
    <3>1. 0 \in Nat OBVIOUS
    <3>2. QED BY <1>0, <2>2, <3>1, RecordPays
  <2>3. CASE RecordAll(r, WholeRows(r))
    <3> DEFINE rs == WholeRows(r)
    <3>1. /\ rs \in Seq(RowRecords) /\ Silent(rs) /\ Len(rs) > 0
          /\ \A k \in 1..Len(rs) : rs[k].run = r /\ rs[k].pass = pass[r] /\ rs[k].counts
      BY <1>0, RefusedRows
    <3>2. RecordAll(r, rs) BY <2>3
    <3> HIDE DEF rs
    <3>3. QED BY <1>0, <3>1, <3>2, RecordAllPays
  <2>4. QED BY <2>1, <2>2, <2>3 DEF RefuseTransaction
<1>4. Accounted' BY <1>1, <1>3, AccountedKept
<1>5. Capped' BY <1>1, CappedKept DEF Past
<1>6. Fresh' BY <1>1, <1>2, FreshKept DEF Before
<1>7. Tried' BY <1>1, <1>2, TriedKept DEF TriedBy, Locked
<1>8. QED BY <1>0, <1>4, <1>5, <1>6, <1>7 DEF SpendInv

LEMMA TakeLockSpend ==
  ASSUME SpendInv, NEW r \in Runs, RunStep(r), TakeLock(r)
  PROVE  SpendInv'
<1>0. PassTypes /\ PassTypes' BY StepEffect DEF SpendInv
<1>1. /\ stage[r] = "waiting" /\ UNCHANGED <<reached, pass, plan, next>>
      /\ Moved(r, "applying")
  BY <1>0, TakeLockEffect
<1>2. stage'[r] = "applying" BY <1>0, <1>1 DEF PassTypes, Moved
<1>3. next[r] = 1 BY <1>1 DEF SpendInv, Tried, TriedBy
<1>4. plan[r] # <<>>
  <2>1. CASE Single(r)
    <3>1. Len(plan[r]) = 1 BY <2>1 DEF Single
    <3>2. QED BY <3>1
  <2>2. CASE ~RefusedWhole(r)
    BY <2>2 DEF RefusedWhole
  <2>3. QED BY <2>1, <2>2 DEF TakeLock
<1>5. Len(plan[r]) \in Nat BY <1>0 DEF PassTypes
<1>6. Accounted' BY <1>1, <1>2, AccountedKept DEF Past
<1>7. Capped' BY <1>1, CappedKept DEF Past
<1>8. Fresh' BY <1>1, <1>2, FreshKept DEF Before
<1>9. Tried'
  <2>1. next'[r] = 1 /\ plan'[r] = plan[r] /\ next'[r] <= Len(plan'[r]) + 1
    BY <1>1, <1>3, <1>5
  <2>2. TriedBy(r)' BY <1>2, <1>4, <2>1 DEF TriedBy, Locked
  <2>3. QED BY <1>1, <2>2, TriedKept
<1>10. QED BY <1>0, <1>6, <1>7, <1>8, <1>9 DEF SpendInv

LEMMA EditSpend ==
  ASSUME SpendInv, NEW r \in Runs, RunStep(r), EditFails(r) \/ EditMade(r)
  PROVE  SpendInv'
<1>0. PassTypes /\ PassTypes' BY StepEffect DEF SpendInv
<1>1. /\ stage[r] = "applying" /\ UNCHANGED <<reached, pass, plan>>
      /\ next[r] <= Len(plan[r]) /\ next'[r] = next[r] + 1
      /\ \E where \in Locked : Moved(r, where)
  BY <1>0, EditFailsEffect, EditMadeEffect DEF Locked
<1>2. stage'[r] \in Locked BY <1>0, <1>1 DEF PassTypes, Moved
<1>3. next[r] \in Nat /\ rows \in Seq(RowRecords) BY <1>0 DEF PassTypes
<1>4. <<r, pass[r]>> \in Paid' \cup lost'
  <2>1. CASE EditFails(r)
    BY <1>0, <1>3, <2>1, EditFailsEffect, RecordPays
  <2>2. CASE EditMade(r)
    <3>1. PICK outcome \in ConsumedOutcomes :
            /\ rows' = Append(rows, Row(r, next[r], outcome, TRUE))
            /\ Row(r, next[r], outcome, TRUE) \in RowRecords
      BY <1>0, <2>2, EditMadeEffect
    <3> DEFINE row == Row(r, next[r], outcome, TRUE)
    <3>2. row.counts /\ row.run = r /\ row.pass = pass[r] BY DEF Row
    <3>3. row \in RowRecords /\ rows' = Append(rows, row) BY <3>1
    <3> HIDE DEF row
    <3>4. News(r, <<row>>) BY <1>3, <3>2, <3>3, OneMore DEF News
    <3>5. 1 \in 1..Len(<<row>>) /\ <<row>>[1].counts BY <3>2
    <3>6. QED BY <1>0, <3>4, <3>5, PaidGrows
  <2>3. QED BY <2>1, <2>2
<1>5. plan[r] # <<>> BY <1>1 DEF SpendInv, Tried, TriedBy, Locked
<1>6. Len(plan[r]) \in Nat BY <1>0 DEF PassTypes
<1>7. next'[r] <= Len(plan'[r]) + 1 BY <1>1, <1>3, <1>6
<1>8. Accounted' BY <1>1, <1>4, AccountedKept
<1>9. Capped' BY <1>1, CappedKept DEF Past
<1>10. Fresh' BY <1>1, <1>2, FreshKept DEF Before, Locked
<1>11. Tried' BY <1>1, <1>2, <1>4, <1>5, <1>7, TriedKept DEF TriedBy, Locked
<1>12. QED BY <1>0, <1>8, <1>9, <1>10, <1>11 DEF SpendInv

LEMMA ConcludeSpend ==
  ASSUME SpendInv, NEW r \in Runs, RunStep(r), Conclude(r)
  PROVE  SpendInv'
<1>0. PassTypes /\ PassTypes' BY StepEffect DEF SpendInv
<1>1. /\ stage[r] \in Locked /\ UNCHANGED reached /\ RecordAll(r, Unattempted(r))
      /\ \/ Moved(r, "ended") /\ UNCHANGED pass
         \/ Moved(r, "between") /\ pass' = [pass EXCEPT ![r] = pass[r] + 1]
  BY <1>0, ConcludeEffect
<1>2. \/ stage'[r] = "ended" /\ pass'[r] = pass[r]
      \/ stage'[r] = "between" /\ pass'[r] = pass[r] + 1
  BY <1>0, <1>1 DEF PassTypes, Moved
<1>3. <<r, pass[r]>> \in Paid' \cup lost'
  <2>1. /\ next[r] <= Len(plan[r]) + 1 /\ plan[r] # <<>>
        /\ next[r] > 1 => <<r, pass[r]>> \in Paid \cup lost
    BY <1>1 DEF SpendInv, Tried, TriedBy
  <2>2. next[r] \in Nat \ {0} /\ Len(plan[r]) \in Nat \ {0} BY <1>0, <2>1 DEF PassTypes
  <2>3. CASE next[r] > 1
    BY <1>0, <2>1, <2>3, PaidStays, StepEffect
  <2>4. CASE next[r] = 1
    <3> DEFINE rs == Unattempted(r)
    <3>1. /\ rs \in Seq(RowRecords) /\ Silent(rs)
          /\ \A k \in 1..Len(rs) : rs[k].run = r /\ rs[k].pass = pass[r] /\ rs[k].counts
          /\ Len(rs) = Len(plan[r]) + 1 - next[r]
      BY <1>0, <2>1, UntriedRows
    <3>2. Len(rs) > 0 BY <2>2, <2>4, <3>1
    <3>3. RecordAll(r, rs) BY <1>1
    <3> HIDE DEF rs
    <3>4. QED BY <1>0, <3>1, <3>2, <3>3, RecordAllPays
  <2>5. QED BY <2>2, <2>3, <2>4
<1>4. Accounted' BY <1>1, <1>3, AccountedKept
<1>5. Capped' BY <1>1, <1>2, CappedKept DEF Past, Locked
<1>6. Fresh' BY <1>1, <1>2, FreshKept DEF Before
<1>7. Tried' BY <1>1, <1>2, TriedKept DEF TriedBy, Locked
<1>8. QED BY <1>0, <1>4, <1>5, <1>6, <1>7 DEF SpendInv

LEMMA SpendInit == PassInit => SpendInv
<1>1. SUFFICES ASSUME PassInit PROVE SpendInv OBVIOUS
<1>2. PassTypes BY <1>1, InitialTypes
<1>3. Flying = {} /\ Paid = {}
  <2>1. \A r \in Runs : stage[r] \notin Past BY <1>1 DEF PassInit, Past
  <2>2. rows = <<>> BY <1>1 DEF PassInit
  <2>3. QED BY <2>1, <2>2 DEF Flying, PastOf, Paid, PaidOf, PaidRows
<1>4. Capped
  <2>1. Cardinality(Flying \cup Paid) = 0 BY <1>3, FS_EmptySet
  <2>2. abreast = 0 BY <1>1 DEF PassInit
  <2>3. QED BY <2>1, <2>2, RefinePassAssumption DEF Capped
<1>5. Accounted /\ Fresh BY <1>1 DEF PassInit, Accounted, Fresh
<1>6. Tried BY <1>1 DEF PassInit, Tried, TriedBy, Locked
<1>7. QED BY <1>2, <1>4, <1>5, <1>6 DEF SpendInv

LEMMA SpendNext == SpendInv /\ [PassNext]_passVars => SpendInv'
<1>1. SUFFICES ASSUME SpendInv, [PassNext]_passVars PROVE SpendInv' OBVIOUS
<1>2. ASSUME NEW r \in Runs, RunStep(r) PROVE SpendInv'
  BY <1>1, <1>2, StepKinds, GateSpend, CollectSpend, SignalSpend, AskedSpend, StrictSpend,
     PlanSpend, DroppedSpend, TakeLockSpend, EditSpend, ConcludeSpend DEF EarlyStep
<1>3. CASE Rewind \/ (\E t \in Targets : Rewrite(t)) \/ UNCHANGED passVars
  <2>1. UNCHANGED <<stage, pass, plan, next, rows, abreast, reached, lost>> /\ PassTypes'
    BY <1>1, <1>3, UserEffect DEF SpendInv
  <2>2. Flying' = Flying /\ Paid' = Paid BY <2>1 DEF Flying, Paid
  <2>3. QED BY <1>1, <2>1, <2>2 DEF SpendInv, Accounted, Capped, Fresh, Tried, TriedBy
<1>4. QED BY <1>1, <1>2, <1>3 DEF PassNext

\* Runs exceed the ceiling together only, by no more than one for each but the first of those
\* that were past it at once, whatever becomes of their answers (model_run_limit_reached).
THEOREM SpendStaysBounded == PassSpec => []SpendBounded
<1>1. SpendInv => SpendBounded
  <2>1. SUFFICES ASSUME SpendInv PROVE SpendBounded OBVIOUS
  <2>2. Spent \in SUBSET (Flying \cup Paid)
    <3>1. \A i \in DOMAIN rows : rows[i].counts => <<rows[i].run, rows[i].pass>> \in Paid
      BY DEF Paid, PaidOf, PaidRows
    <3>2. QED BY <2>1, <3>1 DEF SpendInv, Accounted, Spent
  <2>3. IsFiniteSet(Flying \cup Paid)
    BY <2>1, PastIsFew, PaidIsFew, FS_Union DEF SpendInv, Flying
  <2>4. /\ Cardinality(Spent) <= Cardinality(Flying \cup Paid)
        /\ Cardinality(Spent) \in Nat /\ Cardinality(Flying \cup Paid) \in Nat
    BY <2>2, <2>3, FS_Subset, FS_CardinalityType
  <2>5. QED BY <2>1, <2>4, RefinePassAssumption DEF SpendInv, Capped, SpendBounded
<1>2. QED BY SpendInit, SpendNext, <1>1, PTL DEF PassSpec

-----------------------------------------------------------------------------
(* The rows of a transaction. *)

OwnRows(q, r, p) == {i \in DOMAIN q : q[i].run = r /\ q[i].pass = p /\ q[i].index > 0}
Own(r, p) == OwnRows(rows, r, p)

InOrder(q, own) == \A i, j \in own : i < j => q[i].index < q[j].index
MadeFirst(q, own) ==
  \A i, j \in own : (i < j /\ q[j].outcome \in ConsumedOutcomes) => q[i].outcome = "success"
Complete(q, own) == \A i \in own : {q[k].index : k \in own} = 1..q[i].size

\* The rows so far are those of the edits before the one that is due.
SoFar(r, p) ==
  /\ \A i \in Own(r, p) :
       /\ rows[i].index < next[r] /\ rows[i].size = Len(plan[r])
       /\ stage[r] = "applying" \/ rows[i].index < next[r] - 1 => rows[i].outcome = "success"
  /\ <<r, p>> \notin lost =>
       \A n \in 1..next[r] - 1 : \E i \in Own(r, p) : rows[i].index = n

Over(r, p) == p < pass[r] \/ (p = pass[r] /\ stage[r] = "ended")

TraceOf(r, p) ==
  /\ InOrder(rows, Own(r, p)) /\ MadeFirst(rows, Own(r, p))
  /\ p > pass[r] \/ (p = pass[r] /\ stage[r] \notin Locked \cup {"ended"}) => Own(r, p) = {}
  /\ p = pass[r] /\ stage[r] \in Locked => SoFar(r, p)
  /\ Over(r, p) /\ <<r, p>> \notin lost => Complete(rows, Own(r, p))

Traces == \A r \in Runs : \A p \in Nat \ {0} : TraceOf(r, p)
TraceInv == SpendInv /\ Traces

\* New rows are of their own run and pass, and come after the others.
LEMMA OwnGrows ==
  ASSUME PassTypes, NEW r \in Runs, NEW new, News(r, new)
  PROVE  /\ \A q \in Runs, p \in Nat \ {0} :
              /\ \A i \in Own(q, p) : i \in 1..Len(rows) /\ rows'[i] = rows[i]
              /\ q # r \/ p # pass[r] => OwnRows(rows', q, p) = Own(q, p)
         /\ \A k \in 1..Len(new) : rows'[Len(rows) + k] = new[k]
         /\ OwnRows(rows', r, pass[r]) =
              Own(r, pass[r]) \cup {Len(rows) + k : k \in {n \in 1..Len(new) : new[n].index > 0}}
<1>1. /\ rows \in Seq(RowRecords) /\ new \in Seq(RowRecords) /\ rows' = rows \o new
      /\ DOMAIN rows = 1..Len(rows) /\ Len(rows) \in Nat /\ Len(new) \in Nat
  BY DEF PassTypes, News
<1>2. /\ DOMAIN rows' = 1..Len(rows) + Len(new)
      /\ \A i \in 1..Len(rows) : rows'[i] = rows[i]
      /\ \A k \in 1..Len(new) : rows'[Len(rows) + k] = new[k]
  BY <1>1, Joined
<1>3. DOMAIN rows \subseteq DOMAIN rows' BY <1>1, <1>2
<1>4. \A k \in 1..Len(new) : new[k].run = r /\ new[k].pass = pass[r] BY DEF News
<1>5. ASSUME NEW i \in DOMAIN rows', i \notin DOMAIN rows
      PROVE  \E k \in 1..Len(new) : i = Len(rows) + k /\ rows'[i] = new[k]
  <2>1. i - Len(rows) \in 1..Len(new) /\ i = Len(rows) + (i - Len(rows))
    BY <1>1, <1>2, <1>5
  <2>2. QED BY <1>2, <2>1
<1>6. \A k \in 1..Len(new) : Len(rows) + k \in DOMAIN rows' /\ Len(rows) + k \notin DOMAIN rows
  BY <1>1, <1>2
<1>7. ASSUME NEW q \in Runs, NEW p \in Nat \ {0}
      PROVE  /\ \A i \in Own(q, p) : i \in 1..Len(rows) /\ rows'[i] = rows[i]
             /\ q # r \/ p # pass[r] => OwnRows(rows', q, p) = Own(q, p)
  <2>1. \A i \in Own(q, p) : i \in 1..Len(rows) /\ rows'[i] = rows[i]
    BY <1>1, <1>2 DEF Own, OwnRows
  <2>2. Own(q, p) \subseteq OwnRows(rows', q, p) BY <1>1, <1>2, <1>3 DEF Own, OwnRows
  <2>3. ASSUME q # r \/ p # pass[r], NEW i \in OwnRows(rows', q, p) PROVE i \in Own(q, p)
    <3>1. i \in DOMAIN rows BY <1>4, <1>5, <2>3 DEF OwnRows
    <3>2. QED BY <1>1, <1>2, <3>1 DEF Own, OwnRows
  <2>4. QED BY <2>1, <2>2, <2>3
<1>8. OwnRows(rows', r, pass[r]) =
        Own(r, pass[r]) \cup {Len(rows) + k : k \in {n \in 1..Len(new) : new[n].index > 0}}
  <2>1. Own(r, pass[r]) \subseteq OwnRows(rows', r, pass[r]) BY <1>1, <1>2, <1>3 DEF Own, OwnRows
  <2>2. ASSUME NEW k \in 1..Len(new), new[k].index > 0
        PROVE  Len(rows) + k \in OwnRows(rows', r, pass[r])
    BY <1>2, <1>4, <1>6, <2>2 DEF OwnRows
  <2>3. ASSUME NEW i \in OwnRows(rows', r, pass[r]), i \notin Own(r, pass[r])
        PROVE  \E k \in 1..Len(new) : i = Len(rows) + k /\ new[k].index > 0
    <3>1. i \in DOMAIN rows' /\ rows'[i].index > 0 BY DEF OwnRows
    <3>2. i \notin DOMAIN rows BY <1>1, <1>2, <2>3 DEF Own, OwnRows
    <3>3. QED BY <1>5, <3>1, <3>2
  <2>4. QED BY <2>1, <2>2, <2>3
<1>9. QED BY <1>2, <1>7, <1>8

\* Rows that continue a pass where it stands.
Follow(r, new) ==
  \A k \in 1..Len(new) : new[k].index = next[r] - 1 + k /\ new[k].size = Len(plan[r])
Earlier(r, p) ==
  \A i \in Own(r, p) : rows[i].index < next[r] /\ rows[i].size = Len(plan[r])
AllMade(r, p) == \A i \in Own(r, p) : rows[i].outcome = "success"

LEMMA Continued ==
  ASSUME PassTypes, NEW r \in Runs, NEW new, News(r, new),
         Follow(r, new), Earlier(r, pass[r]),
         InOrder(rows, Own(r, pass[r])), MadeFirst(rows, Own(r, pass[r])),
         Silent(new) \/ (Len(new) = 1 /\ AllMade(r, pass[r]))
  PROVE  /\ InOrder(rows', OwnRows(rows', r, pass[r]))
         /\ MadeFirst(rows', OwnRows(rows', r, pass[r]))
         /\ \A i \in OwnRows(rows', r, pass[r]) :
              \/ i \in Own(r, pass[r]) /\ rows'[i] = rows[i]
              \/ \E k \in 1..Len(new) : i = Len(rows) + k /\ rows'[i] = new[k]
         /\ Own(r, pass[r]) \subseteq OwnRows(rows', r, pass[r])
         /\ \A k \in 1..Len(new) : /\ Len(rows) + k \in OwnRows(rows', r, pass[r])
                                  /\ rows'[Len(rows) + k] = new[k]
<1> DEFINE old == Own(r, pass[r])
           own == OwnRows(rows', r, pass[r])
<1>1. /\ pass[r] \in Nat \ {0} /\ next[r] \in Nat \ {0} /\ Len(rows) \in Nat
      /\ Len(new) \in Nat
  BY DEF PassTypes, News
<1>2. \A k \in 1..Len(new) : new[k].index > 0 BY <1>1 DEF Follow
<1>3. /\ \A i \in old : i \in 1..Len(rows) /\ rows'[i] = rows[i]
      /\ \A k \in 1..Len(new) : rows'[Len(rows) + k] = new[k]
      /\ own = old \cup {Len(rows) + k : k \in {n \in 1..Len(new) : new[n].index > 0}}
  BY <1>1, OwnGrows
<1>4. old \subseteq own /\ \A k \in 1..Len(new) : Len(rows) + k \in own BY <1>2, <1>3
<1>5. \A i \in own : \/ i \in old /\ rows'[i] = rows[i]
                    \/ \E k \in 1..Len(new) : i = Len(rows) + k /\ rows'[i] = new[k]
  BY <1>3
<1>6. \A i \in old : rows[i].index \in Nat
  <2>1. \A i \in 1..Len(rows) : rows[i] \in RowRecords BY DEF PassTypes
  <2>2. QED BY <1>3, <2>1 DEF RowRecords
<1> HIDE DEF old, own
<1>7. ASSUME NEW i \in own, NEW j \in own, i < j
      PROVE  /\ rows'[i].index < rows'[j].index
             /\ rows'[j].outcome \in ConsumedOutcomes => rows'[i].outcome = "success"
  <2>1. CASE i \in old /\ j \in old
    BY <1>3, <1>7, <2>1 DEF InOrder, MadeFirst, old
  <2>2. CASE i \in old /\ j \notin old
    <3>1. PICK k \in 1..Len(new) : j = Len(rows) + k /\ rows'[j] = new[k] BY <1>5, <2>2
    <3>2. rows'[i] = rows[i] /\ rows[i].index < next[r] /\ rows[i].index \in Nat
      BY <1>3, <1>6, <2>2 DEF Earlier, old
    <3>3. rows'[j].index = next[r] - 1 + k BY <3>1 DEF Follow
    <3>4. rows'[i].index < rows'[j].index BY <1>1, <3>1, <3>2, <3>3
    <3>5. rows'[j].outcome \in ConsumedOutcomes => rows'[i].outcome = "success"
      <4>1. NoEditMade \notin ConsumedOutcomes BY DEF NoEditMade, ConsumedOutcomes
      <4>2. QED BY <2>2, <3>1, <3>2, <4>1 DEF Silent, AllMade, old
    <3>6. QED BY <3>4, <3>5
  <2>3. CASE i \notin old /\ j \in old
    <3>1. PICK k \in 1..Len(new) : i = Len(rows) + k BY <1>5, <2>3
    <3>2. j \in 1..Len(rows) BY <1>3, <2>3
    <3>3. QED BY <1>1, <1>7, <3>1, <3>2
  <2>4. CASE i \notin old /\ j \notin old
    <3>1. PICK k \in 1..Len(new) : i = Len(rows) + k /\ rows'[i] = new[k] BY <1>5, <2>4
    <3>2. PICK l \in 1..Len(new) : j = Len(rows) + l /\ rows'[j] = new[l] BY <1>5, <2>4
    <3>3. k < l BY <1>1, <1>7, <3>1, <3>2
    <3>4. new[k].index < new[l].index
      <4>1. new[k].index = next[r] - 1 + k /\ new[l].index = next[r] - 1 + l BY DEF Follow
      <4>2. QED BY <1>1, <3>3, <4>1
    <3>5. NoEditMade \notin ConsumedOutcomes BY DEF NoEditMade, ConsumedOutcomes
    <3>6. Silent(new)
      <4>1. Len(new) # 1
        <5>1. ASSUME Len(new) = 1 PROVE k = 1 /\ l = 1 BY <5>1
        <5>2. QED BY <3>3, <5>1
      <4>2. QED BY <4>1
    <3>7. QED BY <3>1, <3>2, <3>4, <3>5, <3>6 DEF Silent
  <2>5. QED BY <2>1, <2>2, <2>3, <2>4
<1>8. InOrder(rows', own) /\ MadeFirst(rows', own) BY <1>7 DEF InOrder, MadeFirst
<1>9. QED BY <1>3, <1>4, <1>5, <1>8 DEF old, own

LEMMA PassEffect ==
  ASSUME PassTypes, NEW r \in Runs, RunStep(r)
  PROVE  \/ pass'[r] = pass[r]
         \/ pass'[r] = pass[r] + 1 /\ stage'[r] = "between"
<1>1. CASE Conclude(r)
  BY <1>1, ConcludeEffect DEF PassTypes, Moved
<1>2. QED BY <1>1, StepKinds, EarlyEffect, DroppedEffect, TakeLockEffect, EditFailsEffect,
             EditMadeEffect

\* The rows of other passes and what is asked of them stay.
LEMMA TraceFrame ==
  ASSUME PassTypes, NEW r \in Runs, RunStep(r), NEW q \in Runs, NEW p \in Nat \ {0}, TraceOf(q, p),
         q # r \/ p # pass[r]
  PROVE  TraceOf(q, p)'
<1> DEFINE own == Own(q, p)
<1>1. PICK new : News(r, new) BY StepEffect
<1>2. Own(q, p)' = own /\ \A i \in own : rows'[i] = rows[i]
  <2>1. OwnRows(rows', q, p) = own /\ \A i \in own : rows'[i] = rows[i] BY <1>1, OwnGrows
  <2>2. QED BY <2>1 DEF Own
<1>3. InOrder(rows, own) /\ MadeFirst(rows, own) BY DEF TraceOf
<1>4. (Over(q, p) /\ <<q, p>> \notin lost => Complete(rows, own))
  BY DEF TraceOf
<1>5. /\ p > pass[q] \/ (p = pass[q] /\ stage[q] \notin Locked \cup {"ended"}) => own = {}
      /\ p = pass[q] /\ stage[q] \in Locked => SoFar(q, p)
  BY DEF TraceOf
<1>6. lost \subseteq lost' BY StepEffect
<1>7. pass[q] \in Nat /\ pass[r] \in Nat BY DEF PassTypes
<1> HIDE DEF own
<1>8. InOrder(rows', own) /\ MadeFirst(rows', own) BY <1>2, <1>3 DEF InOrder, MadeFirst
<1>9. Complete(rows, own) => Complete(rows', own)
  <2>1. {rows'[k].index : k \in own} = {rows[k].index : k \in own} BY <1>2
  <2>2. QED BY <1>2, <2>1 DEF Complete
<1>10. CASE q # r
  <2>1. /\ stage'[q] = stage[q] /\ pass'[q] = pass[q]
        /\ plan'[q] = plan[q] /\ next'[q] = next[q]
    BY <1>10, StepEffect
  <2>2. Over(q, p)' = Over(q, p) BY <2>1 DEF Over
  <2>3. SoFar(q, p) => SoFar(q, p)'
    <3>1. own = Own(q, p) BY DEF own
    <3>2. QED BY <1>2, <1>6, <2>1, <3>1 DEF SoFar
  <2>4. QED BY <1>2, <1>4, <1>5, <1>6, <1>8, <1>9, <2>1, <2>2, <2>3 DEF TraceOf
<1>11. CASE q = r /\ p > pass[r]
  <2>1. own = {} BY <1>5, <1>11
  <2>2. ~(p = pass'[q] /\ stage'[q] \in Locked) BY <1>7, <1>11, PassEffect DEF Locked
  <2>3. Complete(rows', own) BY <2>1 DEF Complete
  <2>4. QED BY <1>2, <1>8, <2>1, <2>2, <2>3 DEF TraceOf
<1>12. CASE q = r /\ p < pass[r]
  <2>1. p < pass'[q] /\ p # pass'[q] /\ ~(p > pass'[q]) BY <1>7, <1>12, PassEffect
  <2>2. Over(q, p) BY <1>12 DEF Over
  <2>3. QED BY <1>2, <1>4, <1>6, <1>8, <1>9, <2>1, <2>2 DEF TraceOf
<1>13. QED BY <1>7, <1>10, <1>11, <1>12

\* Rows that are of no edit of a plan.
Plain(new) == \A k \in 1..Len(new) : new[k].index = 0

\* Until its edits are tried a pass has such rows only.
LEMMA TraceIdle ==
  ASSUME PassTypes, NEW r \in Runs, NEW p, p = pass[r], TraceOf(r, p),
         stage[r] \notin Locked \cup {"ended"}, pass'[r] = pass[r],
         NEW new, News(r, new), Plain(new),
         stage'[r] \in Locked => next'[r] = 1
  PROVE  TraceOf(r, p)'
<1>1. Own(r, p) = {} BY DEF TraceOf
<1>2. Own(r, p)' = {}
  <2>1. OwnRows(rows', r, pass[r]) =
          Own(r, pass[r]) \cup {Len(rows) + k : k \in {n \in 1..Len(new) : new[n].index > 0}}
    BY OwnGrows
  <2>2. \A n \in 1..Len(new) : ~(new[n].index > 0) BY DEF Plain
  <2>3. OwnRows(rows', r, p) = {} BY <1>1, <2>1, <2>2
  <2>4. QED BY <2>3 DEF Own
<1>3. SoFar(r, p)' \/ stage'[r] \notin Locked BY <1>2 DEF SoFar
<1>4. QED BY <1>2, <1>3 DEF TraceOf, InOrder, MadeFirst, Complete

LEMMA OneRowIdle ==
  ASSUME PassTypes, NEW r \in Runs, OneRow(r)
  PROVE  \E new : News(r, new) /\ Plain(new)
<1>1. \A counts \in BOOLEAN : Row(r, 0, NoEditMade, counts).index = 0 BY DEF Row
<1>2. PICK new : /\ News(r, new)
                 /\ new = <<>> \/ \E counts \in BOOLEAN : new = <<Row(r, 0, NoEditMade, counts)>>
  BY DEF OneRow
<1>3. CASE new = <<>>
  BY <1>2, <1>3 DEF Plain
<1>4. CASE \E counts \in BOOLEAN : new = <<Row(r, 0, NoEditMade, counts)>>
  <2>1. PICK counts \in BOOLEAN : new = <<Row(r, 0, NoEditMade, counts)>> BY <1>4
  <2>2. \A k \in 1..Len(new) : new[k].index = 0 BY <1>1, <2>1
  <2>3. QED BY <1>2, <2>2 DEF Plain
<1>5. QED BY <1>2, <1>3, <1>4

\* A pass that is over has rows of all its edits.
LEMMA TraceOver ==
  ASSUME PassTypes, NEW r \in Runs, NEW p, p = pass[r],
         NEW new, News(r, new), Silent(new),
         Follow(r, new), Earlier(r, p), InOrder(rows, Own(r, p)), MadeFirst(rows, Own(r, p)),
         next[r] <= Len(plan[r]) + 1,
         <<r, p>> \notin lost' =>
           /\ Len(new) = Len(plan[r]) + 1 - next[r]
           /\ \A n \in 1..next[r] - 1 : \E i \in Own(r, p) : rows[i].index = n,
         stage'[r] \notin Locked, pass'[r] \in Nat,
         p < pass'[r] \/ (p = pass'[r] /\ stage'[r] = "ended")
  PROVE  TraceOf(r, p)'
<1> DEFINE own == OwnRows(rows', r, p)
<1>1. /\ InOrder(rows', own) /\ MadeFirst(rows', own)
      /\ \A i \in own : \/ i \in Own(r, p) /\ rows'[i] = rows[i]
                        \/ \E k \in 1..Len(new) : i = Len(rows) + k /\ rows'[i] = new[k]
      /\ Own(r, p) \subseteq own
      /\ \A k \in 1..Len(new) : Len(rows) + k \in own /\ rows'[Len(rows) + k] = new[k]
  <2>1. /\ Earlier(r, pass[r]) /\ InOrder(rows, Own(r, pass[r]))
        /\ MadeFirst(rows, Own(r, pass[r]))
    OBVIOUS
  <2>2. own = OwnRows(rows', r, pass[r]) OBVIOUS
  <2> HIDE DEF own
  <2>3. /\ InOrder(rows', OwnRows(rows', r, pass[r]))
        /\ MadeFirst(rows', OwnRows(rows', r, pass[r]))
        /\ \A i \in OwnRows(rows', r, pass[r]) :
             \/ i \in Own(r, pass[r]) /\ rows'[i] = rows[i]
             \/ \E k \in 1..Len(new) : i = Len(rows) + k /\ rows'[i] = new[k]
        /\ Own(r, pass[r]) \subseteq OwnRows(rows', r, pass[r])
        /\ \A k \in 1..Len(new) : /\ Len(rows) + k \in OwnRows(rows', r, pass[r])
                                 /\ rows'[Len(rows) + k] = new[k]
    BY <2>1, Continued
  <2>4. QED BY <2>2, <2>3
<1>2. Own(r, p)' = own BY DEF Own
<1>3. /\ pass[r] \in Nat \ {0} /\ next[r] \in Nat \ {0} /\ Len(plan[r]) \in Nat
      /\ Len(new) \in Nat
  BY DEF PassTypes, News
<1>4. ~(p > pass'[r]) /\ ~(p = pass'[r] /\ stage'[r] \notin Locked \cup {"ended"})
  BY <1>3
<1>5. \A i \in Own(r, p) : rows'[i] = rows[i] /\ rows[i].index \in Nat /\ rows[i].index > 0
  <2>1. \A i \in Own(r, p) : rows'[i] = rows[i] /\ i \in 1..Len(rows) BY <1>3, OwnGrows
  <2>2. \A i \in 1..Len(rows) : rows[i] \in RowRecords BY DEF PassTypes
  <2>3. QED BY <2>1, <2>2 DEF Own, OwnRows, RowRecords
<1> HIDE DEF own
<1>6. ASSUME <<r, p>> \notin lost' PROVE Complete(rows', own)
  <2>1. /\ Len(new) = Len(plan[r]) + 1 - next[r]
        /\ \A n \in 1..next[r] - 1 : \E i \in Own(r, p) : rows[i].index = n
    BY <1>6
  <2>2. ASSUME NEW i \in own
        PROVE  rows'[i].index \in 1..Len(plan[r]) /\ rows'[i].size = Len(plan[r])
    <3>1. CASE i \in Own(r, p) /\ rows'[i] = rows[i]
      <4>1. rows[i].index < next[r] /\ rows[i].size = Len(plan[r]) BY <3>1 DEF Earlier
      <4>2. rows[i].index \in Nat /\ rows[i].index > 0 BY <1>5, <3>1
      <4>3. rows[i].index \in 1..Len(plan[r]) BY <1>3, <4>1, <4>2
      <4>4. QED BY <3>1, <4>1, <4>3
    <3>2. CASE \E k \in 1..Len(new) : i = Len(rows) + k /\ rows'[i] = new[k]
      <4>1. PICK k \in 1..Len(new) : rows'[i] = new[k] BY <3>2
      <4>2. rows'[i].index = next[r] - 1 + k /\ rows'[i].size = Len(plan[r]) BY <4>1 DEF Follow
      <4>3. next[r] - 1 + k \in 1..Len(plan[r]) BY <1>3, <2>1
      <4>4. QED BY <4>2, <4>3
    <3>3. QED BY <1>1, <2>2, <3>1, <3>2
  <2>3. ASSUME NEW n \in 1..Len(plan[r]) PROVE \E i \in own : rows'[i].index = n
    <3>1. CASE n < next[r]
      <4>1. n \in 1..next[r] - 1 BY <1>3, <3>1
      <4>2. PICK i \in Own(r, p) : rows[i].index = n BY <2>1, <4>1
      <4>3. QED BY <1>1, <1>5, <4>2
    <3>2. CASE ~(n < next[r])
      <4> DEFINE k == n + 1 - next[r]
      <4>0. Len(new) = Len(plan[r]) + 1 - next[r] /\ n \in Nat /\ n <= Len(plan[r])
        BY <1>3, <2>1
      <4>1. k \in 1..Len(new) BY <1>3, <3>2, <4>0
      <4>4. next[r] - 1 + k = n BY <1>3, <4>0
      <4> HIDE DEF k
      <4>2. Len(rows) + k \in own /\ rows'[Len(rows) + k].index = next[r] - 1 + k
        BY <1>1, <4>1 DEF Follow
      <4>3. QED BY <4>2, <4>4
    <3>3. QED BY <3>1, <3>2
  <2>4. {rows'[k].index : k \in own} = 1..Len(plan[r]) BY <2>2, <2>3
  <2>5. QED BY <2>2, <2>4 DEF Complete
<1>7. QED BY <1>1, <1>2, <1>4, <1>6 DEF TraceOf

\* While edits are tried, and no more than one row at a time.
LEMMA TraceUnderWay ==
  ASSUME PassTypes, PassTypes', NEW r \in Runs, NEW p, p = pass[r],
         TraceOf(r, p), stage[r] = "applying", stage'[r] \in Locked, UNCHANGED <<pass, plan>>,
         next[r] <= Len(plan[r]), next'[r] = next[r] + 1,
         NEW new, News(r, new), Follow(r, new), Len(new) = 0 \/ Len(new) = 1, lost \subseteq lost',
         stage'[r] = "applying" => Len(new) = 1 /\ new[1].outcome = "success",
         Len(new) = 0 => <<r, p>> \in lost'
  PROVE  TraceOf(r, p)'
<1> DEFINE own == OwnRows(rows', r, p)
<1>1. /\ pass[r] \in Nat \ {0} /\ next[r] \in Nat \ {0} /\ Len(plan[r]) \in Nat
      /\ Len(new) \in Nat
  BY DEF PassTypes, News
<1>2. SoFar(r, p) /\ InOrder(rows, Own(r, p)) /\ MadeFirst(rows, Own(r, p))
  BY DEF TraceOf, Locked
<1>3. Earlier(r, p) /\ AllMade(r, p) BY <1>2 DEF SoFar, Earlier, AllMade
<1>0. /\ Len(new) = 0 \/ Len(new) = 1
      /\ \A k \in 1..Len(new) : k = 1 /\ Len(new) = 1
  <2>1. Len(new) = 0 \/ Len(new) = 1 OBVIOUS
  <2>2. CASE Len(new) = 0
    <3>1. 1..Len(new) = {} BY <2>2
    <3>2. QED BY <2>1, <3>1
  <2>3. CASE Len(new) = 1
    <3>1. 1..Len(new) = {1} BY <2>3
    <3>2. QED BY <2>1, <2>3, <3>1
  <2>4. QED BY <2>1, <2>2, <2>3
<1>4. Silent(new) \/ Len(new) = 1 BY <1>0 DEF Silent
<1>5. /\ InOrder(rows', own) /\ MadeFirst(rows', own)
      /\ \A i \in own : \/ i \in Own(r, p) /\ rows'[i] = rows[i]
                        \/ \E k \in 1..Len(new) : i = Len(rows) + k /\ rows'[i] = new[k]
      /\ Own(r, p) \subseteq own
      /\ \A k \in 1..Len(new) : Len(rows) + k \in own /\ rows'[Len(rows) + k] = new[k]
  <2>1. /\ Earlier(r, pass[r]) /\ InOrder(rows, Own(r, pass[r]))
        /\ MadeFirst(rows, Own(r, pass[r])) /\ AllMade(r, pass[r])
    BY <1>2, <1>3
  <2>2. own = OwnRows(rows', r, pass[r]) OBVIOUS
  <2> HIDE DEF own
  <2>3. /\ InOrder(rows', OwnRows(rows', r, pass[r]))
        /\ MadeFirst(rows', OwnRows(rows', r, pass[r]))
        /\ \A i \in OwnRows(rows', r, pass[r]) :
             \/ i \in Own(r, pass[r]) /\ rows'[i] = rows[i]
             \/ \E k \in 1..Len(new) : i = Len(rows) + k /\ rows'[i] = new[k]
        /\ Own(r, pass[r]) \subseteq OwnRows(rows', r, pass[r])
        /\ \A k \in 1..Len(new) : /\ Len(rows) + k \in OwnRows(rows', r, pass[r])
                                 /\ rows'[Len(rows) + k] = new[k]
    BY <1>4, <2>1, Continued
  <2>4. QED BY <2>2, <2>3
<1>6. Own(r, p)' = own BY DEF Own
<1>7. \A i \in Own(r, p) : rows'[i] = rows[i] /\ rows[i].index \in Nat /\ rows[i].index > 0
  <2>1. \A i \in Own(r, p) : rows'[i] = rows[i] /\ i \in 1..Len(rows) BY <1>1, OwnGrows
  <2>2. \A i \in 1..Len(rows) : rows[i] \in RowRecords BY DEF PassTypes
  <2>3. QED BY <2>1, <2>2 DEF Own, OwnRows, RowRecords
<1> HIDE DEF own
<1>8. Len(new) = 1 => new[1].index = next[r] /\ new[1].size = Len(plan[r])
  <2>1. ASSUME Len(new) = 1 PROVE new[1].index = next[r] - 1 + 1 /\ new[1].size = Len(plan[r])
    BY <2>1 DEF Follow
  <2>2. next[r] - 1 + 1 = next[r] BY <1>1
  <2>3. QED BY <2>1, <2>2
<1>9. ASSUME NEW i \in own
      PROVE  \/ i \in Own(r, p) /\ rows'[i] = rows[i]
             \/ Len(new) = 1 /\ rows'[i] = new[1]
  <2>1. ASSUME NEW k \in 1..Len(new), rows'[i] = new[k] PROVE Len(new) = 1 /\ rows'[i] = new[1]
    BY <1>0, <2>1
  <2>2. QED BY <1>5, <2>1
<1>10. ASSUME NEW i \in own
       PROVE  /\ rows'[i].index < next'[r] /\ rows'[i].size = Len(plan'[r])
              /\ stage'[r] = "applying" \/ rows'[i].index < next'[r] - 1
                   => rows'[i].outcome = "success"
  <2>1. CASE i \in Own(r, p) /\ rows'[i] = rows[i]
    <3>1. rows[i].index < next[r] /\ rows[i].size = Len(plan[r]) /\ rows[i].outcome = "success"
      BY <1>3, <2>1 DEF Earlier, AllMade
    <3>2. rows[i].index < next[r] + 1 BY <1>1, <1>7, <2>1, <3>1
    <3>3. QED BY <2>1, <3>1, <3>2
  <2>2. CASE Len(new) = 1 /\ rows'[i] = new[1]
    <3>1. rows'[i].index = next[r] /\ rows'[i].size = Len(plan[r]) BY <1>8, <2>2
    <3>2. next[r] < next'[r] /\ ~(next[r] < next'[r] - 1) BY <1>1
    <3>3. stage'[r] = "applying" => rows'[i].outcome = "success" BY <2>2
    <3>4. rows'[i].index < next'[r] /\ ~(rows'[i].index < next'[r] - 1) BY <3>1, <3>2
    <3>5. QED BY <3>1, <3>3, <3>4
  <2>3. QED BY <1>9, <2>1, <2>2
<1>11. ASSUME <<r, p>> \notin lost', NEW n \in 1..next'[r] - 1
       PROVE  \E i \in own : rows'[i].index = n
  <2>1. <<r, p>> \notin lost BY <1>11
  <2>2. CASE n \in 1..next[r] - 1
    <3>1. PICK i \in Own(r, p) : rows[i].index = n BY <1>2, <2>1, <2>2 DEF SoFar
    <3>2. QED BY <1>5, <1>7, <3>1
  <2>3. CASE n = next[r]
    <3>1. Len(new) = 1 BY <1>0, <1>11
    <3>2. Len(rows) + 1 \in own /\ rows'[Len(rows) + 1] = new[1] BY <1>5, <3>1
    <3>3. QED BY <1>8, <2>3, <3>1, <3>2
  <2>4. n \in 1..next[r] BY <1>1
  <2>5. QED BY <1>1, <2>2, <2>3, <2>4
<1>12. SoFar(r, p)'
  <2>1. \A i \in own :
          /\ rows'[i].index < next'[r] /\ rows'[i].size = Len(plan'[r])
          /\ stage'[r] = "applying" \/ rows'[i].index < next'[r] - 1
               => rows'[i].outcome = "success"
    BY <1>10
  <2>2. <<r, p>> \notin lost' => \A n \in 1..next'[r] - 1 : \E i \in own : rows'[i].index = n
    BY <1>11
  <2>3. QED BY <1>6, <2>1, <2>2 DEF SoFar
<1>13. ~(p > pass'[r]) /\ ~(p < pass'[r]) BY <1>1
<1>14. QED BY <1>5, <1>6, <1>12, <1>13 DEF TraceOf, Over, Locked

\* The transaction of a pass that makes a step stays traced.
LEMMA TraceEarly ==
  ASSUME PassTypes, NEW r \in Runs, NEW p, p = pass[r], TraceOf(r, p), TriedBy(r),
         EarlyStep(r) \/ TakeLock(r)
  PROVE  TraceOf(r, p)'
<1>1. CASE EarlyStep(r)
  <2>1. stage[r] \in Early /\ UNCHANGED pass /\ OneRow(r) BY <1>1, EarlyEffect
  <2>2. stage'[r] \notin Locked
    <3>1. \E where \in Early \cup {"waiting", "ended"} : Moved(r, where) BY <1>1, EarlyEffect
    <3>2. QED BY <3>1 DEF PassTypes, Moved, Early, Locked
  <2>3. stage[r] \notin Locked \cup {"ended"} BY <2>1 DEF Early, Locked
  <2>4. PICK new : News(r, new) /\ Plain(new) BY <2>1, OneRowIdle
  <2>5. QED BY <2>1, <2>2, <2>3, <2>4, TraceIdle
<1>2. CASE TakeLock(r)
  <2>1. stage[r] = "waiting" /\ UNCHANGED <<pass, rows, next>> BY <1>2, TakeLockEffect
  <2>2. next'[r] = 1 BY <2>1 DEF TriedBy
  <2>3. stage[r] \notin Locked \cup {"ended"} BY <2>1 DEF Locked
  <2>4. PICK new : News(r, new) /\ Plain(new) BY <2>1, NothingNew, OneRowIdle
  <2>5. QED BY <2>1, <2>2, <2>3, <2>4, TraceIdle
<1>3. QED BY <1>1, <1>2

LEMMA TraceDropped ==
  ASSUME PassTypes, NEW r \in Runs, NEW p, p = pass[r], TraceOf(r, p), TriedBy(r),
         LosePlace(r) \/ RefuseTransaction(r)
  PROVE  TraceOf(r, p)'
<1>1. p \in Nat \ {0} /\ next[r] \in Nat \ {0} /\ Len(plan[r]) \in Nat BY DEF PassTypes
<1>2. /\ stage[r] = "waiting" /\ UNCHANGED pass /\ Moved(r, "ended")
      /\ \/ UNCHANGED rows
         \/ Record(r, Row(r, 0, NoEditMade, TRUE))
         \/ RecordAll(r, WholeRows(r))
  BY DroppedEffect
<1>3. stage'[r] = "ended" /\ stage'[r] \notin Locked BY <1>2 DEF PassTypes, Moved, Locked
<1>4. stage[r] \notin Locked \cup {"ended"} BY <1>2 DEF Locked
<1>5. ASSUME NEW new, News(r, new), Plain(new) PROVE TraceOf(r, p)'
  BY <1>2, <1>3, <1>4, <1>5, TraceIdle
<1>6. CASE UNCHANGED rows \/ Record(r, Row(r, 0, NoEditMade, TRUE))
  <2>1. OneRow(r) BY <1>6, NothingNew, OneRecorded
  <2>2. QED BY <1>5, <2>1, OneRowIdle
<1>7. CASE RecordAll(r, WholeRows(r))
  <2> DEFINE rs == WholeRows(r)
  <2>1. /\ rs \in Seq(RowRecords) /\ Len(rs) > 0 /\ Silent(rs)
        /\ \A k \in 1..Len(rs) : rs[k].run = r /\ rs[k].pass = pass[r]
        /\ plan[r] = <<>> => rs = <<Row(r, 0, NoEditMade, TRUE)>>
        /\ plan[r] # <<>> =>
             /\ Len(rs) = Len(plan[r])
             /\ \A k \in 1..Len(plan[r]) : rs[k] = Row(r, k, NoEditMade, TRUE)
    BY RefusedRows
  <2>2. RecordAll(r, rs) BY <1>7
  <2> HIDE DEF rs
  <2>3. PICK new : /\ News(r, new) /\ Silent(new)
                   /\ \/ new = rs /\ UNCHANGED lost
                      \/ /\ rs # <<>> /\ new = Front(rs)
                         /\ lost' = lost \cup {<<r, pass[r]>>}
    BY <2>1, <2>2, AllRecorded
  <2>4. /\ Len(new) \in Nat /\ Len(new) <= Len(rs)
        /\ \A k \in 1..Len(new) : k \in 1..Len(rs) /\ new[k] = rs[k]
        /\ <<r, p>> \notin lost' => Len(new) = Len(rs)
    <3>1. CASE new = rs
      BY <2>1, <3>1
    <3>2. CASE rs # <<>> /\ new = Front(rs) /\ lost' = lost \cup {<<r, pass[r]>>}
      <4>1. Len(new) = Len(rs) - 1 /\ \A k \in 1..Len(rs) - 1 : new[k] = rs[k]
        BY <2>1, <3>2, AllButLast
      <4>2. Len(rs) \in Nat BY <2>1
      <4>3. QED BY <2>1, <3>2, <4>1, <4>2
    <3>3. QED BY <2>3, <3>1, <3>2
  <2>5. CASE plan[r] = <<>>
    <3> DEFINE row == Row(r, 0, NoEditMade, TRUE)
    <3>1. row.index = 0 /\ rs = <<row>> BY <2>1, <2>5 DEF Row
    <3> HIDE DEF row
    <3>2. \A k \in 1..Len(rs) : rs[k].index = 0 BY <3>1
    <3>3. Plain(new) BY <2>4, <3>2 DEF Plain
    <3>4. QED BY <1>5, <2>3, <3>3
  <2>6. CASE plan[r] # <<>>
    <3>1. \A k \in 1..Len(plan[r]) : /\ Row(r, k, NoEditMade, TRUE).index = k
                                     /\ Row(r, k, NoEditMade, TRUE).size = Len(plan[r])
                                     /\ next[r] - 1 + k = k
      <4>1. next[r] = 1 /\ \A k \in 1..Len(plan[r]) : k # 0 /\ 1 - 1 + k = k
        BY <1>1, <1>2 DEF TriedBy
      <4>2. QED BY <4>1 DEF Row
    <3>2. Follow(r, new)
      <4>1. \A k \in 1..Len(new) : k \in 1..Len(plan[r]) /\ new[k] = Row(r, k, NoEditMade, TRUE)
        BY <2>1, <2>4, <2>6
      <4>2. QED BY <3>1, <4>1 DEF Follow
    <3>3. Own(r, p) = {} BY <1>4 DEF TraceOf
    <3>4. Earlier(r, p) /\ InOrder(rows, Own(r, p)) /\ MadeFirst(rows, Own(r, p))
      BY <3>3 DEF Earlier, InOrder, MadeFirst
    <3>5. next[r] = 1 /\ next[r] <= Len(plan[r]) + 1 /\ 1..next[r] - 1 = {}
      <4>1. next[r] = 1 BY <1>2 DEF TriedBy
      <4>2. 1 <= Len(plan[r]) + 1 /\ 1..1 - 1 = {} BY <1>1
      <4>3. QED BY <4>1, <4>2
    <3>6. <<r, p>> \notin lost' =>
            /\ Len(new) = Len(plan[r]) + 1 - next[r]
            /\ \A n \in 1..next[r] - 1 : \E i \in Own(r, p) : rows[i].index = n
      <4>1. Len(plan[r]) = Len(plan[r]) + 1 - next[r] BY <1>1, <3>5
      <4>2. <<r, p>> \notin lost' => Len(new) = Len(plan[r]) BY <2>1, <2>4, <2>6
      <4>3. QED BY <3>5, <4>1, <4>2
    <3>7. /\ stage'[r] \notin Locked /\ pass'[r] \in Nat
          /\ p = pass'[r] /\ stage'[r] = "ended"
      BY <1>1, <1>2, <1>3
    <3>8. QED BY <2>3, <3>2, <3>4, <3>5, <3>6, <3>7, TraceOver
  <2>7. QED BY <2>5, <2>6
<1>8. QED BY <1>2, <1>6, <1>7

LEMMA TraceTried ==
  ASSUME PassTypes, NEW r \in Runs, NEW p, p = pass[r], TraceOf(r, p),
         EditFails(r) \/ EditMade(r)
  PROVE  TraceOf(r, p)'
<1>1. next[r] \in Nat \ {0} /\ next[r] \in Nat /\ rows \in Seq(RowRecords) BY DEF PassTypes
<1>3. PassTypes' /\ lost \subseteq lost'
  <2>1. RunStep(r) BY DEF RunStep
  <2>2. QED BY <2>1, StepEffect
<1>4. /\ stage[r] = "applying" /\ next[r] <= Len(plan[r]) /\ next'[r] = next[r] + 1
      /\ UNCHANGED <<pass, plan>>
  BY EditFailsEffect, EditMadeEffect
<1>5. ASSUME NEW new, NEW row, new = <<row>>, row.index = next[r], row.size = Len(plan[r])
      PROVE  Follow(r, new) /\ Len(new) = 1 /\ new[1] = row
  <2>1. Len(new) = 1 /\ new[1] = row /\ 1..Len(new) = {1} BY <1>5
  <2>2. next[r] - 1 + 1 = next[r] BY <1>1
  <2>3. QED BY <1>5, <2>1, <2>2 DEF Follow
<1>6. CASE EditFails(r)
  <2> DEFINE row == Row(r, next[r], NoEditMade, TRUE)
  <2>1. stage'[r] = "stopped" /\ Record(r, row)
    BY <1>6, EditFailsEffect DEF PassTypes, Moved
  <2>2. PICK new : /\ News(r, new)
                   /\ new = <<row>> \/ (new = <<>> /\ lost' = lost \cup {<<r, pass[r]>>})
    BY <1>1, <2>1, Recorded
  <2>3. row.index = next[r] /\ row.size = Len(plan[r]) BY <1>1 DEF Row
  <2> HIDE DEF row
  <2>4. stage'[r] \in Locked /\ stage'[r] # "applying" BY <2>1 DEF Locked
  <2>5. CASE new = <<row>>
    <3>1. Follow(r, new) /\ Len(new) = 1 BY <1>5, <2>3, <2>5
    <3>2. ~(Len(new) = 0) BY <3>1
    <3>3. QED BY <1>3, <1>4, <2>2, <2>4, <3>1, <3>2, TraceUnderWay
  <2>6. CASE new = <<>> /\ lost' = lost \cup {<<r, pass[r]>>}
    <3>1. Follow(r, new) /\ Len(new) = 0 /\ <<r, p>> \in lost' BY <2>6 DEF Follow
    <3>2. QED BY <1>3, <1>4, <2>2, <2>4, <3>1, TraceUnderWay
  <2>7. QED BY <2>2, <2>5, <2>6
<1>7. CASE EditMade(r)
  <2>1. PICK where \in Locked, outcome \in ConsumedOutcomes :
          /\ Moved(r, where) /\ (outcome = "success" <=> where = "applying")
          /\ rows' = Append(rows, Row(r, next[r], outcome, TRUE))
          /\ Row(r, next[r], outcome, TRUE) \in RowRecords
    BY <1>7, EditMadeEffect
  <2> DEFINE row == Row(r, next[r], outcome, TRUE)
  <2>2. /\ row.index = next[r] /\ row.size = Len(plan[r]) /\ row.run = r /\ row.pass = pass[r]
        /\ row.outcome = outcome
    BY <1>1 DEF Row
  <2>3. row \in RowRecords /\ rows' = Append(rows, row) BY <2>1
  <2>4. stage'[r] = where BY <2>1 DEF PassTypes, Moved
  <2> HIDE DEF row
  <2>5. News(r, <<row>>) BY <1>1, <2>2, <2>3, OneMore DEF News
  <2>6. PICK new : new = <<row>> OBVIOUS
  <2>7. Follow(r, new) /\ Len(new) = 1 /\ new[1] = row BY <1>5, <2>2, <2>6
  <2>8. News(r, new) BY <2>5, <2>6
  <2>9. stage'[r] = "applying" => new[1].outcome = "success" BY <2>1, <2>2, <2>4, <2>7
  <2>10. stage'[r] \in Locked /\ ~(Len(new) = 0) BY <2>1, <2>4, <2>7
  <2>11. QED BY <1>3, <1>4, <2>7, <2>8, <2>9, <2>10, TraceUnderWay
<1>8. QED BY <1>6, <1>7

LEMMA TraceConcluded ==
  ASSUME PassTypes, NEW r \in Runs, NEW p, p = pass[r], TraceOf(r, p), TriedBy(r), Conclude(r)
  PROVE  TraceOf(r, p)'
<1>1. p \in Nat \ {0} /\ next[r] \in Nat \ {0} /\ Len(plan[r]) \in Nat BY DEF PassTypes
<1>2. /\ stage[r] \in Locked /\ RecordAll(r, Unattempted(r))
      /\ \/ Moved(r, "ended") /\ UNCHANGED pass
         \/ Moved(r, "between") /\ pass' = [pass EXCEPT ![r] = pass[r] + 1]
  BY ConcludeEffect
<1>3. /\ stage'[r] \notin Locked /\ pass'[r] \in Nat
      /\ p < pass'[r] \/ (p = pass'[r] /\ stage'[r] = "ended")
  <2>1. CASE Moved(r, "ended") /\ UNCHANGED pass
    BY <1>1, <2>1 DEF PassTypes, Moved, Locked
  <2>2. CASE Moved(r, "between") /\ pass' = [pass EXCEPT ![r] = pass[r] + 1]
    <3>1. stage'[r] = "between" /\ pass'[r] = p + 1 BY <2>2 DEF PassTypes, Moved
    <3>2. QED BY <1>1, <3>1 DEF Locked
  <2>3. QED BY <1>2, <2>1, <2>2
<1>4. SoFar(r, p) /\ InOrder(rows, Own(r, p)) /\ MadeFirst(rows, Own(r, p))
  BY <1>2 DEF TraceOf
<1>5. Earlier(r, p) BY <1>4 DEF SoFar, Earlier
<1>6. next[r] <= Len(plan[r]) + 1 BY <1>2 DEF TriedBy
<1> DEFINE rs == Unattempted(r)
<1>7. /\ rs \in Seq(RowRecords) /\ Silent(rs)
      /\ \A k \in 1..Len(rs) : rs[k].run = r /\ rs[k].pass = pass[r]
      /\ Len(rs) = Len(plan[r]) + 1 - next[r]
      /\ \A k \in 1..Len(rs) : rs[k] = Row(r, next[r] - 1 + k, NoEditMade, TRUE)
  BY <1>6, UntriedRows
<1>8. \A k \in 1..Len(rs) : rs[k].index = next[r] - 1 + k /\ rs[k].size = Len(plan[r])
  <2>1. \A k \in 1..Len(rs) : next[r] - 1 + k # 0 BY <1>1, <1>7
  <2>2. QED BY <1>7, <2>1 DEF Row
<1>9. RecordAll(r, rs) BY <1>2
<1> HIDE DEF rs
<1>10. PICK new : /\ News(r, new) /\ Silent(new)
                  /\ \/ new = rs /\ UNCHANGED lost
                     \/ /\ rs # <<>> /\ new = Front(rs)
                        /\ lost' = lost \cup {<<r, pass[r]>>}
  BY <1>7, <1>9, AllRecorded
<1>11. /\ \A k \in 1..Len(new) : k \in 1..Len(rs) /\ new[k] = rs[k]
       /\ <<r, p>> \notin lost' => Len(new) = Len(rs)
  <2>1. CASE new = rs
    BY <2>1
  <2>2. CASE rs # <<>> /\ new = Front(rs) /\ lost' = lost \cup {<<r, pass[r]>>}
    <3>1. Len(new) = Len(rs) - 1 /\ \A k \in 1..Len(rs) - 1 : new[k] = rs[k]
      BY <1>7, <2>2, AllButLast
    <3>2. Len(rs) \in Nat BY <1>7
    <3>3. QED BY <2>2, <3>1, <3>2
  <2>3. QED BY <1>10, <2>1, <2>2
<1>12. Follow(r, new) BY <1>8, <1>11 DEF Follow
<1>13. <<r, p>> \notin lost' =>
         /\ Len(new) = Len(plan[r]) + 1 - next[r]
         /\ \A n \in 1..next[r] - 1 : \E i \in Own(r, p) : rows[i].index = n
  <2>1. <<r, p>> \notin lost' => <<r, p>> \notin lost BY <1>10
  <2>2. QED BY <1>4, <1>7, <1>11, <2>1 DEF SoFar
<1>14. QED BY <1>3, <1>4, <1>5, <1>6, <1>10, <1>12, <1>13, TraceOver

LEMMA TraceStep ==
  ASSUME SpendInv, Traces, NEW r \in Runs, RunStep(r)
  PROVE  Traces'
<1>1. PassTypes /\ TriedBy(r) BY DEF SpendInv, Tried
<1>2. SUFFICES ASSUME NEW q \in Runs, NEW p \in Nat \ {0} PROVE TraceOf(q, p)'
  BY DEF Traces
<1>3. TraceOf(q, p) BY DEF Traces
<1>4. CASE q # r \/ p # pass[r]
  BY <1>1, <1>3, <1>4, TraceFrame
<1>5. CASE q = r /\ p = pass[r]
  <2>1. p = pass[r] /\ TraceOf(r, p) BY <1>3, <1>5
  <2>2. TraceOf(r, p)'
    BY <1>1, <2>1, StepKinds, TraceEarly, TraceDropped, TraceTried, TraceConcluded
  <2>3. QED BY <1>5, <2>2
<1>6. QED BY <1>4, <1>5

LEMMA TraceInit == PassInit => Traces
<1>1. SUFFICES ASSUME PassInit, NEW r \in Runs, NEW p \in Nat \ {0} PROVE TraceOf(r, p)
  BY DEF Traces
<1>2. rows = <<>> /\ pass[r] = 1 /\ stage[r] = "called" BY <1>1 DEF PassInit
<1>3. Own(r, p) = {} BY <1>2 DEF Own, OwnRows
<1>4. ~Over(r, p) /\ stage[r] \notin Locked BY <1>2 DEF Over, Locked
<1>5. QED BY <1>3, <1>4 DEF TraceOf, InOrder, MadeFirst

LEMMA TraceNext == TraceInv /\ [PassNext]_passVars => TraceInv'
<1>1. SUFFICES ASSUME TraceInv, [PassNext]_passVars PROVE TraceInv' OBVIOUS
<1>2. SpendInv /\ Traces /\ SpendInv' BY <1>1, SpendNext DEF TraceInv
<1>3. CASE \E r \in Runs : RunStep(r)
  BY <1>2, <1>3, TraceStep DEF TraceInv
<1>4. CASE Rewind \/ (\E t \in Targets : Rewrite(t)) \/ UNCHANGED passVars
  <2>1. PassTypes BY <1>2 DEF SpendInv
  <2>2. UNCHANGED <<stage, pass, plan, next, rows, lost>> BY <1>4, <2>1, UserEffect
  <2>3. Traces'
    <3>1. \A r, p : Own(r, p)' = Own(r, p) BY <2>2 DEF Own
    <3>2. \A r, p : SoFar(r, p)' = SoFar(r, p) BY <2>2, <3>1 DEF SoFar
    <3>3. \A r, p : TraceOf(r, p)' = TraceOf(r, p) BY <2>2, <3>1, <3>2 DEF TraceOf, Over
    <3>4. QED BY <1>2, <3>3 DEF Traces
  <2>4. QED BY <1>2, <2>3 DEF TraceInv
<1>5. QED BY <1>1, <1>3, <1>4 DEF PassNext

\* A transaction leaves one row for each of its edits, once and in order, and what it made
\* comes before what it did not make (_apply_transaction), but for rows that were lost.
THEOREM TransactionsAreTraced == PassSpec => []TransactionTraced
<1>1. TraceInv => TransactionTraced
  <2>1. SUFFICES ASSUME TraceInv, NEW r \in Runs, NEW p \in 1..MaxPasses
                 PROVE  LET own == {i \in DOMAIN rows :
                                      rows[i].run = r /\ rows[i].pass = p /\ rows[i].index > 0}
                            over == p < pass[r] \/ stage[r] = "ended"
                        IN /\ InOrder(rows, own) /\ MadeFirst(rows, own)
                           /\ over /\ <<r, p>> \notin lost => Complete(rows, own)
    BY DEF TransactionTraced, InOrder, MadeFirst, Complete
  <2>2. p \in Nat \ {0} BY RefinePassAssumption
  <2>3. TraceOf(r, p) BY <2>1, <2>2 DEF TraceInv, Traces
  <2>4. pass[r] \in Nat BY <2>1 DEF TraceInv, SpendInv, PassTypes
  <2>5. InOrder(rows, Own(r, p)) /\ MadeFirst(rows, Own(r, p)) BY <2>3 DEF TraceOf
  <2>6. p > pass[r] => Own(r, p) = {} BY <2>3 DEF TraceOf
  <2>7. Over(r, p) /\ <<r, p>> \notin lost => Complete(rows, Own(r, p)) BY <2>3 DEF TraceOf
  <2>8. (p < pass[r] \/ stage[r] = "ended") /\ <<r, p>> \notin lost => Complete(rows, Own(r, p))
    <3>1. CASE p > pass[r]
      BY <2>6, <3>1 DEF Complete
    <3>2. CASE ~(p > pass[r])
      <4>1. p < pass[r] \/ p = pass[r] BY <2>2, <2>4, <3>2
      <4>2. QED BY <2>7, <4>1 DEF Over
    <3>3. QED BY <3>1, <3>2
  <2>9. QED BY <2>5, <2>8 DEF Own, OwnRows
<1>2. PassInit => TraceInv BY SpendInit, TraceInit DEF TraceInv
<1>3. QED BY <1>1, <1>2, TraceNext, PTL DEF PassSpec

-----------------------------------------------------------------------------
(* The order of the recoveries. *)

Descending(q) == \A i, j \in DOMAIN q : i < j => q[i] > q[j]
Members(q) == {q[i] : i \in DOMAIN q}

\* A row's place among those of a set: how many of them are not older.
Since(S, i) == {j \in S : j >= i}
Place(S) == [i \in S |-> Cardinality(Since(S, i))]

LEMMA PlaceOf ==
  ASSUME NEW S \in SUBSET Nat, IsFiniteSet(S)
  PROVE  /\ Cardinality(S) \in Nat
         /\ Place(S) \in [S -> 1..Cardinality(S)]
         /\ \A i, k \in S : i < k => Place(S)[k] < Place(S)[i]
<1>1. \A i \in S : i \in Nat OBVIOUS
<1>2. Cardinality(S) \in Nat BY FS_CardinalityType
<1>3. ASSUME NEW i \in S
      PROVE  /\ IsFiniteSet(Since(S, i)) /\ Cardinality(Since(S, i)) \in 1..Cardinality(S)
  <2>1. \A j \in Since(S, i) : j \in S BY DEF Since
  <2>2. i \in Since(S, i) BY <1>1 DEF Since
  <2>3. Since(S, i) \in SUBSET S BY <2>1
  <2>4. IsFiniteSet(Since(S, i)) /\ Cardinality(Since(S, i)) <= Cardinality(S) BY <2>3, FS_Subset
  <2>5. Cardinality(Since(S, i)) \in Nat BY <2>4, FS_CardinalityType
  <2>6. Cardinality(Since(S, i)) # 0 BY <2>2, <2>4, FS_EmptySet
  <2>7. QED BY <1>2, <2>4, <2>5, <2>6
<1>4. ASSUME NEW i \in S, NEW k \in S, i < k
      PROVE  Cardinality(Since(S, k)) < Cardinality(Since(S, i))
  <2>1. i \in Nat /\ k \in Nat BY <1>1
  <2>2. ASSUME NEW j \in Since(S, k) PROVE j \in Since(S, i)
    <3>1. j \in S /\ j >= k BY <2>2 DEF Since
    <3>2. j \in Nat BY <1>1, <3>1
    <3>3. j >= i BY <1>4, <2>1, <3>1, <3>2
    <3>4. QED BY <3>1, <3>3 DEF Since
  <2>3. Since(S, k) \in SUBSET Since(S, i) BY <2>2
  <2>4. i \in Since(S, i) BY <2>1 DEF Since
  <2>5. i \notin Since(S, k) BY <1>4, <2>1 DEF Since
  <2>6. Since(S, k) # Since(S, i) BY <2>4, <2>5
  <2>7. /\ Cardinality(Since(S, k)) <= Cardinality(Since(S, i))
        /\ Cardinality(Since(S, k)) # Cardinality(Since(S, i))
    BY <1>3, <2>3, <2>6, FS_Subset
  <2>8. Cardinality(Since(S, k)) \in Nat /\ Cardinality(Since(S, i)) \in Nat
    BY <1>2, <1>3
  <2>9. QED BY <2>7, <2>8
<1>5. Place(S) \in [S -> 1..Cardinality(S)]
  <2>1. \A i \in S : Cardinality(Since(S, i)) \in 1..Cardinality(S) BY <1>3
  <2>2. QED BY <2>1 DEF Place
<1>6. \A i, k \in S : i < k => Place(S)[k] < Place(S)[i]
  BY <1>4 DEF Place
<1>7. QED BY <1>2, <1>5, <1>6

\* No two rows have the same place, so every place is some row's.
LEMMA PlacesAreTaken ==
  ASSUME NEW S \in SUBSET Nat, IsFiniteSet(S)
  PROVE  /\ \A i, k \in S : Place(S)[i] = Place(S)[k] => i = k
         /\ \A k \in 1..Cardinality(S) : \E i \in S : Place(S)[i] = k
<1>1. \A i \in S : i \in Nat OBVIOUS
<1>2. /\ Cardinality(S) \in Nat /\ Place(S) \in [S -> 1..Cardinality(S)]
      /\ \A i, k \in S : i < k => Place(S)[k] < Place(S)[i]
  BY PlaceOf
<1>3. ASSUME NEW i \in S, NEW k \in S, Place(S)[i] = Place(S)[k] PROVE i = k
  <2>1. Place(S)[i] \in Nat BY <1>2
  <2>2. i \in Nat /\ k \in Nat BY <1>1
  <2>3. ~(i < k) /\ ~(k < i) BY <1>2, <1>3, <2>1
  <2>4. QED BY <2>2, <2>3
<1>4. Place(S) \in Injection(S, 1..Cardinality(S))
  BY <1>2, <1>3 DEF Injection, IsInjective
<1>5. IsFiniteSet(1..Cardinality(S)) /\ Cardinality(1..Cardinality(S)) = Cardinality(S)
  BY <1>2, FS_Interval
<1>6. Place(S) \in Surjection(S, 1..Cardinality(S))
  BY <1>4, <1>5, FS_Injection
<1>7. QED BY <1>3, <1>6 DEF Surjection

LEMMA NewestFirstIs ==
  ASSUME NEW S \in SUBSET Nat, IsFiniteSet(S)
  PROVE  /\ NewestFirst(S) \in Seq(Nat)
         /\ Descending(NewestFirst(S)) /\ Members(NewestFirst(S)) = S
<1> DEFINE n == Cardinality(S)
           q == NewestFirst(S)
<1>1. \A i \in S : i \in Nat OBVIOUS
<1>2. /\ n \in Nat /\ Place(S) \in [S -> 1..n]
      /\ \A i, k \in S : i < k => Place(S)[k] < Place(S)[i]
  BY PlaceOf
<1>3. /\ \A i, k \in S : Place(S)[i] = Place(S)[k] => i = k
      /\ \A k \in 1..n : \E i \in S : Place(S)[i] = k
  BY PlacesAreTaken
<1>4. \A k \in 1..n : q[k] \in S /\ Place(S)[q[k]] = k
  <2> SUFFICES ASSUME NEW k \in 1..n PROVE q[k] \in S /\ Place(S)[q[k]] = k
    OBVIOUS
  <2>1. q[k] = CHOOSE i \in S : Cardinality(Since(S, i)) = k BY DEF NewestFirst, Since
  <2>2. \A i \in S : Place(S)[i] = Cardinality(Since(S, i)) BY DEF Place
  <2>3. \E i \in S : Cardinality(Since(S, i)) = k BY <1>3, <2>2
  <2>4. q[k] \in S /\ Cardinality(Since(S, q[k])) = k BY <2>1, <2>3
  <2>5. QED BY <2>2, <2>4
<1>5. q \in [1..n -> Nat] BY <1>4 DEF NewestFirst
<1> HIDE DEF q, n
<1>6. DOMAIN q = 1..n /\ q \in Seq(Nat) BY <1>2, <1>5
<1>7. Descending(q)
  <2> SUFFICES ASSUME NEW i \in 1..n, NEW k \in 1..n, i < k PROVE q[i] > q[k]
    BY <1>6 DEF Descending
  <2>1. i \in Nat /\ k \in Nat BY <1>2
  <2>2. q[i] \in S /\ q[k] \in S /\ Place(S)[q[i]] = i /\ Place(S)[q[k]] = k BY <1>4
  <2>3. q[i] # q[k] BY <2>1, <2>2
  <2>4. q[i] < q[k] => k < i BY <1>2, <2>2
  <2>5. ~(q[i] < q[k]) BY <2>1, <2>4
  <2>6. q[i] \in Nat /\ q[k] \in Nat BY <1>1, <2>2
  <2>7. QED BY <2>3, <2>5, <2>6
<1>8. Members(q) = S
  <2>1. ASSUME NEW i \in S PROVE \E k \in 1..n : q[k] = i
    <3>1. Place(S)[i] \in 1..n BY <1>2
    <3>2. q[Place(S)[i]] \in S /\ Place(S)[q[Place(S)[i]]] = Place(S)[i] BY <1>4, <3>1
    <3>3. q[Place(S)[i]] = i BY <1>3, <3>2
    <3>4. QED BY <3>1, <3>3
  <2>2. QED BY <1>4, <1>6, <2>1 DEF Members
<1>9. QED BY <1>6, <1>7, <1>8 DEF q

\* What is listed before all of a list, in order.
LEMMA JoinedDescends ==
  ASSUME NEW q \in Seq(Nat), NEW s \in Seq(Nat), Descending(q), Descending(s),
         \A x \in Members(q), y \in Members(s) : x > y
  PROVE  q \o s \in Seq(Nat) /\ Descending(q \o s) /\ Members(q \o s) = Members(q) \cup Members(s)
<1> DEFINE t == q \o s
           m == Len(q)
           n == Len(s)
<1>1. /\ t \in Seq(Nat) /\ DOMAIN t = 1..m + n /\ m \in Nat /\ n \in Nat
      /\ DOMAIN q = 1..m /\ DOMAIN s = 1..n
      /\ \A i \in 1..m : t[i] = q[i]
      /\ \A k \in 1..n : t[m + k] = s[k]
  BY Joined
<1> HIDE DEF t, m, n
<1>2. \A i \in 1..m + n : i \in 1..m \/ (i - m \in 1..n /\ i = m + (i - m) /\ i > m) BY <1>1
<1>3. \A i \in 1..m + n : i \notin 1..m => t[i] = s[i - m] BY <1>1, <1>2
<1>4. ASSUME NEW i \in 1..m + n, NEW k \in 1..m + n, i < k PROVE t[i] > t[k]
  <2>1. CASE k \in 1..m
    <3>1. i \in 1..m BY <1>1, <1>4, <2>1
    <3>2. QED BY <1>1, <1>4, <2>1, <3>1 DEF Descending
  <2>2. CASE i \in 1..m /\ k \notin 1..m
    <3>1. t[i] \in Members(q) BY <1>1, <2>2 DEF Members
    <3>2. t[k] \in Members(s) BY <1>1, <1>2, <1>3, <2>2 DEF Members
    <3>3. QED BY <3>1, <3>2
  <2>3. CASE i \notin 1..m /\ k \notin 1..m
    <3>1. i - m \in DOMAIN s /\ k - m \in DOMAIN s /\ i - m < k - m BY <1>1, <1>2, <1>4, <2>3
    <3>2. QED BY <1>3, <2>3, <3>1 DEF Descending
  <2>4. QED BY <2>1, <2>2, <2>3
<1>5. Descending(t) BY <1>1, <1>4 DEF Descending
<1>6. Members(t) = Members(q) \cup Members(s)
  <2>1. ASSUME NEW i \in 1..m + n PROVE t[i] \in Members(q) \cup Members(s)
    <3>1. CASE i \in 1..m
      <4>1. t[i] = q[i] /\ i \in DOMAIN q BY <1>1, <3>1
      <4>2. QED BY <4>1 DEF Members
    <3>2. CASE i \notin 1..m
      <4>1. t[i] = s[i - m] /\ i - m \in DOMAIN s BY <1>1, <1>2, <1>3, <3>2
      <4>2. QED BY <4>1 DEF Members
    <3>3. QED BY <3>1, <3>2
  <2>2. \A i \in 1..m : i \in 1..m + n /\ t[i] = q[i] BY <1>1
  <2>3. \A k \in 1..n : m + k \in 1..m + n /\ t[m + k] = s[k] BY <1>1
  <2>4. Members(t) \subseteq Members(q) \cup Members(s)
    BY <1>1, <2>1 DEF Members
  <2>5. Members(q) \subseteq Members(t)
    BY <1>1, <2>2 DEF Members
  <2>6. Members(s) \subseteq Members(t)
    <3> SUFFICES ASSUME NEW k \in 1..n PROVE s[k] \in Members(t)
      BY <1>1 DEF Members
    <3>1. m + k \in DOMAIN t /\ t[m + k] = s[k] BY <1>1, <2>3
    <3>2. QED BY <3>1 DEF Members
  <2>7. QED BY <2>4, <2>5, <2>6
<1>7. QED BY <1>1, <1>5, <1>6 DEF t

\* The rows of edits that run r has made, in the passes up to p.
MadeIn(q, r, p) == {i \in DOMAIN q : /\ q[i].run = r /\ q[i].outcome \in ConsumedOutcomes
                                     /\ q[i].pass <= p}

\* A run writes the rows of its passes one pass after another.
PassesInOrder == \A i, j \in DOMAIN rows : rows[i].run = rows[j].run =>
  rows[i].pass <= pass[rows[i].run] /\ (i < j => rows[i].pass <= rows[j].pass)

\* A report has what was made in the passes that are over, and none is made but under the lock.
ReportOf(r) ==
  /\ report[r] \in Seq(Nat) /\ Descending(report[r])
  /\ Members(report[r]) = MadeIn(rows, r, IF stage[r] = "ended" THEN pass[r] ELSE pass[r] - 1)
  /\ stage[r] \notin Locked \cup {"ended"} => MadeIn(rows, r, pass[r]) = MadeIn(rows, r, pass[r] - 1)

ReportInv == /\ PassTypes /\ report \in [Runs -> Seq(Nat)]
             /\ \A r \in Runs : pass[r] <= MaxPasses
             /\ PassesInOrder
             /\ \A r \in Runs : ReportOf(r)

\* Rows stay, and new ones come after them.
LEMMA RowsGrow ==
  ASSUME PassTypes, NEW r \in Runs, NEW new, News(r, new)
  PROVE  /\ \A i \in DOMAIN rows : i \in DOMAIN rows' /\ rows'[i] = rows[i]
         /\ \A i \in DOMAIN rows' \ DOMAIN rows :
              /\ rows'[i].run = r /\ rows'[i].pass = pass[r]
              /\ Silent(new) => rows'[i].outcome \notin ConsumedOutcomes
              /\ \A j \in DOMAIN rows : j < i
         /\ DOMAIN rows' \subseteq Nat
<1>1. /\ rows \in Seq(RowRecords) /\ new \in Seq(RowRecords) /\ rows' = rows \o new
      /\ DOMAIN rows = 1..Len(rows) /\ Len(rows) \in Nat /\ Len(new) \in Nat
  BY DEF PassTypes, News
<1>2. /\ DOMAIN rows' = 1..Len(rows) + Len(new)
      /\ \A i \in 1..Len(rows) : rows'[i] = rows[i]
      /\ \A k \in 1..Len(new) : rows'[Len(rows) + k] = new[k]
  BY <1>1, Joined
<1>3. ASSUME NEW i \in DOMAIN rows', i \notin DOMAIN rows
      PROVE  /\ \E k \in 1..Len(new) : rows'[i] = new[k]
             /\ \A j \in DOMAIN rows : j < i
  <2>1. i - Len(rows) \in 1..Len(new) /\ i = Len(rows) + (i - Len(rows)) /\ i > Len(rows)
    BY <1>1, <1>2, <1>3
  <2>2. rows'[i] = new[i - Len(rows)] BY <1>2, <2>1
  <2>3. \A j \in 1..Len(rows) : j < i BY <1>1, <1>2, <2>1
  <2>4. QED BY <1>1, <2>1, <2>2, <2>3
<1>4. ASSUME NEW i \in DOMAIN rows', i \notin DOMAIN rows
      PROVE  /\ rows'[i].run = r /\ rows'[i].pass = pass[r]
             /\ Silent(new) => rows'[i].outcome \notin ConsumedOutcomes
  <2>1. PICK k \in 1..Len(new) : rows'[i] = new[k] BY <1>3, <1>4
  <2>2. new[k].run = r /\ new[k].pass = pass[r] BY DEF News
  <2>3. Silent(new) => new[k].outcome = NoEditMade BY DEF Silent
  <2>4. NoEditMade \notin ConsumedOutcomes BY DEF NoEditMade, ConsumedOutcomes
  <2>5. QED BY <2>1, <2>2, <2>3, <2>4
<1>5. \A i \in DOMAIN rows : i \in DOMAIN rows' /\ rows'[i] = rows[i] BY <1>1, <1>2
<1>6. DOMAIN rows' \subseteq Nat BY <1>1, <1>2
<1>7. \A i \in DOMAIN rows' \ DOMAIN rows : \A j \in DOMAIN rows : j < i
  BY <1>3
<1>8. QED BY <1>4, <1>5, <1>6, <1>7

LEMMA RowIs ==
  ASSUME PassTypes
  PROVE  /\ DOMAIN rows \subseteq Nat /\ IsFiniteSet(DOMAIN rows)
         /\ \A i \in DOMAIN rows : rows[i].run \in Runs /\ rows[i].pass \in Nat \ {0}
<1>1. rows \in Seq(RowRecords) BY DEF PassTypes
<1>2. /\ DOMAIN rows = 1..Len(rows) /\ Len(rows) \in Int /\ 1 \in Int
      /\ \A i \in DOMAIN rows : rows[i] \in RowRecords
  BY <1>1
<1>3. IsFiniteSet(DOMAIN rows) BY <1>2, FS_Interval
<1>4. QED BY <1>2, <1>3 DEF RowRecords

LEMMA PassesStay ==
  ASSUME PassTypes, PassesInOrder, NEW r \in Runs, RunStep(r)
  PROVE  PassesInOrder'
<1>1. PICK new : News(r, new) BY StepEffect
<1>2. \A q \in Runs : pass[q] \in Nat /\ pass'[q] \in Nat /\ pass[q] <= pass'[q]
  <2>1. pass'[r] = pass[r] \/ pass'[r] = pass[r] + 1 BY PassEffect
  <2>2. PassTypes' /\ \A q \in Runs \ {r} : pass'[q] = pass[q] BY StepEffect
  <2>3. \A q \in Runs : pass[q] \in Nat /\ pass'[q] \in Nat BY <2>2 DEF PassTypes
  <2>4. QED BY <2>1, <2>2, <2>3
<1>3. /\ \A i \in DOMAIN rows : i \in DOMAIN rows' /\ rows'[i] = rows[i]
      /\ \A i \in DOMAIN rows' \ DOMAIN rows :
           /\ rows'[i].run = r /\ rows'[i].pass = pass[r]
           /\ \A j \in DOMAIN rows : j < i
      /\ DOMAIN rows' \subseteq Nat
  BY <1>1, RowsGrow
<1>4. \A i \in DOMAIN rows : rows[i].run \in Runs /\ rows[i].pass \in Nat
  BY RowIs
<1> SUFFICES ASSUME NEW i \in DOMAIN rows', NEW j \in DOMAIN rows', rows'[i].run = rows'[j].run
             PROVE  /\ rows'[i].pass <= pass'[rows'[i].run]
                    /\ i < j => rows'[i].pass <= rows'[j].pass
  BY DEF PassesInOrder
<1>5. \A k \in DOMAIN rows' : rows'[k].pass <= pass'[rows'[k].run]
  <2> SUFFICES ASSUME NEW k \in DOMAIN rows' PROVE rows'[k].pass <= pass'[rows'[k].run]
    OBVIOUS
  <2>1. CASE k \in DOMAIN rows
    <3>1. rows'[k] = rows[k] /\ rows[k].pass <= pass[rows[k].run] BY <1>3, <2>1 DEF PassesInOrder
    <3>2. QED BY <1>2, <1>4, <2>1, <3>1
  <2>2. CASE k \notin DOMAIN rows BY <1>2, <1>3, <2>2
  <2>3. QED BY <2>1, <2>2
<1>6. ASSUME i < j PROVE rows'[i].pass <= rows'[j].pass
  <2>1. CASE i \in DOMAIN rows /\ j \in DOMAIN rows
    BY <1>3, <1>6, <2>1 DEF PassesInOrder
  <2>2. CASE i \in DOMAIN rows /\ j \notin DOMAIN rows
    BY <1>3, <2>2 DEF PassesInOrder
  <2>3. CASE i \notin DOMAIN rows /\ j \in DOMAIN rows
    BY <1>3, <1>6, <2>3
  <2>4. CASE i \notin DOMAIN rows /\ j \notin DOMAIN rows
    BY <1>2, <1>3, <2>4
  <2>5. QED BY <2>1, <2>2, <2>3, <2>4
<1>7. QED BY <1>5, <1>6

\* A step that makes no edit leaves what was made; one that does adds to its own pass.
LEMMA MadeStays ==
  ASSUME PassTypes, NEW r \in Runs, NEW new, News(r, new), NEW q \in Runs, NEW p \in Nat,
         q # r \/ p < pass[r] \/ Silent(new)
  PROVE  MadeIn(rows', q, p) = MadeIn(rows, q, p)
<1>1. /\ \A i \in DOMAIN rows : i \in DOMAIN rows' /\ rows'[i] = rows[i]
      /\ \A i \in DOMAIN rows' \ DOMAIN rows :
           /\ rows'[i].run = r /\ rows'[i].pass = pass[r]
           /\ Silent(new) => rows'[i].outcome \notin ConsumedOutcomes
  BY RowsGrow
<1>2. pass[r] \in Nat BY DEF PassTypes
<1>3. QED BY <1>1, <1>2 DEF MadeIn

\* What a run has to list stays while none of its passes comes to its end.
LEMMA ReportStays ==
  ASSUME ReportInv, NEW r \in Runs, NEW new, News(r, new), NEW q \in Runs,
         report'[q] = report[q], pass'[q] = pass[q],
         \/ q # r /\ stage'[q] = stage[q]
         \/ /\ q = r /\ stage[q] # "ended" /\ stage'[q] \in Locked
         \/ /\ q = r /\ stage[q] \notin Locked \cup {"ended"} /\ Silent(new)
  PROVE  ReportOf(q)'
<1>1. PassTypes /\ ReportOf(q) /\ pass[q] \in Nat /\ pass[q] - 1 \in Nat
  BY DEF ReportInv, PassTypes
<1>2. "ended" \notin Locked BY DEF Locked
<1>3. ASSUME q # r \/ Silent(new)
      PROVE  /\ MadeIn(rows', q, pass[q]) = MadeIn(rows, q, pass[q])
             /\ MadeIn(rows', q, pass[q] - 1) = MadeIn(rows, q, pass[q] - 1)
  BY <1>1, <1>3, MadeStays
<1>4. CASE q # r /\ stage'[q] = stage[q]
  BY <1>1, <1>3, <1>4 DEF ReportOf
<1>5. CASE q = r /\ stage[q] # "ended" /\ stage'[q] \in Locked
  <2>1. pass[q] - 1 < pass[r] BY <1>1, <1>5
  <2>2. MadeIn(rows', q, pass[q] - 1) = MadeIn(rows, q, pass[q] - 1)
    BY <1>1, <2>1, MadeStays
  <2>3. QED BY <1>1, <1>2, <1>5, <2>2 DEF ReportOf
<1>6. CASE q = r /\ stage[q] \notin Locked \cup {"ended"} /\ Silent(new)
  BY <1>1, <1>2, <1>3, <1>6 DEF ReportOf
<1>7. QED BY <1>4, <1>5, <1>6

\* A pass that comes to its end lists what it made before what earlier ones made.
LEMMA ConcludeReports ==
  ASSUME ReportInv, NEW r \in Runs, Conclude(r)
  PROVE  ReportOf(r)'
<1>1. /\ PassTypes /\ PassesInOrder /\ ReportOf(r)
      /\ pass[r] \in Nat /\ pass[r] - 1 \in Nat /\ pass[r] + 1 \in Nat
  BY DEF ReportInv, PassTypes
<1>2. PICK new : News(r, new) /\ Silent(new) BY <1>1, ConcludeEffect
<1>3. /\ stage[r] \in Locked /\ stage[r] # "ended"
      /\ \/ stage'[r] = "ended" /\ pass'[r] = pass[r]
         \/ stage'[r] = "between" /\ pass'[r] = pass[r] + 1
  BY <1>1, ConcludeEffect DEF PassTypes, Moved, Locked
<1> DEFINE own == Made(r, pass[r])
           past == MadeIn(rows, r, pass[r] - 1)
<1>4. DOMAIN rows \subseteq Nat /\ IsFiniteSet(DOMAIN rows)
  BY <1>1, RowIs
<1>5. \A i \in DOMAIN rows : rows[i].pass \in Nat BY <1>1, RowIs
<1>6. own \in SUBSET Nat /\ IsFiniteSet(own)
  <2>1. own \in SUBSET DOMAIN rows BY DEF Made
  <2>2. QED BY <1>4, <2>1, FS_Subset
<1>7. \A x \in own, y \in past : x > y
  <2> SUFFICES ASSUME NEW x \in own, NEW y \in past PROVE x > y
    OBVIOUS
  <2>1. /\ x \in DOMAIN rows /\ y \in DOMAIN rows /\ rows[x].run = rows[y].run
        /\ rows[x].pass = pass[r] /\ rows[y].pass <= pass[r] - 1
    BY DEF Made, MadeIn
  <2>2. ~(x < y) /\ x # y BY <1>1, <1>5, <2>1 DEF PassesInOrder
  <2>3. QED BY <1>4, <2>1, <2>2
<1>8. MadeIn(rows, r, pass[r]) = own \cup past
  BY <1>1, <1>5 DEF MadeIn, Made
<1>9. \A p \in Nat : MadeIn(rows', r, p) = MadeIn(rows, r, p) BY <1>1, <1>2, MadeStays
<1>10. MadeIn(rows, r, pass[r] + 1) = MadeIn(rows, r, pass[r])
  <2>1. \A i \in DOMAIN rows : rows[i].run = r => rows[i].pass <= pass[r]
    BY <1>1 DEF PassesInOrder
  <2>2. QED BY <1>1, <1>5, <2>1 DEF MadeIn
<1> HIDE DEF own, past
<1>11. report'[r] = NewestFirst(own) \o report[r]
  BY DEF Conclude, Recoveries, ReportInv, own
<1>12. /\ report[r] \in Seq(Nat) /\ Descending(report[r]) /\ Members(report[r]) = past
  BY <1>1, <1>3 DEF ReportOf, past
<1>13. /\ NewestFirst(own) \in Seq(Nat) /\ Descending(NewestFirst(own))
       /\ Members(NewestFirst(own)) = own
  BY <1>6, NewestFirstIs
<1>14. /\ report'[r] \in Seq(Nat) /\ Descending(report'[r])
       /\ Members(report'[r]) = MadeIn(rows, r, pass[r])
  BY <1>7, <1>8, <1>11, <1>12, <1>13, JoinedDescends
<1>15. CASE stage'[r] = "ended" /\ pass'[r] = pass[r]
  BY <1>1, <1>9, <1>14, <1>15 DEF ReportOf
<1>16. CASE stage'[r] = "between" /\ pass'[r] = pass[r] + 1
  <2>1. pass'[r] - 1 = pass[r] BY <1>1, <1>16
  <2>2. QED BY <1>1, <1>9, <1>10, <1>14, <1>16, <2>1 DEF ReportOf
<1>17. QED BY <1>3, <1>15, <1>16

LEMMA ReportStep ==
  ASSUME ReportInv, NEW r \in Runs, RunStep(r)
  PROVE  ReportInv'
<1>1. PassTypes /\ PassesInOrder BY DEF ReportInv
<1>2. PassTypes' /\ PassesInOrder' BY <1>1, StepEffect, PassesStay
<1>3. PICK new : News(r, new) /\ (Silent(new) \/ EditMade(r)) BY <1>1, StepEffect
<1>4. \A q \in Runs \ {r} : stage'[q] = stage[q] /\ pass'[q] = pass[q] BY <1>1, StepEffect
<1>5. CASE Conclude(r)
  <2>1. /\ report' = [report EXCEPT ![r] = Recoveries(r)]
        /\ \/ UNCHANGED pass
           \/ pass[r] < MaxPasses /\ pass' = [pass EXCEPT ![r] = @ + 1]
    BY <1>5 DEF Conclude
  <2>2. ReportOf(r)' BY <1>5, ConcludeReports
  <2>3. \A q \in Runs \ {r} : report'[q] = report[q] BY <2>1 DEF ReportInv
  <2>4. report'[r] \in Seq(Nat) BY <2>2 DEF ReportOf
  <2>5. report' \in [Runs -> Seq(Nat)] BY <2>1, <2>4 DEF ReportInv
  <2>6. ASSUME NEW q \in Runs PROVE pass'[q] <= MaxPasses
    <3>1. pass[q] \in Nat /\ pass[q] <= MaxPasses /\ MaxPasses \in Nat
      BY <1>1, RefinePassAssumption DEF ReportInv, PassTypes
    <3>2. CASE q = r /\ pass[r] < MaxPasses /\ pass' = [pass EXCEPT ![r] = @ + 1]
      BY <1>1, <3>1, <3>2 DEF PassTypes
    <3>3. CASE pass'[q] = pass[q] BY <3>1, <3>3
    <3>4. QED BY <1>4, <2>1, <3>2, <3>3
  <2>7. \A q \in Runs \ {r} : ReportOf(q)' BY <1>3, <1>4, <2>3, ReportStays
  <2>8. QED BY <1>2, <2>2, <2>5, <2>6, <2>7 DEF ReportInv
<1>6. CASE ~Conclude(r)
  <2>1. UNCHANGED <<report, pass>>
    BY <1>1, <1>6, StepKinds, EarlyEffect, DroppedEffect, TakeLockEffect, EditFailsEffect,
       EditMadeEffect
  <2>2. \A q \in Runs \ {r} : ReportOf(q)' BY <1>3, <1>4, <2>1, ReportStays
  <2>3. ReportOf(r)'
    <3>1. CASE EarlyStep(r) \/ LosePlace(r) \/ RefuseTransaction(r)
      <4>1. stage[r] \notin Locked \cup {"ended"}
        BY <1>1, <3>1, EarlyEffect, DroppedEffect DEF Early, Locked
      <4>2. PICK silent : News(r, silent) /\ Silent(silent)
        BY <1>1, <3>1, EarlyEffect, DroppedEffect DEF OneRow
      <4>3. QED BY <2>1, <4>1, <4>2, ReportStays
    <3>2. CASE TakeLock(r) \/ EditFails(r) \/ EditMade(r)
      <4>1. stage[r] # "ended" /\ \E where \in Locked : Moved(r, where)
        BY <1>1, <3>2, TakeLockEffect, EditFailsEffect, EditMadeEffect DEF Locked
      <4>2. stage'[r] \in Locked BY <1>1, <4>1 DEF Moved, PassTypes
      <4>3. QED BY <1>3, <2>1, <4>1, <4>2, ReportStays
    <3>3. QED BY <1>6, <3>1, <3>2, StepKinds
  <2>4. QED BY <1>2, <2>1, <2>2, <2>3 DEF ReportInv
<1>7. QED BY <1>5, <1>6

LEMMA ReportInit == PassInit => ReportInv
<1>1. SUFFICES ASSUME PassInit PROVE ReportInv OBVIOUS
<1>2. PassTypes BY <1>1, InitialTypes
<1>3. rows = <<>> /\ DOMAIN rows = {} BY <1>1 DEF PassInit
<1>4. <<>> \in Seq(Nat) /\ DOMAIN <<>> = {} OBVIOUS
<1>5. report \in [Runs -> Seq(Nat)] /\ \A r \in Runs : report[r] = <<>> /\ pass[r] = 1
  BY <1>1, <1>4 DEF PassInit
<1>6. PassesInOrder BY <1>3 DEF PassesInOrder
<1>7. \A r \in Runs : ReportOf(r)
  <2>1. \A r, p : MadeIn(rows, r, p) = {} BY <1>3 DEF MadeIn
  <2>2. QED BY <1>4, <1>5, <2>1 DEF ReportOf, Descending, Members
<1>8. QED BY <1>2, <1>5, <1>6, <1>7, RefinePassAssumption DEF ReportInv

LEMMA ReportNext == ReportInv /\ [PassNext]_passVars => ReportInv'
<1>1. SUFFICES ASSUME ReportInv, [PassNext]_passVars PROVE ReportInv' OBVIOUS
<1>2. CASE \E r \in Runs : RunStep(r)
  BY <1>1, <1>2, ReportStep
<1>3. CASE Rewind \/ (\E t \in Targets : Rewrite(t)) \/ UNCHANGED passVars
  <2>1. PassTypes BY <1>1 DEF ReportInv
  <2>2. UNCHANGED <<stage, pass, rows, report>> /\ PassTypes' BY <1>3, <2>1, UserEffect
  <2>3. PassesInOrder' BY <1>1, <2>2 DEF ReportInv, PassesInOrder
  <2>4. \A r \in Runs : ReportOf(r)' BY <1>1, <2>2 DEF ReportInv, ReportOf
  <2>5. QED BY <1>1, <2>2, <2>3, <2>4 DEF ReportInv
<1>4. QED BY <1>1, <1>2, <1>3 DEF PassNext

\* What a run tells the user to roll back is every edit it made, the newest first, whatever
\* stopped its passes and whichever runs wrote rows between (_recoveries_for, refine_run).
THEOREM RecoveriesAreInOrder == PassSpec => []RecoveriesNewestFirst
<1>1. ReportInv => RecoveriesNewestFirst
  <2>1. SUFFICES ASSUME ReportInv, NEW r \in Runs
                 PROVE  /\ Descending(report[r])
                        /\ stage[r] = "ended" =>
                             Members(report[r]) = UNION {Made(r, p) : p \in 1..MaxPasses}
    BY DEF RecoveriesNewestFirst, Descending, Members
  <2>2. /\ ReportOf(r) /\ PassesInOrder /\ pass[r] \in Nat /\ pass[r] <= MaxPasses
    BY <2>1 DEF ReportInv, PassTypes
  <2>3. \A i \in DOMAIN rows : rows[i].pass \in Nat \ {0}
    BY <2>1, RowIs DEF ReportInv
  <2>4. \A i \in DOMAIN rows : rows[i].run = r => rows[i].pass <= pass[r]
    BY <2>2 DEF PassesInOrder
  <2>5. MadeIn(rows, r, pass[r]) = UNION {Made(r, p) : p \in 1..MaxPasses}
    <3>1. ASSUME NEW i \in MadeIn(rows, r, pass[r])
          PROVE  rows[i].pass \in 1..MaxPasses /\ i \in Made(r, rows[i].pass)
      <4>1. /\ i \in DOMAIN rows /\ rows[i].pass <= pass[r]
            /\ rows[i].run = r /\ rows[i].outcome \in ConsumedOutcomes
        BY <3>1 DEF MadeIn
      <4>2. MaxPasses \in Nat BY RefinePassAssumption
      <4>3. rows[i].pass \in 1..MaxPasses BY <2>2, <2>3, <4>1, <4>2
      <4>4. QED BY <4>1, <4>3 DEF Made
    <3>2. ASSUME NEW p \in 1..MaxPasses, NEW i \in Made(r, p)
          PROVE  i \in MadeIn(rows, r, pass[r])
      BY <2>4, <3>2 DEF MadeIn, Made
    <3>3. QED BY <3>1, <3>2
  <2>6. QED BY <2>2, <2>5 DEF ReportOf
<1>2. QED BY ReportInit, ReportNext, <1>1, PTL DEF PassSpec

-----------------------------------------------------------------------------
(* What reached a model. *)

\* The stages of a pass that has an answer.
Served == {"waiting"} \cup Locked

Bounds ==
  /\ quiet \in [Runs -> BOOLEAN]
  /\ \A r \in Runs : Len(plan[r]) <= MaxEdits /\ next[r] <= MaxEdits + 1
  /\ \A r \in Runs : stage[r] \in Served => <<r, pass[r]>> \in reached
  /\ reached \subseteq Runs \X (1..MaxPasses) /\ lost \subseteq reached
  /\ abreast \in 0..Cardinality(Runs)

\* A step adds its own pass to what reached a model, and to what lost its row only if it did.
LEMMA ReachedEffect ==
  ASSUME PassTypes, NEW r \in Runs, RunStep(r)
  PROVE  /\ reached \subseteq reached' /\ reached' \subseteq reached \cup {<<r, pass[r]>>}
         /\ lost' \subseteq lost \cup {<<r, pass[r]>>}
         /\ UNCHANGED lost \/ stage[r] \in Served \/ <<r, pass[r]>> \in reached'
<1> DEFINE own == <<r, pass[r]>>
<1>1. ASSUME NEW counts, NEW i, Record(r, Row(r, i, NoEditMade, counts))
      PROVE  UNCHANGED lost \/ (counts /\ lost' = lost \cup {own})
  BY <1>1 DEF Record, Row
<1>2. ASSUME NEW new, RecordAll(r, new)
      PROVE  UNCHANGED lost \/ lost' = lost \cup {own}
  BY <1>2 DEF RecordAll
<1>3. CASE Review(r) \/ AskedAndOver(r)
  <2>1. reached' = reached \cup {own} /\ Record(r, Row(r, 0, NoEditMade, TRUE))
    BY <1>3 DEF Review, AskedAndOver
  <2>2. QED BY <1>1, <2>1
<1>4. CASE AnswerIsPlan(r)
  BY <1>4 DEF AnswerIsPlan
<1>5. CASE LosePlace(r)
  BY <1>5 DEF LosePlace, Served
<1>6. CASE RefuseTransaction(r) \/ EditFails(r) \/ Conclude(r)
  <2>1. UNCHANGED reached /\ stage[r] \in Served
    BY <1>6 DEF RefuseTransaction, EditFails, Due, Conclude, Served, Locked
  <2>2. \/ \E i : Record(r, Row(r, i, NoEditMade, TRUE))
        \/ \E new : RecordAll(r, new)
    BY <1>6 DEF RefuseTransaction, EditFails, Conclude
  <2>3. QED BY <1>1, <1>2, <2>1, <2>2
<1>7. CASE TakeLock(r) \/ EditMade(r)
  BY <1>7 DEF TakeLock, EditMade
<1>8. CASE Begin(r) \/ NextPass(r) \/ CollectEvidence(r) \/ FindSignal(r)
  BY <1>8 DEF Begin, NextPass, CollectEvidence, FindSignal
<1>9. CASE \/ NoPlace(r) \/ RefusePass(r) \/ LimitRefused(r) \/ NoEvidence(r)
           \/ NothingToOffer(r) \/ CaptureRevision(r)
  <2>1. UNCHANGED reached
    BY <1>9 DEF NoPlace, RefusePass, LimitRefused, NoEvidence, NothingToOffer, CaptureRevision
  <2>2. UNCHANGED lost \/ Record(r, Row(r, 0, NoEditMade, FALSE))
    BY <1>9 DEF NoPlace, RefusePass, LimitRefused, NoEvidence, NothingToOffer, CaptureRevision
  <2>3. QED BY <1>1, <2>1, <2>2
<1>10. CASE StrictFails(r)
  BY <1>10 DEF StrictFails
<1>11. QED
  BY <1>3, <1>4, <1>5, <1>6, <1>7, <1>8, <1>9, <1>10, StepKinds DEF EarlyStep

\* The plan of a pass is a proposal, and the edit that is due is one of it or comes after it.
LEMMA PlanEffect ==
  ASSUME PassTypes, Bounds, NEW r \in Runs, RunStep(r)
  PROVE  /\ Len(plan'[r]) <= MaxEdits /\ next'[r] <= MaxEdits + 1
         /\ quiet' \in [Runs -> BOOLEAN]
<1>1. /\ MaxEdits \in Nat \ {0} /\ Len(plan[r]) <= MaxEdits /\ next[r] <= MaxEdits + 1
      /\ Len(plan[r]) \in Nat /\ next[r] \in Nat
  BY RefinePassAssumption DEF PassTypes, Bounds
<1>2. quiet' \in [Runs -> BOOLEAN]
  <2>1. \/ UNCHANGED quiet \/ \E b \in BOOLEAN : quiet' = [quiet EXCEPT ![r] = b]
    BY StepKinds DEF EarlyStep, Begin, NextPass, NoPlace, RefusePass, LimitRefused, NoEvidence,
       CollectEvidence, CaptureRevision, FindSignal, NothingToOffer, Review, AskedAndOver,
       StrictFails, AnswerIsPlan, LosePlace, RefuseTransaction, TakeLock, EditFails, EditMade, Conclude, Ends,
       Forget, Locals, Planned
  <2>2. QED BY <2>1 DEF Bounds
<1>3. CASE EditFails(r) \/ EditMade(r)
  <2>1. UNCHANGED plan /\ next[r] <= Len(plan[r]) /\ next'[r] = next[r] + 1
    BY <1>3, EditFailsEffect, EditMadeEffect
  <2>2. QED BY <1>1, <1>2, <2>1
<1>4. CASE AnswerIsPlan(r)
  <2>1. PICK p \in Plans : plan' = [plan EXCEPT ![r] = p] BY <1>4 DEF AnswerIsPlan
  <2>2. PICK n \in 0..MaxEdits : p \in [1..n -> PlanEdits] BY <2>1 DEF Plans
  <2>3. Len(p) = n BY <1>1, <2>2
  <2>4. plan'[r] = p /\ next'[r] = 1 BY <1>4, <2>1 DEF AnswerIsPlan, PassTypes
  <2>5. QED BY <1>1, <1>2, <2>2, <2>3, <2>4
<1>5. CASE Forget(r)
  <2>1. plan'[r] = <<>> /\ next'[r] = 1 BY <1>5 DEF Forget, PassTypes
  <2>2. QED BY <1>1, <1>2, <2>1
<1>6. CASE UNCHANGED <<plan, next>>
  BY <1>1, <1>2, <1>6
<1>7. QED
  BY <1>3, <1>4, <1>5, <1>6, StepKinds
  DEF EarlyStep, Begin, NextPass, NoPlace, RefusePass, LimitRefused, NoEvidence, CollectEvidence,
      CaptureRevision, FindSignal, NothingToOffer, Review, AskedAndOver, StrictFails, LosePlace,
      RefuseTransaction, TakeLock, Conclude, Ends, Locals, Planned

LEMMA BoundsStep ==
  ASSUME ReportInv, Bounds, NEW r \in Runs, RunStep(r)
  PROVE  Bounds'
<1>1. PassTypes /\ pass[r] \in 1..MaxPasses
  <2>1. PassTypes /\ pass[r] <= MaxPasses BY DEF ReportInv
  <2>2. pass[r] \in Nat \ {0} BY <2>1 DEF PassTypes
  <2>3. MaxPasses \in Nat BY RefinePassAssumption
  <2>4. QED BY <2>1, <2>2, <2>3
<1>2. \A q \in Runs \ {r} : /\ stage'[q] = stage[q] /\ pass'[q] = pass[q]
                           /\ plan'[q] = plan[q] /\ next'[q] = next[q]
  BY <1>1, StepEffect
<1>3. /\ Len(plan'[r]) <= MaxEdits /\ next'[r] <= MaxEdits + 1
      /\ quiet' \in [Runs -> BOOLEAN]
  BY <1>1, PlanEffect
<1>4. /\ reached \subseteq reached' /\ reached' \subseteq reached \cup {<<r, pass[r]>>}
      /\ lost' \subseteq lost \cup {<<r, pass[r]>>}
      /\ UNCHANGED lost \/ stage[r] \in Served \/ <<r, pass[r]>> \in reached'
  BY <1>1, ReachedEffect
<1>5. stage'[r] \in Served => <<r, pass'[r]>> \in reached'
  <2>1. CASE AnswerIsPlan(r)
    BY <2>1 DEF AnswerIsPlan
  <2>2. CASE TakeLock(r) \/ EditFails(r) \/ EditMade(r)
    <3>1. stage[r] \in Served /\ UNCHANGED pass
      BY <1>1, <2>2, TakeLockEffect, EditFailsEffect, EditMadeEffect DEF Served, Locked
    <3>2. QED BY <1>4, <3>1 DEF Bounds
  <2>3. CASE LosePlace(r) \/ RefuseTransaction(r) \/ Conclude(r)
    <3>1. stage'[r] \in {"ended", "between"}
      BY <1>1, <2>3, DroppedEffect, ConcludeEffect DEF Moved, PassTypes
    <3>2. QED BY <3>1 DEF Served, Locked
  <2>4. CASE EarlyStep(r) /\ ~AnswerIsPlan(r)
    <3>1. stage' = [stage EXCEPT ![r] = stage'[r]] /\ stage'[r] \in Early \cup {"ended"}
      BY <1>1, <2>4 DEF EarlyStep, Begin, NextPass, NoPlace, RefusePass, LimitRefused, NoEvidence,
           CollectEvidence, CaptureRevision, FindSignal, NothingToOffer, Review, AskedAndOver,
           StrictFails, Ends, Goes, Early, PassTypes, Stages
    <3>2. QED BY <3>1 DEF Early, Served, Locked
  <2>5. QED BY <2>1, <2>2, <2>3, <2>4, StepKinds
<1>6. ASSUME NEW q \in Runs, stage'[q] \in Served PROVE <<q, pass'[q]>> \in reached'
  BY <1>2, <1>4, <1>5, <1>6 DEF Bounds
<1>7. \A q \in Runs : Len(plan'[q]) <= MaxEdits /\ next'[q] <= MaxEdits + 1
  BY <1>2, <1>3 DEF Bounds
<1>8. lost' \subseteq reached'
  <2>1. stage[r] \in Served => <<r, pass[r]>> \in reached' BY <1>4 DEF Bounds
  <2>2. QED BY <1>4, <2>1 DEF Bounds
<1>9. reached' \subseteq Runs \X (1..MaxPasses) BY <1>1, <1>4 DEF Bounds
<1>10. abreast' \in 0..Cardinality(Runs)
  <2>1. abreast \in Nat /\ abreast <= Cardinality(Runs) /\ Cardinality(Runs) \in Nat
    BY RefinePassAssumption, FS_CardinalityType DEF Bounds
  <2>2. CASE UNCHANGED abreast
    BY <2>1, <2>2
  <2>3. CASE CollectEvidence(r)
    <3>1. abreast' \in Nat /\ abreast' <= Cardinality(Runs)
      BY <1>1, <2>1, <2>3, AbreastCounts
    <3>2. QED BY <2>1, <3>1
  <2>4. QED BY <1>1, <2>2, <2>3, AbreastStays
<1>11. QED BY <1>3, <1>6, <1>7, <1>8, <1>9, <1>10 DEF Bounds

LEMMA BoundsInit == PassInit => Bounds
<1>1. SUFFICES ASSUME PassInit PROVE Bounds OBVIOUS
<1>2. Len(<<>>) = 0 OBVIOUS
<1>3. Cardinality(Runs) \in Nat BY RefinePassAssumption, FS_CardinalityType
<1>4. QED BY <1>1, <1>2, <1>3, RefinePassAssumption DEF PassInit, Bounds, Served, Locked

LEMMA BoundsNext == ReportInv /\ Bounds /\ [PassNext]_passVars => Bounds'
<1>1. SUFFICES ASSUME ReportInv, Bounds, [PassNext]_passVars PROVE Bounds' OBVIOUS
<1>2. CASE Rewind \/ (\E t \in Targets : Rewrite(t)) \/ UNCHANGED passVars
  <2>1. UNCHANGED <<stage, pass, quiet, plan, next, abreast, reached, lost>>
    BY <1>2 DEF Rewind, Rewrite, passVars, Locals, Planned
  <2>2. QED BY <1>1, <2>1 DEF Bounds
<1>3. QED BY <1>1, <1>2, BoundsStep DEF PassNext

\* Every variable of a run keeps its type; a pass that lost its row had reached a model, in a
\* pass the configuration allows (_refine_once, refine_run).
THEOREM PassTypesHold == PassSpec => []PassTypeOK
<1>1. ReportInv /\ Bounds => PassTypeOK
  <2>1. SUFFICES ASSUME ReportInv, Bounds PROVE PassTypeOK OBVIOUS
  <2>2. pass \in [Runs -> 1..MaxPasses] /\ next \in [Runs -> 1..MaxEdits + 1]
    BY <2>1, RefinePassAssumption DEF ReportInv, PassTypes, Bounds
  <2>3. ASSUME NEW r \in Runs PROVE plan[r] \in Plans
    <3>1. plan[r] \in Seq(PlanEdits) /\ Len(plan[r]) <= MaxEdits /\ MaxEdits \in Nat
      BY <2>1, RefinePassAssumption DEF ReportInv, PassTypes, Bounds
    <3>2. Len(plan[r]) \in 0..MaxEdits /\ plan[r] \in [1..Len(plan[r]) -> PlanEdits] BY <3>1
    <3>3. QED BY <3>2 DEF Plans
  <2>4. plan \in [Runs -> Plans] BY <2>1, <2>3 DEF ReportInv, PassTypes
  <2>5. QED BY <2>1, <2>2, <2>4 DEF ReportInv, PassTypes, Stages, Bounds, PassTypeOK
<1>2. QED BY ReportInit, ReportNext, BoundsInit, BoundsNext, <1>1, PTL DEF PassSpec

-----------------------------------------------------------------------------
(* The proposal of a pass (Proposer). *)

\* Every step that asks, answers or settles, as one list.
LEMMA ProposerSteps ==
  ASSUME [ProposerNext]_proposerVars
  PROVE  \/ UNCHANGED proposerVars
         \/ StartReview \/ StartStructured \/ SubagentAnswers \/ SubagentFails
         \/ FallBackToJson \/ NoAnswer \/ CallRaises
         \/ Proposed \/ Grounded \/ ContentWritten \/ Shortened \/ NoteRepaired \/ PatchWritten
         \/ Reviewed \/ Retry \/ Judge
BY DEF ProposerNext

Steps == {"first", "grounded", "retried"}

\* What the retry of a create may be.
Retried(p) == [p EXCEPT !.print = IF prop.print # NoPrint THEN prop.print ELSE p.print]

\* An answer that is a proposal, and what it is taken for.
Answered(p, step) ==
  /\ p \in ProposalRecords /\ step \in Steps /\ Proceed(p, step)
  /\ \/ ask = "proposal" /\ step = "first" /\ UNCHANGED pin
     \/ /\ ask = "ground" /\ step = "grounded" /\ pin' = p.print /\ p.shape = prop.shape
     \/ /\ ask # "proposal" /\ step = "retried" /\ UNCHANGED pin
        /\ pin # NoPrint /\ prop.print = pin => p.print = pin
        /\ \/ ask = "content" /\ p.shape # "multi"
           \/ ask = "patch" /\ prop.shape = "multi" /\ p.shape = "multi"
                /\ p.patches = prop.patches - 1
           \/ ask \in {"shorten", "note", "patch"} /\ p.shape = "complete"

\* The attempt ends without a proposal.
Settles == \E f : f # "usable" /\ Settle(f)

\* The kinds of answer to a question of the proposal.
Answers ==
  /\ at = "asking" /\ ask # "review" /\ calls' = calls + 1 /\ Transport /\ Asked
  /\ \E who \in Answerers : Named(who)
  /\ \/ \E p, step : Answered(p, step)
     \/ Settles /\ UNCHANGED <<prop, pin>>

\* A question that is a patch of a transaction has one to write.
PatchesLeft == at = "asking" /\ ask = "patch" /\ prop.shape = "multi" => prop.patches > 0

LEMMA ProceedEffect ==
  ASSUME NEW p, NEW step, Proceed(p, step)
  PROVE  /\ prop' = p /\ (failure # "usable" => failure' # "usable")
         /\ \/ at' = "judging" /\ ask' = "proposal" /\ mode' = "schema"
            \/ /\ at' = "asking" /\ ask' \in Missing(p, step)
               /\ step = "first" \/ ~Unusable(p, step)
               /\ mode' = IF preferJson' THEN "json" ELSE "schema"
BY DEF Proceed, Settle, Open, Ungrounded

\* Which question follows from what a proposal lacks.
LEMMA MissingIs ==
  ASSUME NEW p \in ProposalRecords, NEW step, NEW q \in Missing(p, step)
  PROVE  \/ q = "ground" /\ step = "first" /\ p.shape # "multi"
         \/ q = "content" /\ p.shape = "empty"
         \/ q \in {"shorten", "note"} /\ p.shape \in {"long", "badnote"}
         \/ q = "patch" /\ p.shape = "patch"
         \/ q = "patch" /\ p.shape = "multi" /\ p.patches > 0
<1>1. CASE Ungrounded(p, step)
  BY <1>1 DEF Missing, Ungrounded
<1>2. CASE ~Ungrounded(p, step)
  BY <1>2 DEF Missing, ProposalRecords, Shapes
<1>3. QED BY <1>1, <1>2

LEMMA RetriedIs ==
  ASSUME ProposerTypeOK, NEW p \in ProposalRecords
  PROVE  /\ Retried(p) \in ProposalRecords /\ Retried(p).shape = p.shape
         /\ prop.print # NoPrint => Retried(p).print = prop.print
BY DEF ProposerTypeOK, ProposalRecords, Retried

LEMMA AnswersAre ==
  ASSUME ProposerTypeOK, PatchesLeft,
         Proposed \/ Grounded \/ ContentWritten \/ Shortened \/ NoteRepaired \/ PatchWritten
  PROVE  Answers
<1>1. /\ at = "asking" /\ ask # "review" /\ calls' = calls + 1 /\ Transport /\ Asked
      /\ \E who \in Answerers : Named(who)
  BY DEF Proposed, Grounded, ContentWritten, Shortened, NoteRepaired, PatchWritten, Answer
<1>2. prop \in ProposalRecords /\ pin \in Prints /\ setup \in Setups BY DEF ProposerTypeOK
<1>3. \A shape \in Shapes : [prop EXCEPT !.shape = shape] \in ProposalRecords
        /\ [prop EXCEPT !.shape = shape].shape = shape
        /\ [prop EXCEPT !.shape = shape].print = prop.print
  BY <1>2 DEF ProposalRecords
<1>4. CASE Proposed
  <2>1. PICK p \in Replies : Proceed(p, "first") BY <1>4 DEF Proposed
  <2>2. ask = "proposal" /\ UNCHANGED pin /\ p \in ProposalRecords BY <1>4 DEF Proposed, Answer, Replies
  <2>3. Answered(p, "first") BY <2>1, <2>2 DEF Answered, Steps
  <2>4. QED BY <1>1, <2>3 DEF Answers
<1>5. CASE Grounded
  <2>1. CASE \E f \in setup.offered : pin' = f /\ Proceed([prop EXCEPT !.print = f], "grounded")
    <3>1. PICK f \in setup.offered : pin' = f /\ Proceed([prop EXCEPT !.print = f], "grounded")
      BY <2>1
    <3>2. f \in Prints BY <1>2, SetupsAssumption DEF AllSetups, Prints
    <3> DEFINE p == [prop EXCEPT !.print = f]
    <3>3. p \in ProposalRecords /\ p.print = f /\ p.shape = prop.shape BY <1>2, <3>2 DEF ProposalRecords
    <3>4. ask = "ground" BY <1>5 DEF Grounded, Answer
    <3>5. Proceed(p, "grounded") /\ pin' = p.print BY <3>1, <3>3
    <3> HIDE DEF p
    <3>6. Answered(p, "grounded") BY <3>3, <3>4, <3>5 DEF Answered, Steps
    <3>7. QED BY <1>1, <3>6 DEF Answers
  <2>2. CASE Settle("fingerprint_retry_failed") /\ UNCHANGED <<prop, pin>>
    BY <1>1, <2>2 DEF Answers, Settles
  <2>3. QED BY <1>5, <2>1, <2>2 DEF Grounded
<1>6. CASE ContentWritten
  <2>1. PICK r \in Replies : r.shape # "multi" /\ Proceed(Retried(r), "retried")
    BY <1>6 DEF ContentWritten, Retried
  <2>2. r \in ProposalRecords BY DEF Replies
  <2>3. ask = "content" /\ UNCHANGED pin BY <1>6 DEF ContentWritten, Answer
  <2> DEFINE p == Retried(r)
  <2>4. /\ p \in ProposalRecords /\ p.shape # "multi" /\ Proceed(p, "retried")
        /\ pin # NoPrint /\ prop.print = pin => p.print = pin
    BY <2>1, <2>2, RetriedIs
  <2> HIDE DEF p
  <2>5. Answered(p, "retried") BY <2>3, <2>4 DEF Answered, Steps
  <2>6. QED BY <1>1, <2>5 DEF Answers
<1>7. CASE Shortened \/ NoteRepaired
  <2>1. ask \in {"shorten", "note"} /\ UNCHANGED pin BY <1>7 DEF Shortened, NoteRepaired, Answer
  <2>2. CASE Proceed([prop EXCEPT !.shape = "complete"], "retried")
    <3> DEFINE p == [prop EXCEPT !.shape = "complete"]
    <3>1. p \in ProposalRecords /\ p.shape = "complete" /\ p.print = prop.print BY <1>3 DEF Shapes
    <3>2. Proceed(p, "retried") BY <2>2
    <3> HIDE DEF p
    <3>3. Answered(p, "retried") BY <2>1, <3>1, <3>2 DEF Answered, Steps
    <3>4. QED BY <1>1, <3>3 DEF Answers
  <2>3. CASE Settles /\ UNCHANGED prop
    BY <1>1, <2>1, <2>3 DEF Answers
  <2>4. QED BY <1>7, <2>2, <2>3 DEF Shortened, NoteRepaired, Settles
<1>8. CASE PatchWritten
  <2>1. ask = "patch" /\ UNCHANGED pin BY <1>8 DEF PatchWritten, Answer
  <2>2. CASE Settles /\ UNCHANGED prop
    BY <1>1, <2>1, <2>2 DEF Answers
  <2>3. CASE prop.shape = "multi" /\ Proceed([prop EXCEPT !.patches = prop.patches - 1], "retried")
    <3> DEFINE p == [prop EXCEPT !.patches = prop.patches - 1]
    <3>1. prop.patches \in 0..MaxPatches /\ MaxPatches \in Nat
      BY <1>2, ProposerAssumption DEF ProposalRecords
    <3>2. prop.patches > 0 BY <1>1, <2>1, <2>3 DEF PatchesLeft
    <3>3. prop.patches - 1 \in 0..MaxPatches BY <3>1, <3>2
    <3>4. /\ p \in ProposalRecords /\ p.shape = "multi" /\ p.print = prop.print
          /\ p.patches = prop.patches - 1
      BY <1>2, <2>3, <3>3 DEF ProposalRecords
    <3>5. Proceed(p, "retried") BY <2>3
    <3> HIDE DEF p
    <3>6. Answered(p, "retried") BY <2>1, <2>3, <3>4, <3>5 DEF Answered, Steps
    <3>7. QED BY <1>1, <3>6 DEF Answers
  <2>4. ASSUME NEW print \in Prints, pin # NoPrint => print = prop.print,
               Proceed([prop EXCEPT !.shape = "complete", !.print = print], "retried")
        PROVE  Answers
    <3> DEFINE p == [prop EXCEPT !.shape = "complete", !.print = print]
    <3>1. p \in ProposalRecords /\ p.shape = "complete" /\ p.print = print
      BY <1>2 DEF ProposalRecords, Shapes
    <3>2. Proceed(p, "retried") BY <2>4
    <3> HIDE DEF p
    <3>3. Answered(p, "retried") BY <2>1, <2>4, <3>1, <3>2 DEF Answered, Steps
    <3>4. QED BY <1>1, <3>3 DEF Answers
  <2>5. prop.print \in Prints BY <1>2 DEF ProposalRecords
  <2>6. \/ Settles /\ UNCHANGED prop
        \/ prop.shape = "multi" /\ Proceed([prop EXCEPT !.patches = prop.patches - 1], "retried")
        \/ \E print \in Prints :
             /\ pin # NoPrint => print = prop.print
             /\ Proceed([prop EXCEPT !.shape = "complete", !.print = print], "retried")
    BY <1>8, <2>5 DEF PatchWritten, Settles
  <2>7. QED BY <2>2, <2>3, <2>4, <2>6
<1>9. QED BY <1>4, <1>5, <1>6, <1>7, <1>8

-----------------------------------------------------------------------------
(* The failure an edit is grounded in. *)

\* The grounding repair's choice is the proposal's, and there is none before it.
Pinned ==
  /\ pin # NoPrint => prop.print = pin
  /\ at \in {"reviewing", "starting"} \/ (at = "asking" /\ ask \in {"review", "proposal"})
       => pin = NoPrint

ProposerBase == ProposerTypeOK /\ PatchesLeft

LEMMA AnsweredPinned ==
  ASSUME Pinned, at = "asking", NEW p, NEW step, Answered(p, step)
  PROVE  Pinned'
<1>1. /\ prop' = p
      /\ at' = "judging" \/ (at' = "asking" /\ ask' \in Missing(p, step))
  BY ProceedEffect DEF Answered
<1>2. ask' \notin {"review", "proposal"} \/ at' = "judging"
  BY <1>1, MissingIs DEF Answered
<1>3. pin' # NoPrint => p.print = pin' BY DEF Answered, Pinned
<1>4. QED BY <1>1, <1>2, <1>3 DEF Pinned

LEMMA PinnedNext ==
  ASSUME ProposerBase, Pinned, [ProposerNext]_proposerVars
  PROVE  Pinned'
<1>1. ProposerTypeOK /\ PatchesLeft BY DEF ProposerBase
<1>2. CASE Answers
  <2>1. CASE \E p, step : Answered(p, step)
    BY <1>2, <2>1, AnsweredPinned DEF Answers
  <2>2. CASE Settles /\ UNCHANGED <<prop, pin>>
    BY <2>2 DEF Settles, Settle, Pinned
  <2>3. QED BY <1>2, <2>1, <2>2 DEF Answers
<1>3. CASE StartReview \/ StartStructured \/ SubagentFails
  BY <1>3 DEF StartReview, StartStructured, SubagentFails, Open, Pinned
<1>4. CASE SubagentAnswers
  <2>1. pin' = NoPrint BY <1>4 DEF SubagentAnswers, Pinned
  <2>2. at' \notin {"reviewing", "starting"}
    BY <1>4, ProceedEffect DEF SubagentAnswers
  <2>3. QED BY <2>1 DEF Pinned
<1>5. CASE FallBackToJson \/ NoAnswer \/ CallRaises
  BY <1>5 DEF FallBackToJson, NoAnswer, CallRaises, Settle, Pinned
<1>6. CASE Reviewed \/ Retry
  BY <1>6 DEF Reviewed, Retry, Answer, Pinned
<1>7. CASE Judge
  BY <1>7 DEF Judge, Pinned
<1>8. CASE UNCHANGED proposerVars
  BY <1>8 DEF proposerVars, Pinned
<1>9. QED BY <1>1, <1>2, <1>3, <1>4, <1>5, <1>6, <1>7, <1>8, AnswersAre, ProposerSteps

-----------------------------------------------------------------------------
(* Types of the conversation. *)

LEMMA ProceedTypes ==
  ASSUME ProposerTypeOK, preferJson' \in BOOLEAN, NEW p \in ProposalRecords, NEW step,
         Proceed(p, step)
  PROVE  /\ prop' \in ProposalRecords /\ at' \in {"asking", "judging"}
         /\ ask' \in Questions /\ mode' \in {"schema", "json"}
         /\ (at' = "asking" /\ ask' = "patch" /\ prop'.shape = "multi" => prop'.patches > 0)
<1>1. /\ prop' = p
      /\ \/ at' = "judging" /\ ask' = "proposal" /\ mode' = "schema"
         \/ /\ at' = "asking" /\ ask' \in Missing(p, step)
            /\ mode' = IF preferJson' THEN "json" ELSE "schema"
  BY ProceedEffect
<1>2. ask' \in Missing(p, step) =>
        ask' \in Questions /\ (ask' = "patch" /\ p.shape = "multi" => p.patches > 0)
  BY MissingIs DEF Questions
<1>3. QED BY <1>1, <1>2 DEF Questions

LEMMA ProposerBaseInit == ProposerInit => ProposerBase
<1>1. SUFFICES ASSUME ProposerInit PROVE ProposerBase OBVIOUS
<1>2. NoProposal \in ProposalRecords
  <2>1. 0 \in 0..MaxPatches BY ProposerAssumption
  <2>2. QED BY <2>1 DEF NoProposal, ProposalRecords, Shapes, Prints
<1>3. ProposerTypeOK BY <1>1, <1>2 DEF ProposerInit, ProposerTypeOK, Prints, Questions, Answerers
<1>4. PatchesLeft BY <1>1 DEF ProposerInit, PatchesLeft
<1>5. QED BY <1>3, <1>4 DEF ProposerBase

LEMMA ProposerBaseNext == ProposerBase /\ [ProposerNext]_proposerVars => ProposerBase'
<1>1. SUFFICES ASSUME ProposerBase, [ProposerNext]_proposerVars PROVE ProposerBase' OBVIOUS
<1>2. ProposerTypeOK /\ PatchesLeft BY <1>1 DEF ProposerBase
<1>3. /\ setup \in Setups /\ prop \in ProposalRecords /\ pin \in Prints /\ preferJson \in BOOLEAN
      /\ at \in {"reviewing", "starting", "fallback", "asking", "judging", "ended"}
      /\ ask \in Questions /\ mode \in {"schema", "json"}
      /\ calls \in Nat /\ calls + 1 \in Nat /\ attempt \in 1..2
      /\ arm \in {"structured", "subagent"}
      /\ {named, meta, child} \subseteq Answerers \cup {"none", "unknown"}
  BY <1>2 DEF ProposerTypeOK
<1>4. /\ NoProposal \in ProposalRecords /\ NoPrint \in Prints
  <2>1. 0 \in 0..MaxPatches BY ProposerAssumption
  <2>2. QED BY <2>1 DEF NoProposal, ProposalRecords, Shapes, Prints
<1>5. CASE Answers
  <2>1. /\ preferJson' \in BOOLEAN /\ calls' = calls + 1
        /\ UNCHANGED <<setup, attempt, arm, meta, child, result>>
        /\ named' \in {named} \cup Answerers
    BY <1>3, <1>5 DEF Answers, Transport, Asked, Named
  <2>2. /\ prop' \in ProposalRecords /\ at' \in {"asking", "judging"}
        /\ ask' \in Questions /\ mode' \in {"schema", "json"} /\ pin' \in Prints
        /\ PatchesLeft'
    <3>1. CASE \E p, step : Answered(p, step)
      <4>1. PICK p, step : Answered(p, step) BY <3>1
      <4>2. p \in ProposalRecords /\ Proceed(p, step) /\ pin' \in {pin, p.print} BY <4>1 DEF Answered
      <4>3. p.print \in Prints BY <4>2 DEF ProposalRecords
      <4>4. QED BY <1>2, <1>3, <2>1, <4>2, <4>3, ProceedTypes DEF PatchesLeft
    <3>2. CASE Settles /\ UNCHANGED <<prop, pin>>
      BY <1>3, <3>2 DEF Settles, Settle, Questions, PatchesLeft
    <3>3. QED BY <1>5, <3>1, <3>2 DEF Answers
  <2>3. ProposerTypeOK' BY <1>3, <2>1, <2>2 DEF ProposerTypeOK
  <2>4. QED BY <2>2, <2>3 DEF ProposerBase
<1>6. CASE StartReview \/ StartStructured
  <2>1. ASSUME StartReview PROVE ProposerTypeOK'
    BY <1>3, <2>1 DEF StartReview, ProposerTypeOK, Questions
  <2>2. ASSUME StartStructured PROVE ProposerTypeOK'
    <3>1. /\ at' = "asking" /\ ask' = "proposal" /\ mode' \in {"schema", "json"}
          /\ preferJson' = FALSE /\ named' = "none" /\ arm' = "structured" /\ calls' = 0
          /\ prop' = NoProposal /\ pin' = NoPrint /\ UNCHANGED <<setup, attempt, meta, child>>
      BY <2>2 DEF StartStructured, Open, Afresh
    <3>2. {named', meta', child'} \subseteq Answerers \cup {"none", "unknown"} BY <1>3, <3>1
    <3>3. QED BY <1>3, <1>4, <3>1, <3>2 DEF ProposerTypeOK, Questions
  <2>3. ProposerTypeOK' BY <1>6, <2>1, <2>2
  <2>4. PatchesLeft' BY <1>6 DEF StartReview, StartStructured, Open, PatchesLeft
  <2>5. QED BY <2>3, <2>4 DEF ProposerBase
<1>7. CASE SubagentAnswers
  <2>1. /\ preferJson' \in BOOLEAN /\ calls' = 0 /\ arm' = "subagent"
        /\ UNCHANGED <<setup, attempt, pin, named, meta>>
        /\ child' \in Answerers \cup {"none"}
    BY <1>3, <1>7 DEF SubagentAnswers
  <2>2. PICK p \in Replies : Proceed(p, "first") BY <1>7 DEF SubagentAnswers
  <2>3. /\ prop' \in ProposalRecords /\ at' \in {"asking", "judging"}
        /\ ask' \in Questions /\ mode' \in {"schema", "json"} /\ PatchesLeft'
    BY <1>2, <2>1, <2>2, ProceedTypes DEF PatchesLeft, Replies
  <2>4. ProposerTypeOK' BY <1>3, <2>1, <2>3 DEF ProposerTypeOK
  <2>5. QED BY <2>3, <2>4 DEF ProposerBase
<1>8. CASE SubagentFails
  <2>1. ProposerTypeOK' BY <1>3, <1>8 DEF SubagentFails, ProposerTypeOK
  <2>2. PatchesLeft' BY <1>8 DEF SubagentFails, PatchesLeft
  <2>3. QED BY <2>1, <2>2 DEF ProposerBase
<1>9. CASE FallBackToJson \/ NoAnswer \/ CallRaises
  <2>1. \A who \in Answerers : Named(who) => named' \in {named} \cup Answerers BY DEF Named
  <2>2. ProposerTypeOK'
    BY <1>3, <1>9, <2>1 DEF FallBackToJson, NoAnswer, CallRaises, Settle, ProposerTypeOK, Questions
  <2>3. PatchesLeft'
    BY <1>2, <1>9 DEF FallBackToJson, NoAnswer, CallRaises, Settle, PatchesLeft
  <2>4. QED BY <2>2, <2>3 DEF ProposerBase
<1>10. CASE Reviewed
  <2>1. \A who \in Answerers : Named(who) => named' \in {named} \cup Answerers BY DEF Named
  <2>2. ProposerTypeOK' BY <1>3, <1>10, <2>1 DEF Reviewed, Answer, ProposerTypeOK, Questions
  <2>3. PatchesLeft' BY <1>10 DEF Reviewed, PatchesLeft
  <2>4. QED BY <2>2, <2>3 DEF ProposerBase
<1>11. CASE Retry \/ Judge
  <2>1. Meta \in Answerers \cup {"none", "unknown"} BY <1>3 DEF Meta
  <2>2. attempt' \in 1..2
    <3>1. Retry => attempt < 2 /\ attempt' = attempt + 1 BY <1>3 DEF Retry, AttemptLimit
    <3>2. Judge => attempt' = attempt BY DEF Judge
    <3>3. QED BY <1>3, <1>11, <3>1, <3>2
  <2>3. ProposerTypeOK' BY <1>3, <1>4, <1>11, <2>1, <2>2 DEF Retry, Judge, ProposerTypeOK
  <2>4. PatchesLeft' BY <1>11 DEF Retry, Judge, PatchesLeft
  <2>5. QED BY <2>3, <2>4 DEF ProposerBase
<1>12. CASE UNCHANGED proposerVars
  BY <1>2, <1>12 DEF proposerVars, ProposerBase, ProposerTypeOK, PatchesLeft
<1>13. QED
  BY <1>1, <1>2, <1>5, <1>6, <1>7, <1>8, <1>9, <1>10, <1>11, <1>12, AnswersAre, ProposerSteps

LEMMA ProposerBaseHolds == ProposerSpec => []ProposerBase
BY ProposerBaseInit, ProposerBaseNext, PTL DEF ProposerSpec

\* Every variable of a proposal keeps its type (propose).
THEOREM ProposerTypesHold == ProposerSpec => []ProposerTypeOK
<1>1. ProposerBase => ProposerTypeOK BY DEF ProposerBase
<1>2. QED BY ProposerBaseHolds, <1>1, PTL

\* A failure the repair grounded the edit in is the failure the edit is filed under
\* (_ground_parsed, _finalize_edit), however many patches and fingerprints there are.
THEOREM GroundingStays == ProposerSpec => []GroundedStays
<1>1. ProposerInit => Pinned BY DEF ProposerInit, Pinned
<1>2. Pinned => GroundedStays BY DEF Pinned, GroundedStays
<1>3. QED BY <1>1, <1>2, PinnedNext, ProposerBaseHolds, PTL DEF ProposerSpec

-----------------------------------------------------------------------------
(* Who answered. *)

\* What the thread knows of the route it heard in this very pass, unless a subagent ran.
Known ==
  /\ child = "unknown" /\ at \in {"asking", "judging"} => (named = "route" => heard)
  /\ setup.route = "bound" /\ at # "ended" => meta = "none"
  /\ failure # "usable" /\ (result = "usable" => at = "ended")
  /\ AnsweredByRoute

LEMMA KnownNext ==
  ASSUME ProposerBase, Known, [ProposerNext]_proposerVars
  PROVE  Known'
<1>1. ProposerTypeOK /\ PatchesLeft BY DEF ProposerBase
<1>2. failure # "usable" /\ (at # "ended" => result # "usable") BY DEF Known
<1>3. \A who \in Answerers : Named(who) =>
        ((named = "route" => heard) => (named' = "route" => heard'))
  <2>1. SUFFICES ASSUME NEW who \in Answerers, Named(who), named = "route" => heard,
                        named' = "route"
                 PROVE  heard'
    OBVIOUS
  <2>2. CASE UNCHANGED <<named, heard>>
    BY <2>1, <2>2
  <2>3. CASE named' = who /\ heard' = (heard \/ who = "route")
    BY <2>1, <2>3
  <2>4. QED BY <2>1, <2>2, <2>3 DEF Named
<1>4. CASE Answers
  <2>1. at' \in {"asking", "judging"} /\ failure' # "usable"
    BY <1>2, <1>4, ProceedEffect DEF Answers, Answered, Settles, Settle
  <2>2. at = "asking" /\ UNCHANGED <<setup, child, meta, result>> BY <1>4 DEF Answers, Asked
  <2>3. (named = "route" => heard) => (named' = "route" => heard') BY <1>3, <1>4 DEF Answers
  <2>4. result # "usable" BY <1>2, <2>2
  <2>5. QED BY <2>1, <2>2, <2>3, <2>4 DEF Known, AnsweredByRoute
<1>5. CASE StartReview \/ StartStructured
  BY <1>2, <1>5 DEF StartReview, StartStructured, Open, Afresh, Known, AnsweredByRoute
<1>6. CASE SubagentAnswers
  <2>1. /\ at = "starting" /\ child' \in Answerers \cup {"none"}
        /\ UNCHANGED <<setup, meta, result>> /\ failure' # "usable"
    BY <1>2, <1>6, ProceedEffect DEF SubagentAnswers
  <2>2. child' # "unknown" /\ result # "usable" BY <1>2, <2>1 DEF Answerers
  <2>3. QED BY <2>1, <2>2 DEF Known, AnsweredByRoute
<1>7. CASE SubagentFails
  BY <1>2, <1>7 DEF SubagentFails, Known, AnsweredByRoute
<1>8. CASE FallBackToJson \/ NoAnswer
  BY <1>2, <1>3, <1>8 DEF FallBackToJson, NoAnswer, Settle, Known, AnsweredByRoute
<1>9. CASE CallRaises
  BY <1>2, <1>9 DEF CallRaises, Settle, Known, AnsweredByRoute
<1>10. CASE Reviewed
  BY <1>2, <1>10 DEF Reviewed, Answer, Known, AnsweredByRoute
<1>11. CASE Retry
  <2>1. setup.route # "bound" BY <1>1, <1>11 DEF Retry, AttemptLimit, ProposerTypeOK
  <2>2. QED BY <1>2, <1>11, <2>1 DEF Retry, Known, AnsweredByRoute
<1>12. CASE Judge
  <2>1. at = "judging" /\ at' = "ended" /\ result' = Judgement /\ UNCHANGED <<setup, child, heard>>
    BY <1>12 DEF Judge
  <2>2. ASSUME Judgement = "usable", setup.route = "bound", child = "unknown" PROVE heard
    <3>1. Attributed = "route" BY <1>2, <2>2 DEF Judgement
    <3>2. meta = "none" BY <2>1, <2>2 DEF Known
    <3>3. named = "route" BY <2>2, <3>1, <3>2 DEF Attributed, Meta
    <3>4. QED BY <2>1, <2>2, <3>3 DEF Known
  <2>3. failure' # "usable" BY <1>2, <1>12 DEF Judge
  <2>4. QED BY <2>1, <2>2, <2>3 DEF Known, AnsweredByRoute
<1>13. CASE UNCHANGED proposerVars
  BY <1>13 DEF proposerVars, Known, AnsweredByRoute
<1>14. QED
  BY <1>1, <1>4, <1>5, <1>6, <1>7, <1>8, <1>9, <1>10, <1>11, <1>12, <1>13, AnswersAre,
     ProposerSteps

\* On a bound route a proposal is used only if a reply to this very pass named the session's
\* model (_route_refusal), for any fingerprints and patches.
THEOREM RouteAnswered == ProposerSpec => []AnsweredByRoute
<1>1. ProposerInit => Known BY DEF ProposerInit, Known, AnsweredByRoute
<1>2. Known => AnsweredByRoute BY DEF Known
<1>3. QED BY <1>1, <1>2, KnownNext, ProposerBaseHolds, PTL DEF ProposerSpec

-----------------------------------------------------------------------------
(* What a proposal costs. *)

Most == Max({4, 1 + MaxPatches})

LEMMA MostIs == Most \in Nat /\ Most >= 4 /\ Most >= 1 + MaxPatches
<1>1. MaxPatches \in Nat BY ProposerAssumption
<1>2. PICK m \in {4, 1 + MaxPatches} : \A n \in {4, 1 + MaxPatches} : m >= n
  <2>1. CASE 4 >= 1 + MaxPatches
    BY <1>1, <2>1
  <2>2. CASE 1 + MaxPatches >= 4
    BY <1>1, <2>2
  <2>3. QED BY <1>1, <2>1, <2>2
<1>3. Most \in {4, 1 + MaxPatches} /\ \A n \in {4, 1 + MaxPatches} : Most >= n
  BY <1>2 DEF Most, Max
<1>4. QED BY <1>1, <1>3

\* The questions a proposal may still cost, the open one included.
Left(q, p) ==
  IF q = "proposal" THEN Most
  ELSE IF q = "ground" THEN 3
  ELSE IF q = "content" THEN 2
  ELSE IF q = "patch" /\ p.shape = "multi" THEN p.patches ELSE 1

\* The call that finds out that there is no schema.
Trial(m) == IF m = "schema" THEN 1 ELSE 0

Cheap ==
  /\ at = "asking" => calls + Left(ask, prop) + Trial(mode) <= 1 + Most
  /\ at # "asking" => calls <= 1 + Most

LEMMA LeftIs ==
  ASSUME NEW p \in ProposalRecords, NEW step, NEW q \in Missing(p, step)
  PROVE  /\ Left(q, p) \in Nat /\ Left(q, p) >= 1 /\ Left(q, p) + 1 <= Most
         /\ p.shape # "multi" /\ step # "first" => Left(q, p) <= 2
         /\ p.shape \notin {"multi", "empty"} /\ step # "first" => Left(q, p) = 1
         /\ p.shape = "multi" => Left(q, p) = p.patches
         /\ p.shape # "complete" \/ step = "first"
<1>1. \/ q = "ground" /\ step = "first" /\ p.shape # "multi"
      \/ q = "content" /\ p.shape = "empty"
      \/ q \in {"shorten", "note"} /\ p.shape \in {"long", "badnote"}
      \/ q = "patch" /\ p.shape = "patch"
      \/ q = "patch" /\ p.shape = "multi" /\ p.patches > 0
  BY MissingIs
<1>2. p.patches \in 0..MaxPatches /\ MaxPatches \in Nat BY ProposerAssumption DEF ProposalRecords
<1>3. Most \in Nat /\ Most >= 4 /\ Most >= 1 + MaxPatches BY MostIs
<1> HIDE DEF Most
<1>4. CASE q = "patch" /\ p.shape = "multi" /\ p.patches > 0
  <2>1. Left(q, p) = p.patches BY <1>4 DEF Left
  <2>2. p.patches \in Nat /\ p.patches >= 1 /\ p.patches + 1 <= Most BY <1>2, <1>3, <1>4
  <2>3. QED BY <1>4, <2>1, <2>2
<1>5. CASE ~(q = "patch" /\ p.shape = "multi")
  <2>1. /\ Left(q, p) \in {1, 2, 3} /\ (step # "first" => Left(q, p) \in {1, 2})
        /\ p.shape # "empty" /\ step # "first" => Left(q, p) = 1
        /\ p.shape # "multi" /\ (p.shape # "complete" \/ step = "first")
    BY <1>1, <1>5 DEF Left
  <2>2. QED BY <1>3, <2>1
<1>6. QED BY <1>1, <1>4, <1>5

\* Where an answer leads costs less than the question did.
LEMMA AnswerIsLess ==
  ASSUME ProposerTypeOK, NEW p, NEW step, Answered(p, step), at' = "asking",
         ask = "ground" => prop.shape # "multi"
  PROVE  /\ Left(ask', prop') \in Nat /\ Left(ask', prop') >= 1
         /\ Left(ask', prop') + 1 <= Left(ask, prop)
<1>1. /\ p \in ProposalRecords /\ prop' = p /\ ask' \in Missing(p, step)
      /\ step = "first" \/ ~Unusable(p, step)
      /\ step \in Steps
  BY ProceedEffect DEF Answered
<1>2. /\ Left(ask', p) \in Nat /\ Left(ask', p) >= 1 /\ Left(ask', p) + 1 <= Most
      /\ p.shape # "multi" /\ step # "first" => Left(ask', p) <= 2
      /\ p.shape \notin {"multi", "empty"} /\ step # "first" => Left(ask', p) = 1
      /\ p.shape = "multi" => Left(ask', p) = p.patches
      /\ p.shape # "complete" \/ step = "first"
  BY <1>1, LeftIs
<1>3. CASE ask = "proposal" /\ step = "first"
  <2>1. Left(ask, prop) = Most BY <1>3 DEF Left
  <2>2. QED BY <1>1, <1>2, <2>1
<1>4. CASE ask = "ground" /\ step = "grounded" /\ p.shape = prop.shape
  <2>1. Left(ask, prop) = 3 BY <1>4 DEF Left
  <2>2. Left(ask', p) <= 2 BY <1>2, <1>4
  <2>3. QED BY <1>1, <1>2, <2>1, <2>2
<1>5. CASE ask = "content" /\ step = "retried" /\ p.shape # "multi"
  <2>1. Left(ask, prop) = 2 BY <1>5 DEF Left
  <2>2. p.shape # "empty" BY <1>1, <1>5 DEF Unusable
  <2>3. Left(ask', p) = 1 BY <1>2, <1>5, <2>2
  <2>4. QED BY <1>1, <2>1, <2>3
<1>6. CASE ask = "patch" /\ prop.shape = "multi" /\ p.shape = "multi" /\ p.patches = prop.patches - 1
  <2>1. Left(ask, prop) = prop.patches BY <1>6 DEF Left
  <2>2. Left(ask', p) = prop.patches - 1 BY <1>2, <1>6
  <2>3. prop.patches \in Nat BY ProposerAssumption DEF ProposerTypeOK, ProposalRecords
  <2>4. QED BY <1>1, <1>2, <2>1, <2>2, <2>3
<1>7. CASE step = "retried" /\ p.shape = "complete"
  BY <1>2, <1>7
<1>8. QED BY <1>3, <1>4, <1>5, <1>6, <1>7 DEF Answered

\* The grounding repair is for a single edit.
OneGrounded == at = "asking" /\ ask = "ground" => prop.shape # "multi"

LEMMA LeftHere ==
  ASSUME ProposerBase, at = "asking"
  PROVE  /\ Left(ask, prop) \in Nat /\ Left(ask, prop) >= 1
         /\ Trial(mode) \in Nat /\ calls \in Nat /\ Most \in Nat
<1>1. Trial(mode) \in Nat BY DEF Trial
<1>2. calls \in Nat /\ prop.patches \in Nat
  BY ProposerAssumption DEF ProposerBase, ProposerTypeOK, ProposalRecords
<1>3. Most \in Nat /\ Most >= 4 BY MostIs
<1> HIDE DEF Most
<1>4. CASE ask = "patch" /\ prop.shape = "multi"
  <2>1. Left(ask, prop) = prop.patches BY <1>4 DEF Left
  <2>2. prop.patches > 0 BY <1>4 DEF ProposerBase, PatchesLeft
  <2>3. QED BY <1>1, <1>2, <1>3, <2>1, <2>2
<1>5. CASE ~(ask = "patch" /\ prop.shape = "multi")
  <2>1. Left(ask, prop) \in {1, 2, 3, Most} BY <1>5 DEF Left
  <2>2. QED BY <1>1, <1>2, <1>3, <2>1
<1>6. QED BY <1>4, <1>5

LEMMA AnswerIsCheap ==
  ASSUME ProposerBase, Cheap, OneGrounded, Answers
  PROVE  Cheap' /\ OneGrounded'
<1>1. /\ at = "asking" /\ calls' = calls + 1 /\ ProposerTypeOK
      /\ Left(ask, prop) \in Nat /\ Left(ask, prop) >= 1
      /\ Trial(mode) \in Nat /\ calls \in Nat /\ Most \in Nat
  BY LeftHere DEF Answers, ProposerBase
<1>2. calls + Left(ask, prop) + Trial(mode) <= 1 + Most BY <1>1 DEF Cheap
<1> HIDE DEF Most
<1>3. ASSUME at' = "judging" PROVE Cheap' /\ OneGrounded'
  <2>1. calls + 1 <= 1 + Most BY <1>1, <1>2
  <2>2. Most' = Most BY DEF Most
  <2>3. QED BY <1>1, <1>3, <2>1, <2>2 DEF Cheap, OneGrounded
<1>4. CASE \E p, step : Answered(p, step)
  <2>1. PICK p, step : Answered(p, step) BY <1>4
  <2>2. \/ at' = "judging"
        \/ /\ at' = "asking" /\ prop' = p /\ p \in ProposalRecords /\ ask' \in Missing(p, step)
           /\ mode' = IF preferJson' THEN "json" ELSE "schema"
    BY <2>1, ProceedEffect DEF Answered
  <2>3. CASE at' = "asking"
    <3>1. /\ Left(ask', prop') \in Nat /\ Left(ask', prop') >= 1
          /\ Left(ask', prop') + 1 <= Left(ask, prop)
      BY <1>1, <2>1, <2>3, AnswerIsLess DEF OneGrounded
    <3>2. Trial(mode') \in Nat /\ Trial(mode') <= Trial(mode)
      <4>1. mode = "json" => mode' = "json" BY <1>4, <2>2, <2>3 DEF Answers, Transport
      <4>2. Trial(mode') \in {0, 1} /\ (mode # "json" /\ mode = "schema" => Trial(mode) = 1)
            /\ (mode' = "json" => Trial(mode') = 0)
        BY DEF Trial
      <4>3. mode \in {"schema", "json"} BY <1>1 DEF ProposerTypeOK
      <4>4. QED BY <1>1, <4>1, <4>2, <4>3
    <3>3. calls' + Left(ask', prop') + Trial(mode') <= 1 + Most BY <1>1, <1>2, <3>1, <3>2
    <3>4. Left(ask, prop)' = Left(ask', prop') /\ Trial(mode)' = Trial(mode') /\ Most' = Most
      BY DEF Left, Trial, Most
    <3>5. Cheap' BY <2>3, <3>3, <3>4 DEF Cheap
    <3>6. OneGrounded' BY <2>2, <2>3, MissingIs DEF OneGrounded
    <3>7. QED BY <3>5, <3>6
  <2>4. QED BY <1>3, <2>2, <2>3
<1>5. CASE Settles /\ UNCHANGED <<prop, pin>>
  BY <1>3, <1>5 DEF Settles, Settle
<1>6. QED BY <1>4, <1>5 DEF Answers

LEMMA CheapNext ==
  ASSUME ProposerBase, Cheap, OneGrounded, [ProposerNext]_proposerVars
  PROVE  Cheap' /\ OneGrounded'
<1>1. ProposerTypeOK /\ PatchesLeft BY DEF ProposerBase
<1>2. calls \in Nat /\ Most \in Nat /\ Most >= 4 /\ Most' = Most
  <2>1. Most' = Most BY DEF Most
  <2>2. QED BY <1>1, <2>1, MostIs DEF ProposerTypeOK
<1> HIDE DEF Most
<1>3. ASSUME at' # "asking", calls' <= 1 + Most PROVE Cheap' /\ OneGrounded'
  BY <1>2, <1>3 DEF Cheap, OneGrounded
<1>4. at = "asking" =>
        /\ Left(ask, prop) \in Nat /\ Left(ask, prop) >= 1 /\ Trial(mode) \in Nat
        /\ calls + Left(ask, prop) + Trial(mode) <= 1 + Most
  BY LeftHere DEF Cheap
<1>5. at = "asking" => calls + 1 <= 1 + Most BY <1>2, <1>4
<1>6. at # "asking" => calls <= 1 + Most BY DEF Cheap
<1>7. CASE StartReview
  <2>1. /\ at' = "asking" /\ ask' = "review" /\ mode' = "schema" /\ calls' = 0
    BY <1>7 DEF StartReview
  <2>2. Left(ask, prop)' = 1 /\ Trial(mode)' = 1 BY <2>1 DEF Left, Trial
  <2>3. 0 + 1 + 1 <= 1 + Most BY <1>2
  <2>4. QED BY <1>2, <2>1, <2>2, <2>3 DEF Cheap, OneGrounded
<1>8. CASE StartStructured
  <2>1. at' = "asking" /\ ask' = "proposal" /\ calls' = 0
    BY <1>8 DEF StartStructured, Open
  <2>2. Left(ask, prop)' = Most /\ Trial(mode)' \in {0, 1} BY <1>2, <2>1 DEF Left, Trial
  <2>3. 0 + Most + 0 <= 1 + Most /\ 0 + Most + 1 <= 1 + Most BY <1>2
  <2>4. QED BY <1>2, <2>1, <2>2, <2>3 DEF Cheap, OneGrounded
<1>9. CASE SubagentAnswers
  <2>1. PICK p \in Replies : Proceed(p, "first") BY <1>9 DEF SubagentAnswers
  <2>2. calls' = 0 /\ p \in ProposalRecords BY <1>9 DEF SubagentAnswers, Replies
  <2>3. \/ at' = "judging"
        \/ at' = "asking" /\ prop' = p /\ ask' \in Missing(p, "first")
    BY <2>1, ProceedEffect
  <2>4. CASE at' = "judging"
    BY <1>2, <1>3, <2>2, <2>4
  <2>5. CASE at' = "asking"
    <3>1. Left(ask', p) \in Nat /\ Left(ask', p) + 1 <= Most BY <2>2, <2>3, <2>5, LeftIs
    <3>2. Left(ask, prop)' = Left(ask', p) /\ Trial(mode)' \in {0, 1}
      BY <2>3, <2>5 DEF Left, Trial, Most
    <3>3. 0 + Left(ask', p) + 0 <= 1 + Most /\ 0 + Left(ask', p) + 1 <= 1 + Most BY <1>2, <3>1
    <3>4. Cheap' BY <1>2, <2>2, <2>5, <3>2, <3>3 DEF Cheap
    <3>5. OneGrounded' BY <2>2, <2>3, <2>5, MissingIs DEF OneGrounded
    <3>6. QED BY <3>4, <3>5
  <2>6. QED BY <2>3, <2>4, <2>5
<1>10. CASE SubagentFails
  BY <1>3, <1>6, <1>10 DEF SubagentFails
<1>11. CASE FallBackToJson
  <2>1. /\ at = "asking" /\ mode = "schema" /\ mode' = "json" /\ calls' = calls + 1
        /\ UNCHANGED <<at, ask, prop>>
    BY <1>11 DEF FallBackToJson
  <2>2. Left(ask, prop)' = Left(ask, prop) /\ Trial(mode)' = 0 /\ Trial(mode) = 1
    BY <2>1, <1>2 DEF Left, Trial
  <2>3. calls + 1 + Left(ask, prop) + 0 <= 1 + Most BY <1>2, <1>4, <2>1, <2>2
  <2>4. QED BY <1>2, <2>1, <2>2, <2>3 DEF Cheap, OneGrounded
<1>12. CASE NoAnswer \/ CallRaises
  <2>1. at = "asking" /\ at' # "asking" /\ calls' = calls + 1
    BY <1>12 DEF NoAnswer, CallRaises, Settle
  <2>2. QED BY <1>3, <1>5, <2>1
<1>13. CASE Reviewed
  <2>1. at = "asking" /\ at' # "asking" /\ calls' = calls + 1 BY <1>13 DEF Reviewed, Answer
  <2>2. QED BY <1>3, <1>5, <2>1
<1>14. CASE Retry \/ Judge
  <2>1. at' # "asking" /\ calls' = 0 BY <1>14 DEF Retry, Judge
  <2>2. QED BY <1>2, <1>3, <2>1
<1>15. CASE UNCHANGED proposerVars
  <2>1. UNCHANGED <<at, ask, prop, mode, calls>> BY <1>15 DEF proposerVars
  <2>2. Left(ask, prop)' = Left(ask, prop) /\ Trial(mode)' = Trial(mode)
    BY <2>1, <1>2 DEF Left, Trial
  <2>3. QED BY <1>2, <2>1, <2>2 DEF Cheap, OneGrounded
<1>16. QED
  BY <1>1, <1>7, <1>8, <1>9, <1>10, <1>11, <1>12, <1>13, <1>14, <1>15, AnswersAre, AnswerIsCheap,
     ProposerSteps

\* One proposal costs at most one call more than it has questions, for any number of patches
\* (preferred_output_mode).
THEOREM CallsAreFew == ProposerSpec => []FewCalls
<1>1. ProposerInit => Cheap /\ OneGrounded
  <2>1. SUFFICES ASSUME ProposerInit PROVE Cheap /\ OneGrounded OBVIOUS
  <2>2. at # "asking" /\ calls = 0 BY <2>1 DEF ProposerInit
  <2>3. Most \in Nat BY MostIs
  <2> HIDE DEF Most
  <2>4. 0 <= 1 + Most BY <2>3
  <2>5. QED BY <2>2, <2>4 DEF Cheap, OneGrounded
<1>2. ProposerBase /\ Cheap => FewCalls
  <2>1. SUFFICES ASSUME ProposerBase, Cheap PROVE calls <= 1 + Most BY DEF FewCalls, Most
  <2>2. CASE at = "asking"
    <3>1. /\ Left(ask, prop) \in Nat /\ Trial(mode) \in Nat /\ calls \in Nat /\ Most \in Nat
          /\ calls + Left(ask, prop) + Trial(mode) <= 1 + Most
      BY <2>1, <2>2, LeftHere DEF Cheap
    <3> HIDE DEF Most
    <3>2. QED BY <3>1
  <2>3. QED BY <2>1, <2>2 DEF Cheap
<1>3. QED BY <1>1, <1>2, CheapNext, ProposerBaseHolds, PTL DEF ProposerSpec
=============================================================================
