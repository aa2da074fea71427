------------------------------ MODULE RefinePass ------------------------------
(***************************************************************************)
(* A run and its passes (core.refine_run, _refine_once, _apply_transaction, *)
(* _apply_edit): the gates, the evidence, the answer of the model and the   *)
(* edits it leads to, for several runs at once.                             *)
(*                                                                          *)
(* Only the edits are made under the mutation lock.  The gates before the   *)
(* model are read without it, and the model takes long: the user rewinds    *)
(* the session and rewrites skills meanwhile, and another run applies its   *)
(* own edits.  How the model comes to an answer is Proposer, how one edit   *)
(* is journaled and written is EditLifecycle: here each is one step.        *)
(***************************************************************************)
EXTENDS Integers, Sequences, FiniteSets, SequencesExt

CONSTANTS
  Runs,            \* calls of refine_run
  Targets,         \* skills
  Creation,        \* an edit that patches no skill: nothing to compare it with
  NoRun,
  MaxEditsPerDay, MaxModelRuns, MaxPasses,   \* the budgets of the configuration
  MaxEdits,        \* edits in one proposal
  MaxRewinds, MaxRewrites,                   \* bounds on the user
  RowsFail         \* whether a row that records no edit may fail to be written

ASSUME RefinePassAssumption ==
  /\ IsFiniteSet(Runs) /\ NoRun \notin Runs
  /\ Creation \notin Targets
  /\ {MaxEditsPerDay, MaxModelRuns, MaxPasses, MaxEdits} \subseteq Nat \ {0}
  /\ {MaxRewinds, MaxRewrites} \subseteq Nat
  /\ RowsFail \in BOOLEAN

VARIABLES
  dry,         \* the runs with dry_run: previews
  stage,       \* where a run is
  pass,        \* its pass, from 1
  quiet,       \* its pass has no signal: the reviewer was asked first
  basis,       \* the state of the session its evidence was collected from
  revision,    \* the state its revision token was captured from
  plan,        \* the edits the model proposed
  based,       \* the text of each skill when it did
  next,        \* the edit that is due
  rows,        \* today's journal
  report,      \* the rows a run tells the user to roll back with
  evidence,    \* history: how often the user rewound the session
  text,        \* how often each skill was written
  holder,      \* who holds the mutation lock
  abreast,     \* history: the most runs that were past the ceiling at once
  reached,     \* history: passes that reached a model
  lost         \* history: of these, whose row is missing or does not count, for a named reason

sessionVars == <<evidence, text>>
passVars == <<dry, stage, pass, quiet, basis, revision, plan, based, next, rows, report,
              evidence, text, holder, abreast, reached, lost>>

PlanEdits == [target : Targets, same : BOOLEAN] \cup [target : {Creation}, same : {FALSE}]
Plans == UNION {[1..n -> PlanEdits] : n \in 0..MaxEdits}

PassInit ==
  /\ dry \in SUBSET Runs
  /\ stage = [r \in Runs |-> "called"] /\ pass = [r \in Runs |-> 1]
  /\ quiet = [r \in Runs |-> FALSE]
  /\ basis = [r \in Runs |-> 0] /\ revision = [r \in Runs |-> 0]
  /\ plan = [r \in Runs |-> <<>>] /\ next = [r \in Runs |-> 1]
  /\ based = [r \in Runs |-> [t \in Targets |-> 0]]
  /\ rows = <<>> /\ report = [r \in Runs |-> <<>>]
  /\ evidence = 0 /\ text = [t \in Targets |-> 0]
  /\ holder = NoRun /\ abreast = 0 /\ reached = {} /\ lost = {}

-----------------------------------------------------------------------------
(* The budgets, as the journal has them. *)

NoEditMade == "no_edit"
ConsumedOutcomes == {"success", "pending_approval"}
RowsOf(test(_)) == {i \in DOMAIN rows : test(rows[i])}

AppliedToday == Cardinality(RowsOf(LAMBDA row : row.outcome \in ConsumedOutcomes))
ModelRunsToday == Cardinality(RowsOf(LAMBDA row : row.counts))

DailyLimitReached == AppliedToday >= MaxEditsPerDay
ModelLimitReached == ModelRunsToday >= MaxModelRuns

\* A row of the journal.  Every outcome that neither applies nor reserves an edit (no_op,
\* rejected, conflict, error, dry_run, reviewer_only, the refusals of the gates...) is one
\* here.  counts: it carries primary_attempts, or calls of the subagent.
Row(r, i, outcome, counts) ==
  [run |-> r, pass |-> pass[r], index |-> i, outcome |-> outcome, counts |-> counts,
   size |-> IF i = 0 THEN 0 ELSE Len(plan[r])]

\* _journal_nonmutation: the row, or nothing at all.
Record(r, row) ==
  \/ rows' = Append(rows, row) /\ UNCHANGED lost
  \/ /\ RowsFail /\ UNCHANGED rows
     /\ lost' = (IF row.counts THEN lost \cup {<<r, pass[r]>>} ELSE lost)

Goes(r, where) == stage' = [stage EXCEPT ![r] = where]
Planned == <<basis, revision, plan, based, next>>
Locals == <<quiet, Planned>>

\* A pass returns: what it knew is gone.
Forget(r) ==
  /\ quiet' = [quiet EXCEPT ![r] = FALSE]
  /\ basis' = [basis EXCEPT ![r] = 0] /\ revision' = [revision EXCEPT ![r] = 0]
  /\ plan' = [plan EXCEPT ![r] = <<>>] /\ next' = [next EXCEPT ![r] = 1]
  /\ based' = [based EXCEPT ![r] = [t \in Targets |-> 0]]
Ends(r) == Goes(r, "ended") /\ Forget(r)

-----------------------------------------------------------------------------
(* refine_run. *)

\* Pending edits are reconciled under the lock; the journal may not be legible.
Begin(r) ==
  /\ stage[r] = "called" /\ holder = NoRun
  /\ \E where \in {"between", "ended"} : Goes(r, where)
  /\ UNCHANGED <<dry, abreast, pass, Locals, rows, report, sessionVars, holder, reached,
                 lost>>

\* Every pass but a preview needs a place in the budget.
NextPass(r) ==
  /\ stage[r] = "between"
  /\ r \in dry \/ ~DailyLimitReached
  /\ Goes(r, "gates")
  /\ UNCHANGED <<dry, abreast, pass, Locals, rows, report, sessionVars, holder, reached,
                 lost>>

\* No place for a first pass is a row of its own.
NoPlace(r) ==
  /\ stage[r] = "between" /\ r \notin dry /\ DailyLimitReached
  /\ Ends(r)
  /\ IF pass[r] = 1 THEN Record(r, Row(r, 0, NoEditMade, FALSE))
     ELSE UNCHANGED <<rows, lost>>
  /\ UNCHANGED <<dry, abreast, pass, report, sessionVars, holder, reached>>

-----------------------------------------------------------------------------
(* _refine_once up to the model. *)

\* A plausible bug: the ceiling is read for the first pass of a run only.
PassesLimitsAtFirst(r) ==
  /\ r \in dry \/ ~DailyLimitReached
  /\ pass[r] = 1 => ~ModelLimitReached

\* The ceiling on model runs is for previews, too.
PassesLimits(r) ==
  /\ r \in dry \/ ~DailyLimitReached
  /\ ~ModelLimitReached

\* The session is unknown or is not to be analysed; there is no route, no client, no model
\* it may use, or no target.
RefusePass(r) ==
  /\ stage[r] = "gates" /\ Ends(r)
  /\ Record(r, Row(r, 0, NoEditMade, FALSE))
  /\ UNCHANGED <<dry, abreast, pass, report, sessionVars, holder, reached>>

\* The session cannot be read, which is recorded, or is too short, which is not.
NoEvidence(r) ==
  /\ stage[r] = "gates" /\ PassesLimits(r) /\ Ends(r)
  /\ \/ Record(r, Row(r, 0, NoEditMade, FALSE))
     \/ UNCHANGED <<rows, lost>>
  /\ UNCHANGED <<dry, abreast, pass, report, sessionVars, holder, reached>>

LimitRefused(r) ==
  /\ stage[r] = "gates" /\ Ends(r)
  /\ \/ r \notin dry /\ DailyLimitReached /\ Record(r, Row(r, 0, NoEditMade, FALSE))
     \/ ModelLimitReached /\ Record(r, Row(r, 0, NoEditMade, FALSE))
  /\ UNCHANGED <<dry, abreast, pass, report, sessionVars, holder, reached>>

\* A run in a pass that the ceiling let through.
HasRead(r) == stage[r] \notin {"called", "between", "gates", "ended"}

\* collect_evidence reads the session.
CollectEvidence(r) ==
  /\ stage[r] = "gates" /\ PassesLimits(r)
  /\ Goes(r, "collected") /\ basis' = [basis EXCEPT ![r] = evidence]
  /\ LET now == Cardinality({q \in Runs : q = r \/ HasRead(q)})
     IN abreast' = IF now > abreast THEN now ELSE abreast
  /\ UNCHANGED <<dry, pass, quiet, revision, plan, based, next, rows, report, sessionVars,
                 holder, reached, lost>>

\* _capture_source_revision reads it again.
CaptureRevision(r) ==
  /\ stage[r] = "collected"
  /\ \/ /\ revision' = [revision EXCEPT ![r] = evidence] /\ Goes(r, "versioned")
        /\ UNCHANGED <<quiet, basis, plan, based, next, rows, lost>>
     \/ /\ Ends(r)
        /\ Record(r, Row(r, 0, NoEditMade, FALSE))
  /\ UNCHANGED <<dry, abreast, pass, report, sessionVars, holder, reached>>

\* A pattern clears the gate and may be offered, or the reviewer may be asked.
FindSignal(r) ==
  /\ stage[r] = "versioned"
  /\ \E where \in {"asking", "reviewing"} : Goes(r, where)
  /\ UNCHANGED <<dry, abreast, pass, Locals, rows, report, sessionVars, holder, reached,
                 lost>>

\* There is a pattern but none to be offered, or neither a pattern nor time for a review.
NothingToOffer(r) ==
  /\ stage[r] = "versioned" /\ Ends(r)
  /\ Record(r, Row(r, 0, NoEditMade, FALSE))
  /\ UNCHANGED <<dry, abreast, pass, report, sessionVars, holder, reached>>

\* The reviewer is asked without a lock and recorded at once; without the row, or without
\* its consent, the pass is over.
Review(r) ==
  /\ stage[r] = "reviewing"
  /\ reached' = reached \cup {<<r, pass[r]>>}
  /\ Record(r, Row(r, 0, NoEditMade, TRUE))
  /\ \/ Ends(r)
     \/ /\ rows' # rows
        /\ Goes(r, "asking") /\ quiet' = [quiet EXCEPT ![r] = TRUE] /\ UNCHANGED Planned
  /\ UNCHANGED <<dry, abreast, pass, report, sessionVars, holder>>

-----------------------------------------------------------------------------
(* The answer. *)

\* The model was asked and the pass is over, with one row.
AskedAndOver(r) ==
  /\ stage[r] = "asking" /\ Ends(r)
  /\ reached' = reached \cup {<<r, pass[r]>>}
  /\ Record(r, Row(r, 0, NoEditMade, TRUE))
  /\ UNCHANGED <<dry, abreast, pass, report, sessionVars, holder>>

\* No answer, another model's answer, no target for it, or no change.
AnswerFails(r) == AskedAndOver(r)

\* With proposer_subagent_strict a subagent that fails is the end of the pass.  The row has no
\* primary_attempts; where the subagent reached a model but its calls are not known, as here,
\* the row does not count (where they are, this is AnswerFails).  It may not have been launched.
StrictFails(r) ==
  /\ stage[r] = "asking" /\ Ends(r)
  /\ \/ reached' = reached \cup {<<r, pass[r]>>} /\ lost' = lost \cup {<<r, pass[r]>>}
     \/ UNCHANGED <<reached, lost>>
  /\ \/ rows' = Append(rows, Row(r, 0, NoEditMade, FALSE))
     \/ RowsFail /\ UNCHANGED rows
  /\ UNCHANGED <<dry, abreast, pass, report, sessionVars, holder>>

\* A preview ends here.
Preview(r) == r \in dry /\ AskedAndOver(r)

\* _application_evidence_refusal: the advice of the reviewer, or a pattern that was not
\* observed, was resolved in another way, or was not seen often enough.
EvidenceRefused(r) == r \notin dry /\ AskedAndOver(r)

\* Edits to be made.  The reviewer's advice never gets here, nor does a preview.
AnswerIsPlan(r) ==
  /\ stage[r] = "asking" /\ r \notin dry /\ ~quiet[r]
  /\ reached' = reached \cup {<<r, pass[r]>>}
  /\ \E p \in Plans : plan' = [plan EXCEPT ![r] = p]
  /\ based' = [based EXCEPT ![r] = text] /\ next' = [next EXCEPT ![r] = 1]
  /\ Goes(r, "waiting")
  /\ UNCHANGED <<dry, abreast, pass, quiet, basis, revision, rows, report, sessionVars,
                 holder, lost>>

-----------------------------------------------------------------------------
(* Under the lock. *)

Single(r) == Len(plan[r]) = 1
Patches(r, i) == plan[r][i].target \in Targets
Stale(r, i) == Patches(r, i) /\ based[r][plan[r][i].target] # text[plan[r][i].target]
Unchanged(r, i) == Patches(r, i) /\ ~Stale(r, i) /\ plan[r][i].same
Overlapping(r) ==
  \E i, j \in DOMAIN plan[r] : i # j /\ Patches(r, i) /\ plan[r][i].target = plan[r][j].target

\* _source_revision_is_current
Current(r) == revision[r] = evidence

\* A transaction is refused as a whole: nothing in it, two patches of one skill, a patch of
\* a skill that has changed, a patch that changes nothing.
RefusedWhole(r) ==
  \/ plan[r] = <<>> \/ Overlapping(r)
  \/ \E i \in DOMAIN plan[r] : Stale(r, i) \/ Unchanged(r, i)

WholeRows(r) ==
  IF plan[r] = <<>> THEN <<Row(r, 0, NoEditMade, TRUE)>>
  ELSE [i \in DOMAIN plan[r] |-> Row(r, i, NoEditMade, TRUE)]

\* Rows of edits that are not made, of which the last may not be written.
RecordAll(r, newRows) ==
  \/ rows' = rows \o newRows /\ UNCHANGED lost
  \/ /\ RowsFail /\ newRows # <<>>
     /\ rows' = rows \o Front(newRows)
     /\ lost' = lost \cup {<<r, pass[r]>>}

\* A single edit that lost its place in the budget leaves no row.
LosePlace(r) ==
  /\ stage[r] = "waiting" /\ holder = NoRun /\ Single(r) /\ DailyLimitReached
  /\ lost' = lost \cup {<<r, pass[r]>>}
  /\ Ends(r)
  /\ UNCHANGED <<dry, abreast, pass, rows, report, sessionVars, holder, reached>>

RefuseTransaction(r) ==
  /\ stage[r] = "waiting" /\ holder = NoRun /\ ~Single(r)
  /\ \/ RefusedWhole(r) /\ RecordAll(r, WholeRows(r))
     \/ /\ ~RefusedWhole(r) /\ ~Current(r)
        /\ Record(r, Row(r, 0, NoEditMade, TRUE))
  /\ Ends(r)
  /\ UNCHANGED <<dry, abreast, pass, report, sessionVars, holder, reached>>

TakeLock(r) ==
  /\ stage[r] = "waiting" /\ holder = NoRun
  /\ IF Single(r) THEN ~DailyLimitReached ELSE ~RefusedWhole(r) /\ Current(r)
  /\ holder' = r /\ Goes(r, "applying")
  /\ UNCHANGED <<dry, abreast, pass, Locals, rows, report, sessionVars, reached, lost>>

\* A plausible bug: the budget is looked at once, before the first edit of a transaction.
PlaceForFirst(r) == next[r] = 1 => ~DailyLimitReached

\* The budget is read again before each edit of a transaction.
PlaceFor(r) == Single(r) \/ ~DailyLimitReached

Due(r) == stage[r] = "applying" /\ next[r] <= Len(plan[r]) /\ PlaceFor(r)

\* _apply_edit refuses (the evidence was rewound, a guardrail, a stale baseline, no change, no
\* backup), or the host does.
EditFails(r) ==
  /\ Due(r)
  /\ Record(r, Row(r, next[r], NoEditMade, TRUE))
  /\ next' = [next EXCEPT ![r] = @ + 1] /\ Goes(r, "stopped")
  /\ UNCHANGED <<dry, abreast, pass, quiet, basis, revision, plan, based, report,
                 sessionVars, holder, reached>>

\* It is written, or handed to the host's approval queue; its row is there before.
EditMade(r) ==
  /\ Due(r) /\ Current(r) /\ ~Stale(r, next[r]) /\ ~Unchanged(r, next[r])
  /\ \/ /\ rows' = Append(rows, Row(r, next[r], "success", TRUE))
        /\ text' = IF Patches(r, next[r])
                     THEN [text EXCEPT ![plan[r][next[r]].target] = @ + 1] ELSE text
        /\ Goes(r, "applying")
     \/ /\ rows' = Append(rows, Row(r, next[r], "pending_approval", TRUE))
        /\ UNCHANGED text /\ Goes(r, "stopped")
  /\ next' = [next EXCEPT ![r] = @ + 1]
  /\ UNCHANGED <<dry, abreast, pass, quiet, basis, revision, plan, based, report, evidence,
                 holder, reached, lost>>

\* A plausible bug: the edit after the one that stopped is skipped, too.
RestAfterNext(r) == {i \in DOMAIN plan[r] : i > next[r]}

\* Edits that were never tried.
Rest(r) == {i \in DOMAIN plan[r] : i >= next[r]}

Unattempted(r) ==
  LET rest == Rest(r)
  IN [k \in 1..Cardinality(rest) |->
        Row(r, Len(plan[r]) - Cardinality(rest) + k, NoEditMade, TRUE)]

Made(r, p) ==
  {i \in DOMAIN rows : rows[i].run = r /\ rows[i].pass = p /\ rows[i].outcome \in ConsumedOutcomes}

\* The rows of a set as they are to be undone: the last one first.
NewestFirst(S) ==
  [k \in 1..Cardinality(S) |-> CHOOSE i \in S : Cardinality({j \in S : j >= i}) = k]

\* A plausible bug: what earlier passes applied is listed first.
OldestPassFirst(r) == report[r] \o NewestFirst(Made(r, pass[r]))

\* _recoveries_for, and refine_run over its passes: the newest edit first.
Recoveries(r) == NewestFirst(Made(r, pass[r])) \o report[r]

\* The pass goes on to another one when all of it was applied.
Conclude(r) ==
  /\ \/ stage[r] = "stopped"
     \/ stage[r] = "applying" /\ ~Due(r)
  /\ RecordAll(r, Unattempted(r))
  /\ holder' = NoRun /\ report' = [report EXCEPT ![r] = Recoveries(r)]
  /\ LET done == Cardinality(Made(r, pass[r])) = Len(plan[r])
                   /\ (Single(r) \/ stage[r] = "applying")
     IN IF done /\ pass[r] < MaxPasses
        THEN Goes(r, "between") /\ pass' = [pass EXCEPT ![r] = @ + 1]
        ELSE Goes(r, "ended") /\ UNCHANGED pass
  /\ Forget(r)
  /\ UNCHANGED <<dry, abreast, sessionVars, reached>>

-----------------------------------------------------------------------------
(* The user.  What is changed before a run has read it makes no difference. *)

HasPlanned(r) == stage[r] \in {"waiting", "applying"}

Rewind ==
  /\ \E r \in Runs : HasRead(r)
  /\ evidence < MaxRewinds /\ evidence' = evidence + 1
  /\ UNCHANGED <<dry, abreast, stage, pass, Locals, rows, report, text, holder, reached,
                 lost>>

Rewrite(t) ==
  /\ \E r \in Runs : HasPlanned(r)
  /\ text[t] < MaxRewrites /\ text' = [text EXCEPT ![t] = @ + 1]
  /\ UNCHANGED <<dry, abreast, stage, pass, Locals, rows, report, evidence, holder,
                 reached, lost>>

RunStep(r) ==
  \/ Begin(r) \/ NextPass(r) \/ NoPlace(r)
  \/ RefusePass(r) \/ LimitRefused(r) \/ NoEvidence(r) \/ CollectEvidence(r) \/ CaptureRevision(r)
  \/ FindSignal(r) \/ NothingToOffer(r) \/ Review(r)
  \/ AnswerFails(r) \/ StrictFails(r) \/ Preview(r) \/ EvidenceRefused(r) \/ AnswerIsPlan(r)
  \/ LosePlace(r) \/ RefuseTransaction(r) \/ TakeLock(r)
  \/ EditFails(r) \/ EditMade(r) \/ Conclude(r)

PassNext == (\E r \in Runs : RunStep(r)) \/ Rewind \/ (\E t \in Targets : Rewrite(t))

PassSpec == PassInit /\ [][PassNext]_passVars

-----------------------------------------------------------------------------
PassTypeOK ==
  /\ stage \in [Runs -> {"called", "between", "gates", "collected", "versioned", "reviewing",
                         "asking", "waiting", "applying", "stopped", "ended"}]
  /\ pass \in [Runs -> 1..MaxPasses] /\ quiet \in [Runs -> BOOLEAN]
  /\ plan \in [Runs -> Plans] /\ next \in [Runs -> 1..MaxEdits + 1]
  /\ holder \in Runs \cup {NoRun} /\ abreast \in 0..Cardinality(Runs)
  /\ reached \subseteq Runs \X (1..MaxPasses) /\ lost \subseteq reached

\* Transactions and single edits of all runs together stay within the day's edits, though
\* every run looked at the budget long before (daily_limit_reached under the lock).
EditBudgetKept == AppliedToday <= MaxEditsPerDay

\* Passes that reached a model, but for those that no row shows to have: the row failed to be
\* written, the place in the budget was lost, or a strict subagent failed.
Spent ==
  {x \in reached :
     x \in lost => \E i \in DOMAIN rows : rows[i].counts /\ <<rows[i].run, rows[i].pass>> = x}

\* The ceiling on model runs is read without the lock: runs that are past it at the same time
\* may exceed it together, but by no more than one for each but the first, previews and
\* reviewers included; runs one after the other never do (model_run_limit_reached).
SpendBounded == Cardinality(Spent) <= MaxModelRuns + abreast - 1

\* A transaction leaves one row for each of its edits, once, and what it made comes before
\* what it did not make (_apply_transaction).
TransactionTraced ==
  \A r \in Runs : \A p \in 1..MaxPasses :
    LET own == {i \in DOMAIN rows : rows[i].run = r /\ rows[i].pass = p /\ rows[i].index > 0}
        over == p < pass[r] \/ stage[r] = "ended"
    IN /\ \A i, j \in own : i < j => rows[i].index < rows[j].index
       /\ \A i, j \in own :
            (i < j /\ rows[j].outcome \in ConsumedOutcomes) => rows[i].outcome = "success"
       /\ over /\ <<r, p>> \notin lost =>
            \A i \in own : {rows[k].index : k \in own} = 1..rows[i].size

\* What a run tells the user to roll back is every edit it made, the newest first: memory is
\* undone by position (_recoveries_for, refine_run).
RecoveriesNewestFirst ==
  \A r \in Runs :
    /\ \A i, j \in DOMAIN report[r] : i < j => report[r][i] > report[r][j]
    /\ stage[r] = "ended" =>
         {report[r][i] : i \in DOMAIN report[r]} = UNION {Made(r, p) : p \in 1..MaxPasses}

\* The revision token is captured "from the exact active current-session rows used for the
\* proposal" (core.py:6033): while it is good, the session is the one the evidence of the
\* pass was collected from.
TokenOfItsEvidence ==
  \A r \in Runs : stage[r] = "applying" /\ Current(r) => basis[r] = evidence
=============================================================================
