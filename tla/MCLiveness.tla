------------------------------ MODULE MCLiveness ------------------------------
(* What must happen in the end, on small instances: deferred session ends      *)
(* (AutoWorker), prompt notes (PromptNotes), and intents and approvals that a   *)
(* death leaves behind (EditLifecycle on a host without and with an approval    *)
(* queue).  A behaviour is one of the component `focus` names; the others rest. *)
EXTENDS AutoWorker, PromptNotes

CONSTANTS Actors, Entries, EditedSkills, SkillTexts, Lessons, UserTexts, User, NoSkill, NoEntry,
          NoActor, Unedited

VARIABLES
  focus,
  editOutcome, edit, day, aged, today, skills, memory, queue, lock, editPc, work, draft,
  answer, userEdits, crashes

editVars == <<editOutcome, edit, day, aged, today, skills, memory, queue, lock, editPc, work,
              draft, answer, userEdits, crashes>>

\* Lessons on a host that writes at once.
AtOnce == INSTANCE EditLifecycle WITH
  Skills <- {}, SkillTexts <- {}, Days <- {1}, MaxPerDay <- 2, DedupDays <- 1, MaxMemory <- 2,
  UserRewrites <- FALSE, MaxUserEdits <- 1, MaxCrashes <- 1, HostStages <- FALSE,
  ReadsFail <- FALSE, JournalFails <- FALSE, Absent <- NoSkill, NoEdit <- Unedited,
  outcome <- editOutcome, pc <- editPc

\* Skill edits on a host that asks the user.
Asking == INSTANCE EditLifecycle WITH
  Skills <- EditedSkills, Lessons <- {}, Days <- {1}, MaxPerDay <- 2, DedupDays <- 1, MaxMemory <- 2,
  UserRewrites <- FALSE, MaxUserEdits <- 0, MaxCrashes <- 1, HostStages <- TRUE,
  ReadsFail <- FALSE, JournalFails <- FALSE, Absent <- NoSkill, NoEdit <- Unedited,
  outcome <- editOutcome, pc <- editPc

MCInit ==
  /\ focus \in {"worker", "notes", "intents", "approvals"}
  /\ Init /\ (focus = "worker" \/ enabled)
  /\ NotesInit
  /\ IF focus = "approvals" THEN Asking!Init /\ memory = <<>>
     ELSE AtOnce!Init /\ (focus = "intents" \/ memory = <<>>)

WorkerAlone == focus = "worker" /\ Next /\ UNCHANGED <<focus, notesVars, editVars>>
NotesAlone == focus = "notes" /\ NotesNext /\ UNCHANGED <<focus, vars, editVars>>
IntentsAlone == focus = "intents" /\ AtOnce!Next /\ UNCHANGED <<focus, vars, notesVars>>
ApprovalsAlone == focus = "approvals" /\ Asking!Next /\ UNCHANGED <<focus, vars, notesVars>>

MCNext == WorkerAlone \/ NotesAlone \/ IntentsAlone \/ ApprovalsAlone

Starts(a) == \/ focus = "intents" /\ AtOnce!StartPass(a)
             \/ focus = "approvals" /\ Asking!StartPass(a)
Steps(a) == \/ focus = "intents" /\ AtOnce!Step(a)
            \/ focus = "approvals" /\ Asking!Step(a)
Ages(e) == \/ focus = "intents" /\ AtOnce!Age(e)
           \/ focus = "approvals" /\ Asking!Age(e)
Answers(r) == r \in queue /\ (Asking!Approve(r) \/ Asking!Deny(r))

\* The fairness of each component, which says nothing of one that rests.
MCFairness ==
  /\ \A t \in Threads : WF_vars(Step(t))
  /\ NotesFairness
  /\ \A a \in Actors : WF_editVars(Starts(a)) /\ WF_editVars(Steps(a))
  /\ \A e \in Entries : WF_editVars(Ages(e))
  /\ \A r \in Entries \X {"write", "undo"} : WF_editVars(Answers(r))

MCSpec == MCInit /\ [][MCNext]_<<focus, vars, notesVars, editVars>> /\ MCFairness

\* On a host that writes at once, an intent whose target shows the edit, or shows that it
\* is not there, is settled (reconcile).
IntentsSettle == focus = "intents" => AtOnce!IntentsSettle

\* What waits for approval is settled after the answer, whoever died meanwhile (reconcile).
ApprovalsSettle == focus = "approvals" => Asking!ApprovalsSettle
=============================================================================
