# A specification of the refine plugin

This directory is a TLA+ development of the Refine plugin: models of its protocols written from the
source, TLC configurations that check them on small instances, and theorems that TLAPS proves for
every instance. Line numbers in `PROJECT.json` (`map`) name the code each definition stands for.

Refine runs inside a host (Hermes). After some turns, at the end of a session, or on `/refine`, it
collects evidence from the host's transcripts, asks a model for one small improvement (a skill, a
memory entry, a prompt note), and applies it through the host's tools. Every edit is journaled with
what is needed to undo it. Several processes (a gateway, a desktop app, a command line) run the same
code on the same files at the same time, each of them can die at any moment, and the user edits the
same files. That is where the hard questions of this code are.

## 1. Inventory

| component | code | state | operations |
|---|---|---|---|
| mutation lock | `journal.py` 470-607, 1270-1540 | lock file per directory, leased loopback port, thread lock, depth, orphan tokens | `mutation_lock`, `try_mutation_lock`, `_migration_lock`, stale recovery, release |
| edit lifecycle | `core.py` 3339-4320, 5850-8250, `journal.py` 1963-3290 | journal records, skills, memory, approval queue | `refine_run`, `_apply_edit`, `reconcile`, `refine_rollback` |
| automatic worker | `__init__.py` 28-96, 298-404, 2130-2233 | worker slot, deferred session ends | `post_llm_call`, `on_session_end`, `_finish_auto_worker` |
| turn interval | `__init__.py` 38-44, 241-295, 375-404 | the mark of each session, 64 of them | compare, set, evict, forget |
| journal file | `journal.py` 1545-1960 | the JSONL log | append, replay, torn tails, fail-closed reads |
| prompt notes | `journal.py` 820-1260, `__init__.py` 407-1003 | note store, cleanup intents, block rules | add, inject, clear at session end, recover |
| transactions | `core.py` 7640-8067 | several edits of one proposal | apply in order, stop at the first failure, record the rest |
| run budget, evidence gates | `core.py` 4434-4532, 5650-6280, 8070-8180, `journal.py` 2095-2154 | counts derived from the journal | ceiling on model runs and edits, gates, passes of a run |
| directory migration | `journal.py` 437-792, `config.py` 1018-1045 | two directories, two markers, a staged copy | copy, move, commit, fall back, retry |
| model override | `journal.py`, `config.py` | one small file | set, clear |
| ledger | `ledger.py` | counts derived from the journal | record, summarise |
| notices, update check | `notices.py`, `notify.py`, `update_check.py` | one state file, changed under the mutation lock | claim, check, notify |
| proposer | `llm.py`, `core.py` 4898-5631, 6282-6712 | attempts, pinned pattern, call metadata | review, ask, fall back, ground, repair, retry |
| patterns | `patterns.py`, `lesson_effect_checker.py` | none | text in, text out |
| configuration | `config.py`, `sanitization.py` | the host's config file | read |
| commands, hooks | `__init__.py`, `desktop/` | picker views | parse, format, dispatch |
| installer | `install.py` | the host checkout, its config, a record and backups beside it | install, roll back |
| tracing | `refine_trace.py` | none | |

How they interact. A turn or a session end starts the **worker**, which runs one pass. A pass
**plans** without the lock (it reads the target, looks at the budget, calls the model), then takes the
**mutation lock**, looks again, appends an intent to the **journal**, calls the **host**, verifies
and finalizes the record. The host may queue the write for the user's approval; nobody tells the
plugin of the answer. The next pass or rollback, in whatever process, **reconciles**: it compares every
open record with its target and with the queue. The user can roll an applied edit back; a rollback is
an intent, a host write and a verification of its own.

What is hard, and which properties it calls for (the whole list, each hazard at its line, is
`hazards` in `PROJECT.json`):

- *Two processes find the same dead owner's lock file.* Compare and unlink are two steps; a slower
  one must not unlink the file that the faster one has published since. Mutual exclusion, and a live
  owner's file stays.
- *The journal directory moves* while a process waits for the lock beside the old one.
- *A plan is stale when the lock is taken*: the text, the budget and the day may have changed. No
  lost update, no day over budget.
- *A pass dies between host write and journal append*, in an edit or in a rollback. What is in
  force must stay accounted for; what was interrupted must be settled.
- *Approvals come late*, after the target has moved on, or never. The record has to end as what the
  target shows.
- *The same operation is proposed twice*, while its twin waits, or after it died half way.
- *Memory is a list others write too*: a rollback finds its entry by text and position.
- *A session ends while the worker is busy*: its cleanup is deferred to whoever frees the slot, and
  must neither be lost nor start a second worker.
- *A note is removed in three steps*, and the user edits the same file: an intent must come to its
  end, and only what refine wrote may go.
- *Concurrent runs read the budgets long before they use them*, and a transaction uses several.
- *The model is asked again and again* within one pass: what the pass has settled (the pattern it is
  about, the route it is credited to) must survive every repair.
- *A migration dies* between any two steps while others write to the old directory.
- *An installer dies*, is run again, and is rolled back: the way back must be on disk before every change.

## 2. Modules

| module | what it is |
|---|---|
| `Mutex` | abstract: one holder at a time |
| `MutationLock` | the lock protocol, one action per access to a file, a port or the thread lock |
| `MutationLockProofs` | theorems about it |
| `JournalLifecycle` | abstract: records move along the declared transitions, and a day's budget holds |
| `EditLifecycle` | passes, reconciliation and rollbacks over the journal, the host and the user |
| `EditLifecycleProofs` | theorems about it |
| `AutoWorker` | the worker slot of one process and its deferred session ends |
| `TurnMarks` | when the turns of a session ask for a pass |
| `AutoWorkerProofs` | theorems about both |
| `JournalLog` | the journal file, byte by byte as far as it matters, and the backups it refers to |
| `JournalLogProofs` | theorems about it |
| `PromptNotes` | the note file, its intents and the rules built from it |
| `PromptNotesProofs` | theorems about it |
| `RefinePass` | concurrent runs: gates, evidence, answer, transaction, recoveries |
| `Proposer` | the attempts of one pass to get an answer |
| `RefinePassProofs` | theorems about both |
| `Migration` | the move of the runtime data to its new directory |
| `MigrationProofs` | theorems about it |
| `Installer` | `install.py`: install and rollback, step by step |
| `InstallerProofs` | theorems about it |
| `MCMutationLock`, `MCEditLifecycle`, `MCJournalLog` | small instances for TLC |
| `MCComponents`, `MCLiveness` | several components, of which `focus` picks one for a behaviour |

How the modules fit together. `RefinePass` has a whole run with its gates, in which an edit is one step and
an answer is another; `EditLifecycle` is that edit, `Proposer` that answer. `AutoWorker` and `TurnMarks` are
what starts a run by itself, and `AutoWorker`'s cleanup of a session is `EndSession` of `PromptNotes`.
The lock all of them take is one variable, or one step, everywhere but in `MutationLock`; `Migration`
is what happens under its `CommitMigration`. The file their records go to is `JournalLog`.

### MutationLock

Threads ask for the lock (`mutation_lock`, `try_mutation_lock`, `_migration_lock`), take the thread
lock, clear an orphan of their own process, look for a dead owner's file (read it, bind the port it
names, compare again, unlink), bind a lease port of their own, publish the file with a link that
never replaces, and check that the directory is still the active one. A release compares the token,
unlinks, closes the port and frees the thread lock; an unlink that fails leaves an orphan. A process
may die anywhere: its ports close, its memory goes, its files stay. An unrelated program may bind a
port. `CommitMigration` changes the active directory under the legacy lock.

Abstracted: the contents of a lock file (a token and a port), retry pauses (a retry is a loop through
the same actions, a deadline is `Expire`), the paths. A token is a fresh uuid, a port any free one.

The acquisition can fail besides (`Faults`): no port to be had (`LeaseFails`, which also covers a host with all
ports taken), an error of the publication other than a file in the way (`PublishFails`), a directory that
cannot be resolved again (`ConfirmFails`). The code closes what it has bound on each of these ways but one: after
`PublishFails` the candidate is known to nobody, and stays bound by the process until the interpreter drops
the socket (`Drop`), at once or much later. Meanwhile no recoverer can bind that port, should a dead owner's file name it.

`OwnerKeepsFile` is what makes the protocol safe; `MutualExclusion` and `CurrentGeneration` are what
callers rely on; `ImplementsMutex` is the refinement of `Mutex`. `NothingLeaked` says that a thread
that is back, whichever way, has neither a port nor the thread lock, and that a thread that recovers has bound no
candidate of its own ("Never allocate a candidate lease before stale recovery"); the candidate of `PublishFails`
is the process's, and outlives it. `MalformedKept` that a file without a lease
stays for the operator, `EveryRequestEnds` that nobody waits past a deadline.

### EditLifecycle

A step of a pass is one access to something that others change outside the lock. A pass is
`StartPass` (reconcile under the lock), `Propose` (budget gate, model, plan), `Admit` (lock, budget
again), `Check` or `Refuse`, `Prepare` (capture the recovery data, append the intent), `HostWrite`
(done, queued with or without an id, refused), `FinishEdit` (verify, finalize, perhaps go on to another
edit). A rollback is `StartRollback`, `Intend`, `HostUndo`, `FinishRollback`. The user approves or
denies what is queued, edits skills and memory; intents grow old; midnight passes; processes die.
Ids, texts and lessons are model values. `by` in the host's state is history: it says which edit
wrote a text, and no action reads it. A text that a rollback restores counts as the user's.

`Reconciled` is the decision table of `reconcile` for one record. On a host that can queue writes an
interrupted intent is left alone, because the request may be in the queue under an id nobody saw; on
other hosts it is settled by what the target shows.

The deduplication window is `DedupDays`. The code counts it in seconds, so that an edit exactly so many days old may
be on either side of it (`Windows`); `TwinsNeverOpen` speaks of edits that are surely within it.

Abstracted or left out: prompt notes, session-cleanup intents and multi-edit transactions; a host that raises after it has written; a torn journal line (an append happens
or does not, `JournalFails`; `JournalLog` has the bytes). `Entries` bounds how many records a behaviour has (`RoomLeft`), and
`MaxMemory`, `MaxUserEdits`, `MaxCrashes` bound the rest.

The lock is one variable here: `MutationLock` shows why that is right.

### AutoWorker

One element of `Threads` is a host callback and the worker it starts, which returns to the host at
once and goes on by itself. A turn claims the slot or is skipped (`StartTurn`); a session end is
deferred when the slot is taken (`DeferOrClaim`). A worker runs its pass and its cleanup, and
`Finish` takes the oldest deferred end along with the slot, or lets the slot go, in one step under
`_AUTO_PENDING_LOCK`. `owed` is history: what the last end of a session still owes.
A thread that does not start, or a gate that raises, gives up before the cleanup; the code hands the
slot on and the notes stay until the next end or reset of that session, so such an end is "lost" in
`owed` and `EveryEndCleans` does not speak of it. Not modelled: the cooldown, what a pass does (that is
`EditLifecycle` and `RefinePass`).

### TurnMarks

The callback of each session, `TakeTurn`, `Compare` or `GatesRefuse`, `ClaimSlot`, `ChargeAttempt`, in
steps that the callbacks of other sessions come between; `SetMark` evicts the oldest mark. A conversation
may be compressed, a session reset or ended, at any time. `since` is history: the messages since the last
attempt. `NoEarlyPass` is what the comment on the missing mark is about. The other half of that comment
("at most one interval late") does not hold, see section 3.

### JournalLog

An append is four steps under the lock: move a torn tail aside (`Repair`), write some of the line
(`WriteSome`), all of it (`WriteRecord`), its newline (`WriteNewline`). It may raise, or the process may
die, after any of them. Readers take no lock: `ReadRecords` and `ProbeTail` are the two reads of a gate.
A tail is `Clean`, `Torn`, or a whole record that lacks its newline; a terminated line that does not
decode (`Bad`) comes only from somebody else (`Spoil`). A record names a backup of its target, which
`BackUp` writes together with retention (`Pruned`), and which the cleanup at every lock acquisition
(`Orphans`) must leave alone. A refusal is appended like a record but counts for nothing, so it is not
kept in `lines`. An automatic pass (`kind`) ends without a trace when its gate is closed; a pass by
command journals its refusal.

Abstracted: the records are those of skill patches, with the outcomes that need no approval queue; a
backup is 30 days old or not, and never 90; one day; reuse of a process id by an unrelated program
(which only keeps an orphan longer). The model call between gate and lock is the place `open`.

### PromptNotes

The note file is a whole that refine replaces under the lock, from a view it read earlier under that
lock (`op.view`); the user edits, breaks, repairs or deletes the file meanwhile, without the lock. Adding:
`Bind` (to a session, which may be over by then), `Intend`, `AddNote`, `ConfirmNote`. The end of a session: `EndSession` (or the
lock is busy, and nothing happens), `MarkNote` for each note whose record owns it, `Sweep`, `ReadBack`,
`ResolveNote`, `EndCleanup`. A rollback: `StartUndo`, `RemoveNote`, `Certify` or `RemoveFails`. Reconciliation:
`SettlePrepared`, `SettleUndo`, `SettleCleanup`. `Abandon` ends any of them between two steps. `Turn` rebuilds
the block rules.

`GoneIsGone` and `OnlyOwnRemoved` say what the two-phase cleanup is for; `NoteIntentsEnd` that no intent stays
open, whoever died; `RulesLapse` that a rule does not outlive its note.
Abstracted: texts (as refine wrote it, changed, absent), limits on number and length, a user who puts a
removed note back word for word.

### RefinePass

`refine_run` calls passes until one does not apply everything (`Begin`, `NextPass`, `NoPlace`); a pass goes
through its gates without the lock (`RefusePass`, `LimitRefused`, `NoEvidence`, `CollectEvidence`, `CaptureRevision`,
`FindSignal`, `NothingToOffer`, `Review`), gets its answer (`AnswerFails`, `Preview`, `EvidenceRefused`,
`AnswerIsPlan`) and takes the lock (`RefuseTransaction`, `LosePlace`, `TakeLock`, `EditFails`, `EditMade`,
`Conclude`). Two runs interleave while the user rewinds the session and rewrites skills. Every way out
leaves the row the code leaves; a row may fail to be written (`RowsFail`, `lost`), and a strict subagent that fails
leaves one that does not count as a model run (`StrictFails`). `abreast` is history: the most runs that were past
the look at the ceiling at the same time, which is what `SpendBounded` allows for.
Abstracted: which gate refuses, whether a pattern is evidence enough, an edit (one step, with the row
it ends with), rollbacks meanwhile, midnight (`EditLifecycle` has both).

### Proposer

One pass asks the reviewer (`StartReview`), then up to two attempts: a subagent first, a structured call,
JSON when the host refuses a schema, grounding in an offered pattern, and the repairs an answer of that shape
calls for (`Missing`, `Proceed`). `pin` is the pattern a repair has settled, `Meta` whose answer is on record.
The sizes of texts are `Shapes` of an answer. A reply names the model it comes from, or none.

### Migration

`migrate_legacy_journal_dir` step by step, for several processes each of which runs it when it starts. A
process whose migration fails goes on with the legacy directory until another one commits. Data are
versions of files; `wanted` is history: the last version written, or none.

### Installer

`do_install` and `do_rollback`, one action per write to the host, the config, the record or the backups. `Stop`
ends a run between any two, and a write of the record may tear it. The user checks files out, edits them
and sets the limit between runs. `original` is history: the host at its first recorded backup.
Abstracted: one patch and its superseded revision, a file as a whole (absent, stock, patched, old, edited), one
of the two limits, HEAD stays, a host the patch does not fit is refused.

## 3. Runs

| run | instance | shows |
|---|---|---|
| `lock_recovery` | 2 processes of one thread, 4 tokens, 2 ports one of which a stranger may take, 2 deaths, all entry points, nesting of 2 | `MutualExclusion`, `CurrentGeneration`, `OwnerKeepsFile`, `ImplementsMutex` |
| `lock_live` | 2 threads of one process, nesting of 2, 1 death, failing unlinks, leases, publications and confirmations, fairness | `NothingLeaked`, `MalformedKept`, `EveryRequestEnds` |
| `edit_content` | 2 processes, 2 records, a skill or 2 lessons in a memory of 3 that others rewrite, with a lesson's words too, 2 days, a window of 1, a queue, 1 death, failing reads and appends | `TwinsNeverOpen`, `OthersMemoryKept` |
| `edit_passes` | 2 processes, 3 records, 2 texts, 1 edit a day, 2 days, 1 death | `WithinBudget`, `NoLostUpdate`, `ImplementsLifecycle` |
| `journal` | 2 processes, 2 records, 4 lines, 1 death or failed append, a spoilt line, both kinds of pass, fairness | `BackupsKept`, `NoneLost`, `KeepsReadable`, `ImplementsLifecycle`, `TornHeals` |
| `components` | `focus`: passes (2 runs of 2 passes, 2 edits each, budget 3, ceiling 2, failing rows, 1 rewind, 1 rewrite) | `EditBudgetKept`, `SpendBounded`, `TransactionTraced`, `RecoveriesNewestFirst` |
| | proposer (5 setups of route, subagent and session, 2 patterns) | `GroundedStays`, `FewCalls`, `AnsweredByRoute` |
| | installer (2 targets, one of them created, 2 user limits of which one is the floor, 2 backups) | `HostRecoverable`, `RollbackRestores`, `RaiseUndone` |
| | migration (3 processes, 2 files, 2 writes, 3 deaths or failures) | `WrittenIsRead` |
| | turn marks (2 sessions, 1 mark, interval 2, 3 messages) | `NoEarlyPass` |
| | skill edits (1 process, 2 records, a queue, 1 user edit, 1 death, failing appends) | `StandingAccounted` |
| `liveness` | `focus`: worker (3 threads, 2 sessions, failing starts and gates) | `NothingStranded`, `OneWorker`, `EveryEndTaken`, `EveryEndCleans` |
| | notes (2 notes, 1 session, 1 hand edit, 1 death or failure) | `GoneIsGone`, `OnlyOwnRemoved`, `NoteIntentsEnd`, `RulesLapse` |
| | lessons on a host without a queue (1 process, 2 records, 1 user edit, 1 death) | `IntentsSettle` |
| | skill edits on a host with a queue (1 process, 2 records, 1 death) | `ApprovalsSettle` |
| `edit_rejected`, `edit_unread` | 1 process, 1 or 2 records | refuted, see below |
| `journal_sticky` | as `journal`, 1 record, automatic passes only | refuted, see below |
| `pass_evidence` | 1 run of 1 pass, 1 rewind | refuted, see below |
| `migration_pin` | 2 processes, 1 write, 1 failure | refuted, see below |

The components of `components` and of `liveness` share no variable. A behaviour is one of one component: `focus`
picks it at the start, the others rest in a state they may start in. No run checks a type
invariant: they are part of the invariants of section 4, and theorems.
`edit_content` has two constraints. `MCOneKind`: the edits of one behaviour are all of skills or all of lessons.
The two kinds share the journal, the budget and the lock, and `edit_passes` has those; what either property
says is about one target. `MCQuietNight`: a behaviour in which the user writes has no midnight. The theorems
of section 4 know neither.

Why the bounds are enough to be interesting. A recovery race needs a dead owner, a fast and a slow
recoverer: with two processes that is two deaths, and the tokens are one for every file or thread
that can still refer to one. Staleness of a plan needs two passes; a budget slot freed and taken again
needs three records and two days. Rollback of memory needs two lessons (one moves the other)
and an entry of somebody else. Two deferred sessions and three threads are enough for one worker that
drains, one end that arrives meanwhile, and one turn that tries to claim. A torn tail takes one
death, a backup that looks unreferenced one death and one spoilt line, an overbooked day two passes and
two records. A ceiling that is passed takes two runs that are past it together, and a transaction that loses its
place needs a budget that is no multiple of its size. Orders of recoveries need two edits in each of two passes.
A restore target that drifts takes two installs, hence two backups. Three processes are one that fails and
falls back, one that migrates, one that starts afterwards. One mark for two sessions is the eviction. Where an instance is
symmetric in its processes and records the safety runs use symmetry; the liveness runs do not.
`NoLostUpdate` is checked on a host without a queue: a queued write is replayed by the host
long after the conflict check, and the host alone decides then. Every property has a mutant
in `PROJECT.json`: a plausible bug in one definition under which the run finds the property broken.

Fairness. `MutationLock.FairSpec`: threads keep running, deadlines pass, a caller leaves the
critical section. `EditLifecycle.FairSpec`: passes keep being started (sessions keep ending), a begun
pass or rollback runs to its end or dies, fifteen minutes pass, and the user answers what a queue holds
(`liveness` states the same for its two instances). `AutoWorker.FairSpec`: threads that run go on. `JournalLog.FairSpec`: processes that run go on,
and passes of each kind in `Kinds` are started again and again (the user runs `/refine` now and then,
sessions end); without passes by command the last does not help, as `journal_sticky` shows.
`PromptNotes.NotesFairness`: a holder of the lock goes on, sessions keep taking turns, passes keep being run and
reconcile each open intent (strongly fair, for the lock is taken and freed meanwhile), and a user whose note file
is broken repairs it. No fairness is assumed of deaths, user
edits, new requests, new turns or the switch. The operating system's scheduler and the clock justify
these; a user who never answers leaves a request pending, in the code as in the model.

### Statements the runs refute

- `edit_rejected` (`RejectedNotStanding`). Two lessons: the second is queued, approved, and before any
  pass sees it the first is rolled back. The prefix recorded with the second no longer matches, the
  target check says "not applied", and `reconcile` records the second as rejected "and the target never
  changed" while its text is in memory. It frees its slot and can no longer be rolled back. The same
  prefix has a second effect: a lesson whose pass died stays `prepared` for good, beyond the timeout that
  the comment on `_ABANDONED_PREPARED_SECONDS` gives it.
- `edit_unread` (`FailedNotStanding`). After the host's write the target cannot be read; the edit is
  recorded as an error although it is in force. `reconcile` treats the same answer as unknown.
- `journal_sticky` (`TornHeals`). A process dies in the middle of an append. From then on every automatic
  pass finds the model-run ceiling "reached", because the gate fails closed on a torn tail, and returns
  before it journals anything. The comment on `_load_entries_for_gate` calls the refusal self-healing,
  because it is journaled; that is so for a pass by command (`TornHeals` holds in `journal`), not for
  an automatic one.

- `pass_evidence` (`TokenOfItsEvidence`). A pass reads the session's rows for its evidence, the user rewinds, and
  the pass reads the rows again for the token that is to guard the evidence. The comment at `core.py:6033` says
  the token comes "from the exact active current-session rows used for the proposal".
- `migration_pin` (`ClearedStaysCleared`). A migration stops after it has moved `model_override.json`; its process
  falls back, and the user clears the override there. The next migration copies what the legacy directory has, so
  it leaves that file where it is, and commits. `journal.py:416` says a cleared pin is not "resurrected".
  `WrittenIsRead`, the same for what is written rather than cleared, holds.

More disagreements are known and have no run. A gate's two reads: the same comment says that "either
read seeing a torn tail closes the gate", but only the second looks at it, so a record finished between the
two is not counted. For edits the look under the lock makes up for it (`ImplementsLifecycle`); the ceiling on
model runs has no such second look. The rollback of a create (`docs/ROLLBACK.md`: only "if current content
still exactly matches") deletes by name, after a check that may be long past when the delete waits
for approval. A memory rollback goes by the
exact text, at or after the planned position (`docs/USAGE.md:308`): refine appends a lesson, the user replaces that
entry by one of their own with the same words, and the rollback removes the user's, "the one thing this plugin
may never do" (`journal.py:3203`). `edit_content` has a user who writes a lesson's words, and `OthersMemoryKept` spares
that one entry: what a step removes reads exactly like the lesson that is being rolled back, and is one entry.

Found while modelling, and kept in the models as the code has it:

- An evicted mark makes a session wait, as `__init__.py:255` says, but not "at most one interval": sessions beyond
  the cap that take turns in rotation evict each other's marks, and none of them ever fires.
- `RollbackRestores` excepts a file the patch creates that was there before the first recorded backup, from a patch
  no record knew of. If the first install stops after clearing it, the second lists it as created, and a rollback
  deletes it although the backup has it; `install.py:1701` says "restored byte-for-byte". And "a user who ran the
  install at 3000 gets 3000 back" (`install.py:1367`) is so only for the first raise on record.
- The record of the installer is written in place: a death in it leaves what neither a rollback nor another install
  accepts (`Torn`), hence the condition in `HostRecoverable`.
- Call metadata: the last reply that names a model wins, across calls (`llm.py:98`); a subagent's name comes last of
  all (`core.py:6490`). `AnsweredByRoute` states what that still guarantees.
- A single edit that loses its place in the budget under the lock leaves no row (`LosePlace`), a transaction that
  is refused leaves several, and a strict subagent that fails leaves one without `primary_attempts`, which counts only
  if the number of its calls is known (`StrictFails`, `core.py:6354`). So `count_today_model_runs` is not the number of
  the day's "refine passes that reached a model" (`journal.py:2125`): `Spent` has those that a row shows.
- A note is bound to its session before the pass waits for the lock; a session that is reset meanwhile gets its note
  all the same (`Bind`, `Intend`), a pass of its own that ends after it too, and only its next end removes it.
- `_on_pre_llm_call` leaves the block rules alone when the note file is missing, so that `RulesLapse` needs a file.
- A preview says `would_apply` for a patch that changes nothing.

## 4. Proofs

Every safety property that a run checks is also a theorem, for any sets and bounds that satisfy the `ASSUME`s of
the modules: names that are distinct, budgets and bounds in `Nat`, finitely many records and runs. TLC
evaluates the assumptions in every run. So is the type invariant of every module (`TypesHold`, `MarksTypesHold`,
`PassTypesHold`, `ProposerTypesHold`, `InstallerTypesHold`, `MigrationTypesHold`, `NotesTypesHold`). Two theorems about `EditLifecycle` (`NoneIsLost`, `StandingIsAccounted`) have a hypothesis
besides; each is stated in its `ASSUME`, and why it is needed is said below.

The argument is the same everywhere: an invariant that says why the property holds, one lemma for
each action that disturbs a part of it, and a `PTL` step. What follows is what each invariant adds.

**MutationLock.** The invariant `Inv` is about ports. Whoever owns a lock file has the
port that file names bound (`LeaseHeld`, `OwnerKeepsFile`); whoever recovers has the port of the
file it read bound (`RecoveryHeld`); a port has one owner. So a file read by a recoverer that has
bound its port is not a live owner's, and the second comparison makes what it unlinks what it read
(`StaleUnchanged`). Publication never replaces a file, hence one owner per directory; the second look at
the directory and the migration's lock give `CurrentGeneration`; together they give
`MutualExclusion`, and the refinement of `Mutex` follows step by step (`Implements`). None of these is
inductive alone: `OwnerKeepsFile` without `StaleUnchanged` says nothing of a recoverer about to unlink.
`NothingLeaked` speaks of threads outside and of threads that recover. Its invariant says for each place of a thread which ports and which
thread lock it may have (`Tidy`), so that each way out, with the place it goes on to, has little left to close.
`MalformedKept` needs `Inv` only: a file is unlinked by its owner, or by a recoverer that has read a lease in it.

**EditLifecycle.** `TypesHold`, `BudgetHolds` and `Implements` (every step of every pass, rollback and
reconciliation is one of `JournalLifecycle`'s). The budget is looked at in `Admit` and used in
`Prepare`, two steps later. The invariant `IInv` adds what makes that sound: whoever is inside a
mutation holds the lock (`HoldsLock`), the room a pass saw is still there (`Room`), which needs
that no other pass appends and that midnight only makes room, since no record is dated in the future
(`NoFuture`); the record an actor works on is in the state that its place says (`OfWork`), which gives
the transitions; and a record that counts, or waits, has an edit (`Recorded`, `Drafted`).
The other results rest on `IInv` and on one lemma, `HeldStill`: while an actor stays at its place inside the
mutation, no step changes the records, and only the user and the approval queue change the host.

- `TwinsStayClosed`. What the check saw of the journal is still so when the intent is appended (`Unrepeated`):
  midnight between the two only takes edits out of the window, whichever way the check rounded it.
  A rollback that is taken back (`applied` again) opens nothing that was closed.
- `NoneIsLost`, where the host has no queue and nobody else writes skills: what the plan was made from is
  still there when the intent is captured and when the host writes (`Seen`). With a queue the host writes long
  after the check, and a user who writes between check and write has written what no record holds.
- `StandingIsAccounted`, for skill edits whose target can be read. A text that stands has a record that counts, is
  being written, or waits in the queue: whose text it is (`Authored`), what is under way (`Changing`), what is
  queued (`QueuedOpen`), what the host answered (`Answered`). The hypotheses are exact: with reads
  that fail the statement is false (`edit_unread`), with lessons in memory too (`edit_rejected`).
- `OthersAreKept`, without a hypothesis. A step of refine's appends its own entry, or takes out one entry that reads
  like the lesson on record (`MemoryMoves`); if that one is somebody else's, its text is `BeingUndone`.

**AutoWorker and TurnMarks.** `TypesHold`, `NoneStranded`, `Implements`. The slot is a flag that does not say who owns
it; ownership is where the threads are. `IInv` ties them: one thread at most is in an owning place
(`Sole`), the flag is set exactly then (`Taken`), and nothing is deferred while it is clear (`Awaited`).
Every step claims the slot, gives it back with nothing pending, or leaves it (`SlotMoves`).
`NoneFiresEarly`: a mark is never so old that the messages after it are more than the messages since the last
attempt (`MarksEarned`). It needs that a session has one mark (`OneMark`) and that a
conversation only shrinks while its callback runs (`CountedLast`), for the callback compares a length it has read
before. `MarksTypesHold` says more than types: no order of turns, ends and new starts leaves more marks than
`_AUTO_TURN_MARKS_MAX`.

**JournalLog.** `TypesHold` and `NothingLost`. What an append writes over or cuts off must be torn, never a
record: the tail changes only under the lock, and from the first byte to the newline it is the
holder's own (`Holds`, `Wrote`), so every step leaves what readers see or adds one record to its end
(`StepAppends`). `WritersKeepReadable`, `BackupsAreKept` and `Implements` need more of the holder (`LogInv`): what
it is about to append is a declared transition of the record as it is then, and in the budget (`Lawful`), what it
has written is that (`Finished`), and the backup of its record is there and its own (`Guarded`). Cleanup and retention run
when a holder takes the lock or a backup, so they see no record half made.

**RefinePass.** A step leaves the other runs alone and appends rows of its own run and pass (`StepEffect`).

- `EditsStayInBudget`: one run has the lock (`Exclusive`), and a single edit that is past the look at the budget
  still has its place (`PlaceKept`). The edits of a transaction look again, each of them.
- `SpendStaysBounded`: a pass that asks came past the ceiling. Either it has a row and the ceiling counts it, or it
  is still on its way, and a run has one such pass (`Accounted`, `Capped`, `Fresh`, `Tried`). Those on their way are
  at most `abreast` (`AbreastCounts`), and the one that came last read a count below the ceiling. A run that looks
  when no other is past the look makes no room for more. The bound is a statement about cardinalities, which is why
  `Runs` is finite.
- `TransactionsAreTraced`: what of the plan has rows already, for each place of the run (`TraceOf`).
- `RecoveriesAreInOrder`: the rows of a run are in the order of its passes (`PassesInOrder`), and its report has what the
  passes that are over have made (`ReportOf`); `NewestFirstIs` says that counting who is not older sorts a set.
- `PassTypesHold` has two facts that are more than types: a run never goes past its last pass, and what has no
  row that counts had reached a model (`Bounds`), so that the allowance for such passes in `SpendBounded` is for nothing else.

**Proposer** (in `RefinePassProofs`). `GroundingStays`: what is pinned is what the proposal is filed under
(`Pinned`), and nothing is pinned before there is a proposal. `RouteAnswered`: unless a subagent ran, the route on
record was heard in this very pass (`Known`). `CallsAreFew`: a fallback of the output
mode is remembered, so it costs one call, once (`Cheap`, `OneGrounded`).

**Installer.** `HostStaysRecoverable`, `RollbackPutsBack`, `RaisesAreUndone`. There are two records, the one on
disk and the one the installer builds in memory, and both know the way back (`RecordKnows`, `MemKnows`): the backup they
name is the host as it first was, and lists what was not there (`Backed`); a raise has the number it replaced
(`WayBack`). The record on disk is written before the host or the limit is (`RecordedFirst`), and a rollback goes by
it alone (`RollingBack`). A torn record is excepted, as in the properties.

**Migration.** `WrittenDataIsRead`. The commit marker splits the argument. Before it every process that runs has fallen back
to the legacy directory, which has what was written (`BeforeCommit`), and what is staged or moved is a copy of
that (`StagedIsLegacy`); after it the new directory has it (`AfterCommit`). One process migrates (`OneMigrates`), and
its place says on which side of the marker it is (`MarkerAtItsStep`).

**PromptNotes.** `RecordsAreRight`, `OnlyOwnAreRemoved`. The holder of the lock writes the file from a view it read
before, and the user may have written in between. `ViewIsRight` says how wrong the view may be: a note it misses is
missing, and a note whose record says it is gone is not in the view. So writing it back revives none.

Only model-checked: liveness (`EveryRequestEnds`, `IntentsSettle`, `ApprovalsSettle`, `EveryEndTaken`,
`EveryEndCleans`, `NoteIntentsEnd`, `RulesLapse`, `TornHeals`), for fairness and `ENABLED` are out of the prover's reach.
Induction over data is out of reach too. No module declares a recursive operator, and where the community
modules would have brought one into a property (a sorted sequence, a selected one) the models say the same by
counting (`NewestFirst`) or by a map that keeps the order (`SameOthers`).

## 5. Plan

The models are as far as the bounds of a run allow (section 6 says what is left), and their safety properties are
proved. What is left to prove are statements that no run makes yet:

1. `RefinePass` as one of `JournalLifecycle`'s clients: its rows obey the day's budget as that module states it, which
   would tie the two accounts of an edit together.
2. `StandingAccounted` for lessons on a host without a queue, if TLC agrees: in `edit_rejected` the
   rollback that changes a prefix meets a lesson in the queue.
3. The steps from which the liveness properties follow (an open intent that is old, with a free lock, has an enabled step
   that closes it), as far as they can be said without `ENABLED`.

## 6. Not modelled

- Text: prompts, parsing, patterns, sanitization, the formatting of commands and notices. It has no shared state;
  `EditLifecycle` and `RefinePass` let the model propose anything, `Proposer` has the shapes of an answer.
- The ledger and the audit are counts of journal records.
- Notices and the release check: one state file, read, changed and replaced under the mutation lock
  (`notices.py:94-130`), in which a daily attempt is claimed before the fetch and the sending run without the lock.
  What can go wrong is a message lost or repeated. The download swaps one file.
- The cooldown of the automatic trigger and the other readers of the whole history (`recent_refinements`,
  `last_attempt_ts`).
- A host that raises after it has written (`core.py:7341`), which ends like the unreadable check of `edit_unread`.
- The desktop client, which only sends commands; tracing.
