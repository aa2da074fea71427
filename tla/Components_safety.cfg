\* Six components, one at a time; their bounds are in the README.
SPECIFICATION MCSpec
CONSTANTS
  Runs = {r1, r2}
  Targets = {x}
  Creation = Creation
  NoRun = NoRun
  MaxEditsPerDay = 3
  MaxModelRuns = 2
  MaxPasses = 2
  MaxEdits = 2
  MaxRewinds = 1
  MaxRewrites = 1
  RowsFail = TRUE
  Setups <- MCSetups
  Offered = {f1, f2}
  NoPrint = NoPrint
  MaxPatches = 1
  Files = {f, g}
  CreatedFiles = {g}
  Floor = 4400
  UserLimits = {2200, 4400}
  MaxZips = 2
  Hosts = {p1, p2, p3}
  DataFiles = {journal, override}
  Clearable = {override}
  MaxWrites = 2
  MaxFailures = 3
  Chats = {s1, s2}
  Interval = 2
  MaxMarks = 1
  MaxLength = 3
  Actors = {a}
  Entries = {e1, e2}
  Skills = {s}
  SkillTexts = {x}
  Lessons = {}
  UserTexts = {u}
  Days = {1}
  MaxPerDay = 2
  DedupDays = 1
  MaxMemory = 2
  UserRewrites = FALSE
  MaxUserEdits = 1
  MaxCrashes = 1
  HostStages = TRUE
  ReadsFail = FALSE
  JournalFails = TRUE
  User = User
  Absent = Absent
  NoEntry = NoEntry
  NoEdit = NoEdit
  NoActor = NoActor
SYMMETRY MCSymmetry
CHECK_DEADLOCK FALSE
INVARIANTS
  EditBudgetKept SpendBounded TransactionTraced RecoveriesNewestFirst
  GroundedStays FewCalls AnsweredByRoute
  HostRecoverable RollbackRestores RaiseUndone
  WrittenIsRead
  StandingAccounted
PROPERTIES NoEarlyPass
