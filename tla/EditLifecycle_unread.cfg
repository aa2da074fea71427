\* A target that cannot be read after the host's write.
SPECIFICATION Spec
CONSTANTS
  Actors = {a}
  Entries = {e1}
  Skills = {s}
  SkillTexts = {x}
  Lessons = {}
  UserTexts = {}
  Days = {1}
  MaxPerDay = 2
  DedupDays = 1
  MaxMemory = 2
  UserRewrites = FALSE
  MaxUserEdits = 0
  MaxCrashes = 0
  HostStages = FALSE
  ReadsFail = TRUE
  JournalFails = FALSE
  User = User
  Absent = Absent
  NoEntry = NoEntry
  NoEdit = NoEdit
  NoActor = NoActor
INVARIANTS FailedNotStanding
