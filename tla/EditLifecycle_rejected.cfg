\* An approved lesson whose predecessor is rolled back before the next pass.
SPECIFICATION Spec
CONSTANTS
  Actors = {a}
  Entries = {e1, e2}
  Skills = {}
  SkillTexts = {}
  Lessons = {l, m}
  UserTexts = {}
  Days = {1}
  MaxPerDay = 2
  DedupDays = 1
  MaxMemory = 2
  UserRewrites = FALSE
  MaxUserEdits = 0
  MaxCrashes = 0
  HostStages = TRUE
  ReadsFail = FALSE
  JournalFails = FALSE
  User = User
  Absent = Absent
  NoEntry = NoEntry
  NoEdit = NoEdit
  NoActor = NoActor
INVARIANTS RejectedNotStanding
