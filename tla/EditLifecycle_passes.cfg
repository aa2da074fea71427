\* Passes that edit one skill, a death, midnight.
SPECIFICATION Spec
CONSTANTS
  Actors = {a, b}
  Entries = {e1, e2, e3}
  Skills = {s}
  SkillTexts = {x, y}
  Lessons = {}
  UserTexts = {u}
  Days = {1, 2}
  MaxPerDay = 1
  DedupDays = 1
  MaxMemory = 2
  UserRewrites = FALSE
  MaxUserEdits = 0
  MaxCrashes = 1
  HostStages = FALSE
  ReadsFail = FALSE
  JournalFails = FALSE
  User = User
  Absent = Absent
  NoEntry = NoEntry
  NoEdit = NoEdit
  NoActor = NoActor
SYMMETRY MCSymmetry
INVARIANTS WithinBudget
PROPERTIES NoLostUpdate ImplementsLifecycle
