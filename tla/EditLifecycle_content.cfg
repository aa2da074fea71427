\* Lessons among entries of others, with an approval queue, a death, and reads and appends that fail.
SPECIFICATION Spec
CONSTANTS
  Actors = {a, b}
  Entries = {e1, e2}
  Skills = {s}
  SkillTexts = {x}
  Lessons = {l, m}
  UserTexts = {l}
  Days = {1, 2}
  MaxPerDay = 2
  DedupDays = 1
  MaxMemory = 3
  UserRewrites = TRUE
  MaxUserEdits = 1
  MaxCrashes = 1
  HostStages = TRUE
  ReadsFail = TRUE
  JournalFails = TRUE
  User = User
  Absent = Absent
  NoEntry = NoEntry
  NoEdit = NoEdit
  NoActor = NoActor
SYMMETRY MCSymmetry
CONSTRAINT MCOneKind MCQuietNight
INVARIANTS TwinsNeverOpen
PROPERTIES OthersMemoryKept
