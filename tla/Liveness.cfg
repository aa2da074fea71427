\* Four components that must come to an end, one at a time; their bounds are in the README.
SPECIFICATION MCSpec
CONSTANTS
  Sessions = {s1, s2}
  Threads = {t1, t2, t3}
  NoSession = NoSession
  NoThread = NoThread
  StartFails = TRUE
  PassFails = TRUE
  Notes = {n1, n2}
  NoteSessions = {s}
  Blocking = {n1, n2}
  Everywhere = Everywhere
  MaxHandEdits = 1
  MaxFaults = 1
  Actors = {a}
  Entries = {e1, e2}
  EditedSkills = {k}
  SkillTexts = {x}
  Lessons = {l, m}
  UserTexts = {u}
  User = User
  NoSkill = NoSkill
  NoEntry = NoEntry
  NoActor = NoActor
  Unedited = Unedited
CHECK_DEADLOCK FALSE
INVARIANTS NothingStranded GoneIsGone
PROPERTIES
  OneWorker EveryEndTaken EveryEndCleans
  OnlyOwnRemoved NoteIntentsEnd RulesLapse
  IntentsSettle ApprovalsSettle
