SPECIFICATION FairSpec
CONSTANTS
  Writers = {a1, a2}
  MaxEntries = 2
  MaxPerDay = 1
  MaxLines = 4
  MaxMishaps = 1
  Kinds = {"auto", "manual"}
  NoWriter = NoWriter
  Bad = Bad
  Torn = Torn
  Clean = Clean
  Note = Note
INVARIANTS BackupsKept
PROPERTIES NoneLost KeepsReadable ImplementsLifecycle TornHeals
CHECK_DEADLOCK FALSE
