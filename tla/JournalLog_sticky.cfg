SPECIFICATION FairSpec
CONSTANTS
  Writers = {a1, a2}
  MaxEntries = 1
  MaxPerDay = 1
  MaxLines = 3
  MaxMishaps = 1
  Kinds = {"auto"}
  NoWriter = NoWriter
  Bad = Bad
  Torn = Torn
  Clean = Clean
  Note = Note
PROPERTIES TornHeals
CHECK_DEADLOCK FALSE
