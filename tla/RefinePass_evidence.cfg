\* One run while the user rewinds the session once.
SPECIFICATION PassSpec
CONSTANTS
  Runs = {r}
  Targets = {x}
  Creation = Creation
  NoRun = NoRun
  MaxEditsPerDay = 2
  MaxModelRuns = 2
  MaxPasses = 1
  MaxEdits = 2
  MaxRewinds = 1
  MaxRewrites = 0
  RowsFail = FALSE
CHECK_DEADLOCK FALSE
INVARIANTS TokenOfItsEvidence
