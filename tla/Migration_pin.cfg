\* Two processes, one interrupted migration, one cleared model override.
SPECIFICATION MigrationSpec
CONSTANTS
  Hosts = {p, q}
  DataFiles = {journal, override}
  Clearable = {override}
  MaxWrites = 1
  MaxFailures = 1
CHECK_DEADLOCK FALSE
INVARIANTS ClearedStaysCleared
