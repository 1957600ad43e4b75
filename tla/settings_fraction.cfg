\* A setting of type int saved with a fraction: its row does not read back.
CONSTANTS
  Settings <- SETTINGS
  Requests = {"put1", "put2"}
  Bodies <- FractionalBodies
  FirstTable <- NothingSaved
  Seeds <- NoSeeds
  MaxDbFailures = 0
  Reloads = {}
  BusyPorts = {}
  MaxRestarts = 1
SPECIFICATION MCSpec
CHECK_DEADLOCK FALSE
INVARIANTS
  QuietRestartKeepsSettings
