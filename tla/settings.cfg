\* Two settings requests and a reload, with a busy port, one database failure, one restart.
CONSTANTS
  Settings <- SETTINGS
  Requests = {"put1", "put2"}
  Bodies <- WholeBodies
  FirstTable <- ServersOn
  Seeds <- MCSeeds
  MaxDbFailures = 1
  Reloads = {"reload"}
  BusyPorts <- MCBusyPorts
  MaxRestarts = 1
SPECIFICATION MCSpec
CHECK_DEADLOCK FALSE
INVARIANTS
  TypeOK
  QuietServerMatchesSettings
  QuietRestartKeepsSettings
