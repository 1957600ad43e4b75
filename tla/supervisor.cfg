\* Two supervised connectors that crash and are restarted, under two reloads and writes.
CONSTANTS
  Configs <- SomeConfigs
  FirstConfig <- First
  Reloads = {r1, r2}
  ReadOnly = {"broker"}
  CatchesCleanup = {"plc"}
  RaisesCleanup = {"broker"}
  MaxCrashes = 6
  MaxDbFailures = 1
SPECIFICATION MCFairSpec
CHECK_DEADLOCK FALSE
INVARIANTS
  TypeOK
  LastRowTells
  QuietSyncAgrees
  WriteReachesPolledPoint
PROPERTIES
  CrashIsRetried
  StopCompletes
