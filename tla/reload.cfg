\* One reload that edits the alarm limit or the deadband, with samples flowing.
CONSTANTS
  DefaultDeadband = 0
  Tags <- ReloadTags
  Alarms <- ReloadAlarms
  Inputs <- ReloadInputs
  Configs <- Edits
  InitialConfig <- TwoTags
  Reloads = {"r1"}
  QueueMax = 1
  BatchSize = 2
  MaxSamples = 3
  MaxDbFailures = 1
SPECIFICATION MCSpec
CHECK_DEADLOCK FALSE
INVARIANTS
  QuietReloadKeepsAlarms
  ReloadTakesEffect
