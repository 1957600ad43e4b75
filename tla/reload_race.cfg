\* A reload while alarms change state, no failure: the claim of the load_metadata docstring.
CONSTANTS
  DefaultDeadband = 0
  Tags <- ReloadTags
  Alarms <- ReloadAlarms
  Inputs <- ReloadInputs
  Configs <- Edits
  InitialConfig <- TwoTags
  Reloads = {"r1"}
  QueueMax = 1
  BatchSize = 2
  MaxSamples = 3
  MaxDbFailures = 0
SPECIFICATION Spec
CHECK_DEADLOCK FALSE
INVARIANTS
  JournalAlternates
