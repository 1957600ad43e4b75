\* A float tag whose device answers text now and then, no failure at all.
CONSTANTS
  DefaultDeadband = 0
  Tags <- MCTags
  Alarms <- MCAlarms
  Inputs <- TextInputs
  Configs = {}
  InitialConfig <- OneTag
  Reloads = {}
  QueueMax = 2
  BatchSize = 2
  MaxSamples = 3
  MaxDbFailures = 0
SPECIFICATION Spec
CHECK_DEADLOCK FALSE
INVARIANT
  ConsumerSurvivesData
