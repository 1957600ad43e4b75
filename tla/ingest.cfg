\* One tag with two alarms, no reload, one database failure, a shutdown at any time.
CONSTANTS
  DefaultDeadband = 0
  Tags <- MCTags
  Alarms <- MCAlarms
  Inputs <- MCInputs
  Configs = {}
  InitialConfig <- OneTag
  Reloads = {}
  QueueMax = 2
  BatchSize = 2
  MaxSamples = 3
  MaxDbFailures = 1
SPECIFICATION FairSpec
CHECK_DEADLOCK FALSE
INVARIANTS
  TypeOK
  BatchesBounded
  EachSampleInOnePlace
  JournalAlternates
  JournalMatchesMemory
  TrendTracksLive
PROPERTIES
  EverySampleSettles
  ImplementsHistorian
