\* One connector of each protocol against a device that fails, returns and refuses tags.
CONSTANTS
  Protocols <- CONNECTOR_CLASSES
  Order <- ThreeTags
  Paths <- TwoPaths
  MaxChanges = 4
  MaxCrashes = 1
SPECIFICATION Spec
CHECK_DEADLOCK FALSE
INVARIANTS
  TypeOK
  FlagAgreesWithSamples
  StoppedIsDisconnected
PROPERTIES
  OutageIsNoticed
  OutageMarksTags
  Recovers
