SPECIFICATION MCSpec
CONSTANTS
  Days = {0, 1, 2}
  InitialDays = 0
  Day = 1
  Hour = 1
  Null = Null
  Interval = 1
  DbTime = 1
  Lag = 1
  Floats <- MCFloats
  MaxTime = 6
  MaxRows = 3
  MaxDbFailures = 1
INVARIANTS
  TypeOK
  RetentionIsKept
  HistoryTellsRows
PROPERTY DeletesOnlyExpired
CHECK_DEADLOCK FALSE
