SPECIFICATION MCSpec
CONSTANTS
  Alarms = {1, 2}
  Operators = {ann, bob}
  Filters <- MCFilters
  Limit = 1
  MaxEvents = 3
  MaxRestarts = 1
  MaxAsked = 2
  MaxOffset = 3
SYMMETRY MCSymmetry
INVARIANTS
  TypeOK
  JournalTellsState
  QuietAckTellsLatest
  PagesSkipNothing
CHECK_DEADLOCK FALSE
