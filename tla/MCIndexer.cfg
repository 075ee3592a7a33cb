SPECIFICATION Spec
CONSTANTS
  MaxEvents = 5
  PageLimit = 2
  SeenMaxLines = 2
  Lookback = 1
  MaxRetries = 2
  MaxCrashes = 2
  MaxFailures = 2
  None = None
INVARIANTS
  TypeOK
  CursorCoversLog
  DuplicatesNeedCrashes
PROPERTIES
  EventsReachLog
