SPECIFICATION FairSpec
CONSTANTS
  Debounce = 3
  Hold = 6
  WarningWait = 3
  Window = 17
  DoubleClick = 7
  FailureWait = 2
  QueueLength = 2
  Alert = 5
  Warning = 2
  Cancelled = 2
  Failure = 1
INVARIANTS  DoubleClickCancels WarnedInTime
PROPERTIES OutcomeIsHeard
