SPECIFICATION LiveSpec
CONSTANTS
  MaxKey = 5
  PageSize = 2
  MaxRetries = 3
  Backoff = 1
  Cap = 9
  Interval = 1
  Headers <- RetryAfters
  MaxChanges = 2
INVARIANTS TypeOK CompleteWalk NewestIsKept SleepIsBounded 
PROPERTIES Terminates
CHECK_DEADLOCK FALSE
