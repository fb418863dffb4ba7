SPECIFICATION Spec
CONSTANTS
  region = region
  ercot = ercot
  caiso = caiso
  n1 = n1
  n2 = n2
  None = None
  Routes = {region}
  BAs = {ercot}
  Walk <- OnePair
  Runs = {n1}
  Modes = {"incremental", "backfill"}
  BackfillStart = 0
  StartHour = 2
  MaxHour = 4
  MaxVersion = 2
  MaxFaults = 0
  MaxSick = 0
  MonthStarts <- Months
  Lookback = 1
  MaxSpan = 1
  PageHours = 1
  Settle = 1
  Backlog = FALSE
INVARIANTS StaleIsReachable
CHECK_DEADLOCK FALSE
