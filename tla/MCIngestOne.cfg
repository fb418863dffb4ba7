SPECIFICATION Spec
CONSTANTS
  region = region
  ercot = ercot
  caiso = caiso
  n1 = n1
  n2 = n2
  None = None
  Routes = {region}
  BAs = {ercot}
  Walk <- OnePair
  Runs = {n1}
  Modes = {"incremental", "replay"}
  BackfillStart = 0
  StartHour = 2
  MaxHour = 3
  MaxVersion = 2
  MaxFaults = 1
  MaxSick = 0
  MonthStarts <- Months
  Lookback = 1
  MaxSpan = 1
  PageHours = 1
  Settle = 1
  Backlog = FALSE
INVARIANTS TypeOK WatermarkBacked StaleIsReachable
PROPERTIES IsReplica
CHECK_DEADLOCK FALSE
