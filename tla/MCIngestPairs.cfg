SPECIFICATION LiveSpec
CONSTANTS
  region = region
  ercot = ercot
  caiso = caiso
  n1 = n1
  n2 = n2
  None = None
  Routes = {region}
  BAs = {ercot, caiso}
  Walk <- TwoBAs
  Runs = {n1}
  Modes = {"incremental"}
  BackfillStart = 0
  StartHour = 1
  MaxHour = 2
  MaxVersion = 1
  MaxFaults = 1
  MaxSick = 1
  MonthStarts <- Short
  Lookback = 1
  MaxSpan = 9
  PageHours = 9
  Settle = 1
  Backlog = TRUE
INVARIANTS NothingInvented NoUnaskedHour StaleIsReachable
PROPERTIES Converges
CHECK_DEADLOCK FALSE
