SPECIFICATION Spec
CONSTANTS
  region = region
  ercot = ercot
  caiso = caiso
  n1 = n1
  n2 = n2
  None = None
  Routes = {region}
  BAs = {ercot}
  Walk <- OnePair
  Runs = {n1, n2}
  Modes = {"incremental", "backfill", "replay"}
  BackfillStart = 0
  StartHour = 1
  MaxHour = 2
  MaxVersion = 1
  MaxFaults = 0
  MaxSick = 0
  MonthStarts <- Short
  Lookback = 1
  MaxSpan = 1
  PageHours = 1
  Settle = 1
  Backlog = FALSE
INVARIANTS NoUnaskedHour ExitZeroIsComplete
PROPERTIES MarksOnlyAdvance
CHECK_DEADLOCK FALSE
