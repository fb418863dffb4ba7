SPECIFICATION Spec
CONSTANTS
  ercot = ercot
  caiso = caiso
  None = None
  BAs = {ercot}
  MaxHour = 3
  MaxVersion = 1
  MaxRows = 8
  IngestLookback = 0
  FactLookback = 1
  Cap = 1
  FuelLate = FALSE
INVARIANTS ReconcilesWithSource
CHECK_DEADLOCK FALSE
