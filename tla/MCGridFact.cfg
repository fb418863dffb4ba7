SPECIFICATION Spec
CONSTANTS
  ercot = ercot
  caiso = caiso
  None = None
  BAs = {ercot, caiso}
  MaxHour = 3
  MaxVersion = 2
  MaxRows = 4
  IngestLookback = 0
  FactLookback = 2
  Cap = 1
  FuelLate = FALSE
SYMMETRY Swap
INVARIANTS TypeOK StaleIsBeyondTheCap
CHECK_DEADLOCK FALSE
