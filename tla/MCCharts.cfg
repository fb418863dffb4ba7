SPECIFICATION Spec
CONSTANTS
  None = None
  Standard = 2
  Clock <- Clocks
  Month <- Months
  DaysIn <- Lengths
  Odd <- Planted
  Restated <- Later
  WindowDays = 2
  MaxChanges = 1
  MaxDraws = 2
INVARIANTS TypeOK DuckIsSound SameDays SharesAreWhole LabelNamesItsDays PairBelongsTogether
CHECK_DEADLOCK FALSE
