SPECIFICATION Spec
CONSTANTS
  Never = Never
  GroupOf <- FuelTypes
  Vre = {"solar"}
  Reports = {{}, {"COL"}, {"SUN", "SNB"}}
  Retirements <- Seed
  MonthHours = 3
  MaxHour = 7
  Floor = 2
  Lookback = 1
  MaxRestated = 1
INVARIANTS TypeOK StaleFlagsAreExplained DeclaredIsNeverStale FlagsHaveEvidence
PROPERTIES OutageIsNotLearned
CHECK_DEADLOCK FALSE
