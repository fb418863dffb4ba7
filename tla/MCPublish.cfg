SPECIFICATION Spec
CONSTANTS
  MaxDay = 4
  MaxNight = 4
  WindowDays = 2
  TouchedNights = 2
  MaxTouched = 1
INVARIANTS TypeOK OneMissedNightHeals
CHECK_DEADLOCK FALSE
