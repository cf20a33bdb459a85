SPECIFICATION TimerSpec
CONSTANTS
  maxDuration = 7
  delay = 3
  CheckTime = {0, 1, 5}
INVARIANTS
  NeverGivesUpEarly
  WaitsNoLongerThanNeeded
  ResultReflectsLastCheck
PROPERTIES
  TimerReturns
CHECK_DEADLOCK FALSE
