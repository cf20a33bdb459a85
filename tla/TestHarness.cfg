SPECIFICATION Spec
CONSTANTS
  N = 2
  Tests = 2
  Text = {testing, production, typo}
  ValidText = {testing, production}
  Unset = Unset
  Data <- data
  MaxRequests = 2
INVARIANTS
  OverridesOutliveTheirTest
  OneTestSpoilsTheRest
  WrittenIsDocumented
CHECK_DEADLOCK FALSE
