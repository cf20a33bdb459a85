SPECIFICATION Spec
CONSTANTS
  N = 2
  Request = {r1, r2}
  Stage = {"production", "staging"}
  MaxStarts = 2
INVARIANTS
  KnownRoutesAreFound
  RefusedIsNotHandled
PROPERTIES
  AnswersTellTheStory
  EveryRequestIsAnswered
CHECK_DEADLOCK FALSE
