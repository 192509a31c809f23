CONSTANTS
  Models = {m1}
  NoModel = NoModel
  Boundaries <- MCDense
  Start = 1
  MaxNow = 5
  E1003 = FALSE
  FastRetry = 1
  FailedRetry = 2
  DayLength = 4
  AgedAfter = 2
  StaleAfter = 3
  MaxResets = 1
  MaxScreens = 0
  MaxUser = 0
  MaxRefused = 1

SPECIFICATION FairSpec
PROPERTY DueIsAttempted
