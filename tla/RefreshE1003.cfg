CONSTANTS
  Models = {m1, m2}
  NoModel = NoModel
  Boundaries <- MCBoundaries
  Start = 1
  MaxNow = 3
  E1003 = TRUE
  FastRetry = 1
  FailedRetry = 2
  DayLength = 3
  AgedAfter = 1
  StaleAfter = 2
  MaxResets = 1
  MaxScreens = 0
  MaxUser = 1
  MaxRefused = 1

SPECIFICATION Spec
SYMMETRY MCModels
VIEW MCLive
INVARIANT ConfirmationSound
PROPERTY DisplayRetried
