CONSTANTS
  Models = {m1, m2}
  NoModel = NoModel
  Boundaries <- MCBoundaries
  Start = 1
  MaxNow = 5
  E1003 = FALSE
  FastRetry = 1
  FailedRetry = 2
  DayLength = 4
  AgedAfter = 2
  StaleAfter = 3
  MaxResets = 1
  MaxScreens = 1
  MaxUser = 1
  MaxRefused = 0

SPECIFICATION Spec
SYMMETRY MCModels
VIEW MCLive
INVARIANT TypeOK
INVARIANT CacheCoversSatisfied
INVARIANT FinalRetryHeld
INVARIANT RetryBudget
INVARIANT ConfirmationSound
PROPERTY OneDueRequest
