SPECIFICATION Spec
CONSTANTS
  MaxRelease = 4
  MaxNow = 3
  Day = 2
  MaxFaults = 2
  HasProfile = TRUE
INVARIANTS
  FallbackKept
  RecoveryBlocked
PROPERTIES
  LatchInnocent
  OncePerDay
  TrackSpec
CHECK_DEADLOCK FALSE
