CONSTANTS
  Configs = {c1, c2}
  SpotCount = 2
  NoConfig = none

SPECIFICATION Spec
INVARIANT SetupInForce
CHECK_DEADLOCK FALSE
