CONSTANTS
  Configs = {c1, c2}
  SpotCount = 2
  NoConfig = none

SPECIFICATION Spec
SYMMETRY Symmetry
VIEW Live
 
INVARIANT ForecastKept
INVARIANT BookedSurvives
PROPERTY RoundComplete
CHECK_DEADLOCK FALSE
