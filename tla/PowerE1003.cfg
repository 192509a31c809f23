CONSTANTS
  E1003 = TRUE
  ManySpots = TRUE
  Workers = {dashboard, actions}
  Interactive = {actions}
  Main = main
  Timer = sleep_timer
  Buttons = spot_buttons
  NoTask = none
  Sources = {"timer", "spot", "white", "power"}
  MaxResets = 0

SPECIFICATION FairSpec
INVARIANT OneOwner
INVARIANT EmptyScreenOnce
PROPERTY GateSpec
PROPERTY SleepResumes
