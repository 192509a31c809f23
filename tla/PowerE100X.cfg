CONSTANTS
  E1003 = FALSE
  ManySpots = TRUE
  Workers = {dashboard}
  Interactive = {}
  Main = main
  Timer = sleep_timer
  Buttons = spot_buttons
  NoTask = none
  Sources = {"timer", "spot", "white", "power"}
  MaxResets = 2

SPECIFICATION Spec
INVARIANT EmptyScreenOnce

