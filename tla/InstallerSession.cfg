SPECIFICATION Spec
CONSTANTS
  Configs = {c1, c2}
  Networks = {w1, w2}
  NoConfig = NoConfig
  NoNet = NoNet
  MaxFaults = 1
  Want = c1
  OpenResets = {TRUE, FALSE}
  MaxLosses = 1
  MaxOwner = 2
  MaxCrashes = 1
INVARIANTS
  SessionTypeOK
  NeverBusy
PROPERTIES
  ClaimShown
  Settles
  Released
CHECK_DEADLOCK FALSE
