SPECIFICATION DeviceSpec
CONSTANTS
  Configs = {c1, c2}
  Networks = {w1, w2}
  NoConfig = NoConfig
  NoNet = NoNet
  MaxFaults = 1
INVARIANTS
  RollbackReady
  RunningIsStored
PROPERTIES
  NetRestored
  RecordSpec
CHECK_DEADLOCK FALSE
