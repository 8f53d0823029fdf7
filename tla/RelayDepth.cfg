\* A queue limit of 0.
SPECIFICATION Spec
CONSTANTS
  Free = Free
  QueueSlots = 3
  DepthMod = 16
  TimeMod = 64
  Ids = {1, 2}
  Admins = {9}
  NbrSlots = 2
  NonceSlots = 1
  NbrTtl = 2
  GcPeriod = 2
  DutyWindow = 4
  TtlMax = 3
  InitialLimit = 2
  Commands <- ZeroCommands
  Nonces = {1, 2}
  Traffic <- QueueTraffic
  MaxClock = 4
  MaxAirtime = 2
INVARIANTS
  DepthIsOccupancy
