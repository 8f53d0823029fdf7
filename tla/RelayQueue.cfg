\* Store-and-forward: hold, evict, expire, release on HELLO.
SPECIFICATION Spec
CONSTANTS
  Free = Free
  QueueSlots = 3
  DepthMod = 16
  TimeMod = 64
  Ids = {1, 2}
  Admins = {9}
  NbrSlots = 2
  NonceSlots = 1
  NbrTtl = 2
  GcPeriod = 2
  DutyWindow = 4
  TtlMax = 3
  InitialLimit = 2
  Commands <- QueueCommands
  Nonces = {1, 2, 3}
  Traffic <- QueueTraffic
  MaxClock = 5
  MaxAirtime = 2
INVARIANTS
  TypeOK
  DepthIsOccupancy
PROPERTIES
  GrowsWithinLimit
  LeavesForAReason
  HelloReleases
