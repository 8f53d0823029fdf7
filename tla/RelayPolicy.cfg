\* Modes, commands and their nonces, neighbours and airtime.
SPECIFICATION Spec
CONSTANTS
  Free = Free
  QueueSlots = 1
  DepthMod = 16
  TimeMod = 64
  Ids = {1, 2}
  Admins = {8, 9}
  NbrSlots = 1
  NonceSlots = 2
  NbrTtl = 2
  GcPeriod = 2
  DutyWindow = 3
  TtlMax = 3
  InitialLimit = 1
  Commands <- PolicyCommands
  Nonces = {1, 2}
  Traffic <- PolicyTraffic
  MaxClock = 4
  MaxAirtime = 2
INVARIANTS
  NoReplay
  NeighbourExact
  
