\* Two stations, a relay with room for one of them, commands for all and
\* for another relay.
\* The bounds on commands end every behaviour.
SPECIFICATION Spec
CHECK_DEADLOCK FALSE
CONSTANTS
  None = None
  Stations = {1, 2}
  Relays = {8}
  Targets = {9, 255}
  NonceSlots = 1
  TimeMax = 1000
  MaxWall = 3
  MaxIssued = 3
  MaxObeyed = 3
  MaxMishaps = 3
INVARIANTS
  TypeOK
  FileCoversAir
  NoncesFollowIssueOrder
  StaleOnlyIfForgotten
  RefusedOnlyIfSuperseded
