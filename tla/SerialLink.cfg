\* Both directions, two writers, one fault.  All frames written is the end.
SPECIFICATION Spec
CHECK_DEADLOCK FALSE
CONSTANTS
  Frames <- SomeFrames
  Writers = {1, 2}
  PiMax = 3
  BridgeMax = 3
  Cuts = {1, 5}
  MaxSent = 3
  MaxFaults = 1
INVARIANTS
  TypeOK
  StallBounded
PROPERTIES
  ImplementsChannel
