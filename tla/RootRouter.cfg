\* Three nodes; the rx thread and the broadcast loop interleave.
\* The broadcast loop may die and the packets of the bound be used up.
SPECIFICATION Spec
CHECK_DEADLOCK FALSE
CONSTANTS
  None = None
  Node = {1, 2, 3}
  Root = 1
  Rssi <- StrongAndWeak
  Packets <- SomePackets
  MaxHeard = 2
INVARIANTS
  TypeOK
  FirstHopsDirect
  CurrentWhenAlone
PROPERTIES
  VisitedIsFinal
  FreshLinkKept
  
