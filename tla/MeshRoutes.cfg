\* A root with id 0 and a leaf: discovery, route requests, route tables.
SPECIFICATION FairSpec
CONSTANTS
  None = None
  Direct = Direct
  t1 = t1
  s1 = s1
  odd = odd
  Node = {0, 1, 2}
  Daemons = {0, 1}
  Roots = {0}
  MaxHops = 0
  Recipients = {2}
  Text <- OneText
  Status <- OneStatus
  StatusName <- Names
  Coded <- CodedNames
  Budget <- RouteBudget
  Repeated = {}
  MaxAsked = 2
  MaxMid = 3
  MaxRestarts = 0
  MaxDeaths = 1
INVARIANTS
  HeardImpliesGateway
  TableIsOneAnnouncement

  
