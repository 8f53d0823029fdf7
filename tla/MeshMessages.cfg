\* Two daemons and a T-Beam: two messages, acks, late copies, a restart.
SPECIFICATION SpecHeard
CONSTANTS
  None = None
  Direct = Direct
  t1 = t1
  s1 = s1
  odd = odd
  Node = {1, 2, 3}
  Daemons = {1, 2}
  Roots = {}
  MaxHops = 1
  Recipients = {2}
  Text <- OneText
  Status <- OneStatus
  StatusName <- Names
  Coded <- CodedNames
  Budget <- MessageBudget
  Repeated = {}
  MaxAsked = 2
  MaxMid = 4
  MaxRestarts = 1
  MaxDeaths = 1
INVARIANTS
  TypeOK
  AckMeansDelivered
  InboxFaithful
  
PROPERTIES
  PendingClearedByDelivery
