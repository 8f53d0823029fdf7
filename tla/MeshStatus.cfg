\* Two daemons and a T-Beam: every pair of periodic and status packets.
SPECIFICATION SpecHeard
CONSTANTS
  None = None
  Direct = Direct
  t1 = t1
  s1 = s1
  odd = odd
  Node = {1, 2, 3}
  Daemons = {1, 2}
  Roots = {}
  MaxHops = 0
  Recipients = {2}
  Text <- OneText
  Status <- OneStatus
  StatusName <- Names
  Coded <- CodedNames
  Budget <- StatusBudget
  Repeated = {0}
  MaxAsked = 2
  MaxMid = 3
  MaxRestarts = 0
  MaxDeaths = 0
INVARIANTS
  StatusWasAnnounced
  
