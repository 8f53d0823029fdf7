\* Sending along the route add_direct stored.
SPECIFICATION Spec
CONSTANTS
  None = None
  Direct = Direct
  t1 = t1
  s1 = s1
  odd = odd
  Node = {1, 2, 3}
  Daemons = {1, 2}
  Roots = {}
  MaxHops = 1
  Recipients = {2}
  Text <- OneText
  Status <- OneStatus
  StatusName <- Names
  Coded <- CodedNames
  Budget <- StatusBudget
  Repeated = {}
  MaxAsked = 2
  MaxMid = 2
  MaxRestarts = 0
  MaxDeaths = 0
INVARIANTS
  NextHopIsAddress
