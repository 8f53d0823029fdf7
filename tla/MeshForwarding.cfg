\* A message for somebody else, overheard by a daemon with a route.
SPECIFICATION Spec
CONSTANTS
  None = None
  Direct = Direct
  t1 = t1
  s1 = s1
  odd = odd
  Node = {1, 2, 3}
  Daemons = {1, 2}
  Roots = {}
  MaxHops = 1
  Recipients = {2}
  Text <- OneText
  Status <- OneStatus
  StatusName <- Names
  Coded <- CodedNames
  Budget <- MessageBudget
  Repeated = {}
  MaxAsked = 2
  MaxMid = 2
  MaxRestarts = 0
  MaxDeaths = 0
PROPERTIES
  MessagesForwarded
