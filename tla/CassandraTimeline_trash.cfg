\* One host that adds three activities one by one, in any order.
SPECIFICATION Spec
CONSTANTS
  a1 = a1
  a2 = a2
  a3 = a3
  h1 = h1
  h2 = h2
  Activities = {a1, a2, a3}
  TimeOf <- MCTime
  Hosts = {h1}
  Adds <- Singles
  BatchSize = 1
  MaxLength = 2
  MaxSkew = 0
  MaxNow = 4
  MaxCalls = 4
PROPERTY TrashBounded
CHECK_DEADLOCK FALSE
