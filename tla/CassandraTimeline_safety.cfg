\* Two hosts with clocks one apart add, remove and trim.
SPECIFICATION Spec
CONSTANTS
  a1 = a1
  a2 = a2
  a3 = a3
  h1 = h1
  h2 = h2
  Activities = {a1, a2, a3}
  TimeOf <- MCTime
  Hosts = {h1, h2}
  Adds <- OneOrTwo
  BatchSize = 2
  MaxLength = 2
  MaxSkew = 1
  MaxNow = 2
  MaxCalls = 4
INVARIANTS TypeOK NextWriteLives OwnOrder
PROPERTY TrimBites
CHECK_DEADLOCK FALSE
