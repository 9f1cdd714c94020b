\* Two hosts, two lists of two values, three calls, a crash.
SPECIFICATION FairSpec
CONSTANTS
  unread = unread
  unseen = unseen
  zero = zero
  h1 = h1
  h2 = h2
  Names = {unread, unseen}
  IndexName <- IndexNames
  Values = {0, 2, 3}
  Adds <- MCAdds
  Removals <- MCRemovals
  MaxLength = 2
  Hosts = {h1, h2}
  MaxCalls = 3
  MaxCrashes = 1
INVARIANTS TypeOK NewestKept Bounded AddsInOrder
PROPERTIES CutInTheEnd
CHECK_DEADLOCK FALSE
