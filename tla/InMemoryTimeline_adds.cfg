\* Adds of one to two ids next to reads, trims, removals and deletions.
SPECIFICATION Spec
CONSTANTS
  a1 = a1
  a2 = a2
  a3 = a3
  Activities = {a1, a2, a3}
  Adds <- MCAdds
  Inserts <- MCInserts
  Slices <- MCSlices
  MaxLength = 1
  MaxCalls = 7
INVARIANTS TypeOK OnceEach ReadOnce NullExplained
PROPERTY AddsStored
CHECK_DEADLOCK FALSE
