\* Four activities in three groups, pages of two, feeds of three, three calls.
SPECIFICATION Spec
CONSTANTS
  a1 = a1
  a2 = a2
  a3 = a3
  a4 = a4
  Activities = {a1, a2, a3, a4}
  GroupOf <- MCGroupOf
  TimeOf <- MCTimeOf
  SerialOf <- MCSerialOf
  Batches <- MCBatches
  MaxAggregated = 1
  MergeMaxLength = 2
  MaxLength = 3
  ZAddSize = 1
  TrimDraws <- MayTrim
  MaxCalls = 3
INVARIANTS TypeOK TwiceOnlyIfExcused BatchShown CountsRight
PROPERTIES GroupsKept
CHECK_DEADLOCK FALSE
