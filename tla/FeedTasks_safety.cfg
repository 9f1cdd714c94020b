\* Three posts, one of them without a target, any follower, two hosts, trims to one activity, one crash.
SPECIFICATION Spec
CONSTANTS
  ann = ann
  bob = bob
  cyd = cyd
  dan = dan
  a1 = a1
  a2 = a2
  a3 = a3
  a4 = a4
  thing = thing
  Null = Null
  h1 = h1
  h2 = h2
  Users <- ThreeUsers
  Activities = {a1, a2, a3}
  Others = {thing}
  Actor <- MCActor
  Target <- MCTarget
  TimeOf <- MCTime
  Legible = {a1, a2, a3}
  Hosts = {h1, h2}
  Groups <- MCGroups
  GroupOf <- MCGroupOf
  Priority <- MCPriority
  Posts <- AnnAndBobPostMore
  Follows <- EverybodyFollows
  MaxLength = 1
  FollowLimit = 2
  ChunkSize = 1
  ZAddSize = 1
  TrimDraws <- MayTrim
  MaxCalls = 3
  MaxCrashes = 1
INVARIANTS TypeOK Hydratable NothingUnsolicited
PROPERTIES NothingLost Delivers
CHECK_DEADLOCK FALSE
