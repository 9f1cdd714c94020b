\* One activity about no user, one follower, two hosts, no crash.
SPECIFICATION Spec
CONSTANTS
  ann = ann
  bob = bob
  cyd = cyd
  dan = dan
  a1 = a1
  a2 = a2
  a3 = a3
  a4 = a4
  thing = thing
  Null = Null
  h1 = h1
  h2 = h2
  Users <- ThreeUsers
  Activities = {a4}
  Others = {thing}
  Actor <- MCActor
  Target <- MCTarget
  TimeOf <- MCTime
  Legible = {a4}
  Hosts = {h1, h2}
  Groups <- MCGroups
  GroupOf <- MCGroupOf
  Priority <- MCPriority
  Posts <- AnnPostsOfThings
  Follows <- BobFollowsAnn
  MaxLength = 2
  FollowLimit = 2
  ChunkSize = 2
  ZAddSize = 1
  TrimDraws <- NeverTrims
  MaxCalls = 3
  MaxCrashes = 0
INVARIANT RemovalIsComplete
CHECK_DEADLOCK FALSE
