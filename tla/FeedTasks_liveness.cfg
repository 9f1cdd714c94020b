\* No crash, chunks that hold every follower, every activity with a target.
SPECIFICATION FairSpec
CONSTANTS
  ann = ann
  bob = bob
  cyd = cyd
  dan = dan
  a1 = a1
  a2 = a2
  a3 = a3
  a4 = a4
  thing = thing
  Null = Null
  h1 = h1
  h2 = h2
  Users <- ThreeUsers
  Activities = {a1, a2}
  Others = {thing}
  Actor <- MCActor
  Target <- MCTarget
  TimeOf <- MCTime
  Legible = {a1, a2}
  Hosts = {h1}
  Groups <- MCGroups
  GroupOf <- MCGroupOf
  Priority <- MCPriority
  Posts <- AnnAndBobPost
  Follows <- BobAndCydFollow
  MaxLength = 2
  FollowLimit = 2
  ChunkSize = 2
  ZAddSize = 1
  TrimDraws <- NeverTrims
  MaxCalls = 3
  MaxCrashes = 0
PROPERTIES EveryFollowerServed FollowCopies
CHECK_DEADLOCK FALSE
