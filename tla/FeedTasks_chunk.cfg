\* Two followers in one priority group, chunks of one.
SPECIFICATION FairSpec
CONSTANTS
  ann = ann
  bob = bob
  cyd = cyd
  dan = dan
  a1 = a1
  a2 = a2
  a3 = a3
  a4 = a4
  thing = thing
  Null = Null
  h1 = h1
  h2 = h2
  Users <- AllButCyd
  Activities = {a1}
  Others = {thing}
  Actor <- MCActor
  Target <- MCTarget
  TimeOf <- MCTime
  Legible = {a1}
  Hosts = {h1}
  Groups <- MCGroups
  GroupOf <- MCGroupOf
  Priority <- MCPriority
  Posts <- AnnPosts
  Follows <- BobAndDanFollowAnn
  MaxLength = 2
  FollowLimit = 2
  ChunkSize = 1
  ZAddSize = 1
  TrimDraws <- NeverTrims
  MaxCalls = 3
  MaxCrashes = 0
PROPERTY EveryFollowerServed
CHECK_DEADLOCK FALSE
