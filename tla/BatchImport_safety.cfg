\* Two hosts, imports of three activities and of one in chunks of two, a copy, a crash.
SPECIFICATION FairSpec
CONSTANTS
  ann = ann
  bob = bob
  a1 = a1
  a2 = a2
  a3 = a3
  h1 = h1
  h2 = h2
  Users = {ann, bob}
  Activities = {a1, a2, a3}
  TimeOf <- MCTimeOf
  HasTarget = {a1}
  ContextParts <- MCContextParts
  Hosts = {h1, h2}
  Imports <- MCImports
  ChunkSize = 2
  ZAddSize = 1
  FollowLimit = 2
  Follows <- BobFollowsAnn
  MaxImports = 2
  MaxFollows = 1
  MaxCrashes = 1
INVARIANTS TypeOK DanglingExplained HeadsStored ReadBack
PROPERTIES ReferencesSettle ImportsComplete
CHECK_DEADLOCK FALSE
