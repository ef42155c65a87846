SPECIFICATION FairSpec
CONSTANTS
  Answers <- MCAnswers
  RootHints <- MCRootHints
  Queries <- MCQueries
  PrimeTlds <- MCPrimeTlds
  MAX_REFERRAL_DEPTH = 3
  MAX_CNAME_DEPTH = 1
  MaxCalls = 2
  MaxExpiries = 1
  NoPacket = NoPacket
  Err = Err
  Zones <- MCZones
  Records <- MCRecords
  Broken <- MCBroken
INVARIANTS
  StackBounded
  TellsTheTruth
  FailsOnlyAfterLoss
PROPERTIES
  EveryWalkEnds
CHECK_DEADLOCK FALSE
