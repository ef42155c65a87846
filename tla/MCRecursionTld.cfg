SPECIFICATION Spec
CONSTANTS
  Answers <- MCAnswers
  RootHints <- MCRootHints
  Queries <- TldQueries
  PrimeTlds <- MCPrimeTlds
  MAX_REFERRAL_DEPTH = 3
  MAX_CNAME_DEPTH = 1
  MaxCalls = 2
  MaxExpiries = 1
  NoPacket = NoPacket
  Err = Err
  Zones <- MCZones
  Records <- MCRecords
  Broken <- MCBroken
INVARIANTS
  FailsOnlyAfterLoss
CHECK_DEADLOCK FALSE
