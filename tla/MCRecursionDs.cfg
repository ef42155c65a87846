SPECIFICATION Spec
CONSTANTS
  Answers <- MCAnswers
  RootHints <- MCRootHints
  Queries <- DsQueries
  PrimeTlds = {}
  MAX_REFERRAL_DEPTH = 3
  MAX_CNAME_DEPTH = 1
  MaxCalls = 2
  MaxExpiries = 0
  NoPacket = NoPacket
  Err = Err
  Zones <- MCZones
  Records <- MCRecords
  Broken <- MCBroken
INVARIANTS
  AnswersAreTrue
CHECK_DEADLOCK FALSE
