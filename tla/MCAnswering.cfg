SPECIFICATION AnsweringSpec
CONSTANTS
  Clients <- MCClients
  Questions <- MCQuestions
  Remote <- MCRemote
  Overrides <- MCOverrides
  Durations = {1}
  ZoneRecords <- MCZones
  Forwarding = {}
  ProxyTld = "numa"
  Local <- MCNames
  Policy <- MCPolicy
  Blocked <- MCBlocked
  Private = {"10.1", "10.7", "10.5", "0.0.0.0", "fc00"}
  V6 = {"fc00"}
  RebindAllowed = {}
  FilterAaaa = FALSE
  Dnssec = TRUE
  Strict = TRUE
  MAX_CNAME_DEPTH = 2
  LogCapacity = 1
  MaxNow = 1
  MaxQueries = 2
  MaxSets = 2
  BUF_SIZE = 56
  MAX_LABEL = 63
  MAX_JUMPS = 5
  Pool <- MCPool
  QName <- MCQName
  Shapes <- MCShapes
  Ttls = {0, 7}
  Rcodes = {3}
  MaxEdits = 2
  Conns = {"k1", "k2"}
  Listening = {"tcp", "dot", "doh"}
  Peers = {"a", "lo"}
  Loopback = {"lo"}
  Trusted = {"lo"}
  AllowFrom = {{}, {"b"}}
  MAX_CONNECTIONS = 1
  MaxFrames = 2
  MaxArrivals = 2
INVARIANTS
  AnswersAreFit  MessagesKeepMeaning ScanIsExact ConnectionsAreVetted
CHECK_DEADLOCK FALSE
