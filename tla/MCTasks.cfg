SPECIFICATION TasksSpec
CONSTANTS
  Tasks = {t1, t2, t3}
  QKeys = {k1, k2}
  Answers = {a1, a2}
  Failed = Failed
  NoTask = NoTask
  NoSave = NoSave
  ListNames <- BothNames
  Configs <- AllowConfigs
  Sources = {"s1"}
  Lines <- ListLines
  MaxAttempts = 2
  MaxRestarts = 1
  MaxChanges = 2
  MaxTime = 1
  MaxRefreshes = 1
  Settings <- UpstreamSections
  Contents <- PlainFiles
  Toggles = {}
  Nets = {"home", "work", "cafe"}
  Detected <- DetectedOn
  NoAddr = "nothing"
  NoFile = NoFile
  QUAD9_IP = "quad9"
  DOH_FALLBACK = "quad9url"
  Addrs <- Address
  REDETECT_TICKS = 2
  MaxMoves = 2
  MaxToggles = 0
  MaxStarts = 1
  Drafts <- DomainFiles
  Messages <- DevMessages
  Workers = {"udp", "tcp"}
  UdpLoop = "udp"
  MAX_READ_JUMPS = 2
  MaxSaves = 2
INVARIANTS
  FlightsConsistent ListsHold  AnswersAreOneVersion 
PROPERTIES
  SharesOneFlight 
CHECK_DEADLOCK FALSE
