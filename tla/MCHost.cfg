SPECIFICATION HostSpec
CONSTANTS
  Hash <- MCHash
  Leaf = 2
  MAX_CHAIN_DEPTH = 2
  Modes = {"honest", "lossy", "forged"}
  DenialZones <- MCDenialZones
  DenialQueries <- MCDenialQueries
  Apex <- MCApex
  MaxExpiries = 1
  Worlds <- MCWorlds
  Queries = {"p1", "p2"}
  Fallbacks <- OneFallback
  HostNames = {"h"}
  DEFAULT_BOOTSTRAP <- OneDefault
  Overrides = {{}}
  MaxAges = {0, 9}
  DEFAULT_CONFIG_TTL = 1
  MAX_CONFIG_TTL = 2
  REFRESH_BACKOFF = 1
  MaxNow = 2
  MaxRotations = 1
  MaxBegun = 2
  Settings <- AutoSection
  Contents <- TomlFiles
  Toggles = {"lan", "blocking"}
  Nets = {"home"}
  Detected <- Router
  NoAddr = "nothing"
  NoFile = NoFile
  QUAD9_IP = "quad9"
  DOH_FALLBACK = "quad9url"
  Addrs <- Address
  REDETECT_TICKS = 2
  MaxMoves = 0
  MaxToggles = 2
  MaxStarts = 1
  Services = {"wifi", "eth"}
  MaxCommands = 3
  MaxChanges = 1
  Handlers = {"t1", "t2", "lan"}
  UserNames = {"web"}
  Ports = {1, 2}
  Paths <- RequestPaths
  ServiceConfigs <- ServiceSections
  ProxyConfigs <- ProxySections
  Announcements <- PeerMessages
  OurId = "us"
  TxtMax = 18
  PeerTimeout = 1
  MaxClock = 2
  MaxRequests = 2
  MaxBoots = 1
  MaxCa = 2
INVARIANTS
   DenialsAreExact OdohFailsForCause
    GoesWhereItBelongs
PROPERTIES
  OdohKeysAreFresh RestartRestores  ToggleChangesOne
CHECK_DEADLOCK FALSE
