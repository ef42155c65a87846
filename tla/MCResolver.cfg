SPECIFICATION Spec
CONSTANTS
  Domains = {d1}
  Qtypes = {"A"}
  NoTtl = NoTtl
  MinTtl = 1
  MaxTtl = 1
  MaxEntries = 4
  StaleWindow = 1
  TicksPerSec = 1
  Tasks = {t1, t2}
  Settings <- Modes
  ForwardedNames = {}
  WarmTypes <- MCWarmTypes
  WarmLoop = WarmLoop
  RawTtls = {2}
  Sigs = {"Secure", "Bogus"}
  ServerAD = {FALSE}
  Failed = Failed
  NoTask = NoTask
  MaxTime = 2
SYMMETRY Symmetry
INVARIANTS AnswersAreRecent ADOnlyWhenValidated
