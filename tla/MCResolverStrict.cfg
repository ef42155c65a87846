SPECIFICATION Spec
CONSTANTS
  Domains = {d1}
  Qtypes = {"A"}
  NoTtl = NoTtl
  MinTtl = 1
  MaxTtl = 2
  MaxEntries = 4
  StaleWindow = 1
  TicksPerSec = 1
  Tasks = {t1, t2}
  Settings <- Validating
  ForwardedNames = {}
  WarmTypes <- MCWarmTypes
  WarmLoop = WarmLoop
  RawTtls = {2}
  Sigs = {"Secure", "Bogus"}
  ServerAD = {FALSE}
  Failed = Failed
  NoTask = NoTask
  MaxTime = 2
SYMMETRY Symmetry
INVARIANTS StrictNeverServesBogus
