SPECIFICATION Spec
CONSTANTS
  INITIAL_SRTT_MS = 200
  FAILURE_PENALTY_MS = 5000
  PRIMARY_SKIP_SRTT_MS = 4000
  DECAY_AFTER_SECS = 1
  MAX_ENTRIES = 2
  EVICT_BATCH = 1
  SrttEnabled = TRUE
  a1 = a1
  a2 = a2
  Addrs = {a1, a2}
  Tasks = {t1, t2}
  Configs <- BothConfigs
  Rtts = {40}
  MaxTime = 2
SYMMETRY Symmetry
INVARIANTS SrttBounded CallsEndWell 
 
