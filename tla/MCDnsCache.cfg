SPECIFICATION Spec
CONSTANTS
  Domains = {d1, d2}
  Qtypes = {"A", "AAAA"}
  Data = {x, y}
  NoTtl = NoTtl
  Ttls = {NoTtl, 9}
  Statuses = {"Indeterminate"}
  MinTtl = 1
  MaxTtl = 5
  MaxEntries = 2
  StaleWindow = 1
  TicksPerSec = 2
  MaxTime = 10
SYMMETRY Symmetry
INVARIANTS CacheConsistent WarmCoversRefresh InsertedIsServed
PROPERTIES EvictionOrder AgesMonotonically
