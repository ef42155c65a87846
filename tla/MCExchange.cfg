SPECIFICATION ExchangeSpec
CONSTANTS
  Tasks = {t1, t2}
  UDP_FAIL_THRESHOLD = 2
  CounterMod = 256
  Failed = Failed
  NoTask = NoTask
  NoTtl = NoTtl
  WarmLoop = WarmLoop
  d1 = d1
INVARIANTS TripsAtThreshold
PROPERTIES UdpComesBack 
CHECK_DEADLOCK FALSE
