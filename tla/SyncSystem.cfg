SPECIFICATION SystemSpec
CONSTANTS
  Keys <- MCKeys
  HeartbeatKeys <- MCHeartbeatKeys
  Values = {a}
  BigValues = {}
  NoKey = NoKey
  NoValue = NoValue
  Tasks = {t1, t2}
  Callers <- MCCallers
  NoTask = NoTask
  TTL = 0
  PoolSize = 2
  ChanCap = 1
  MaxSnapshotRows = 2
  MaxRequests = 3
  MaxTime = 0
  MaxCrashes = 1
  OtherOps = {"set", "del"}
  MaxConnects = 2
INVARIANT
  MirrorShowsCommitted
PROPERTIES
  MirrorMonotone
SYMMETRY TaskSymmetry
CHECK_DEADLOCK FALSE
