SPECIFICATION SystemFairSpec
CONSTANTS
  Keys = {1}
  HeartbeatKeys = {1}
  Values = {a}
  BigValues = {}
  NoKey = NoKey
  NoValue = NoValue
  Tasks = {t1}
  Callers <- MCCallers
  NoTask = NoTask
  TTL = 1
  PoolSize = 1
  ChanCap = 1
  MaxSnapshotRows = 2
  MaxRequests = 3
  MaxTime = 2
  MaxCrashes = 0
  OtherOps = {"set", "del"}
  MaxConnects = 2
INVARIANTS
  MirrorExact
CHECK_DEADLOCK FALSE
PROPERTIES
  MirrorConverges
