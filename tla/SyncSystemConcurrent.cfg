SPECIFICATION SystemSpec
CONSTANTS
  Keys <- MCKeys
  HeartbeatKeys <- MCHeartbeatKeys
  Values = {a}
  BigValues = {}
  NoKey = NoKey
  NoValue = NoValue
  Tasks = {t1, t2}
  Callers <- MCCallers
  NoTask = NoTask
  TTL = 0
  PoolSize = 2
  ChanCap = 2
  MaxSnapshotRows = 2
  MaxRequests = 3
  MaxTime = 0
  MaxCrashes = 0
  OtherOps = {"set", "del"}
  MaxConnects = 1
INVARIANTS
  MirrorExact
CHECK_DEADLOCK FALSE
