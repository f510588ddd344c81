SPECIFICATION HostFairSpec
CONSTANTS
  Keys = {1}
  HeartbeatKeys = {1}
  Values = {a}
  BigValues = {}
  NoKey = NoKey
  NoValue = NoValue
  Tasks = {t1, t2, t3}
  Callers = {0}
  NoTask = NoTask
  TTL = 1
  PoolSize = 2
  ChanCap = 1
  MaxSnapshotRows = 2
  MaxRequests = 3
  MaxTime = 0
  MaxCrashes = 0
PROPERTIES
  RequestsAnswered
  MutationsAnnounced
CHECK_DEADLOCK FALSE
