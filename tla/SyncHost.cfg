SPECIFICATION HostSpec
CONSTANTS
  Keys <- MCKeys
  HeartbeatKeys <- MCHeartbeatKeys
  Values = {a, big}
  BigValues = {big}
  NoKey = NoKey
  NoValue = NoValue
  Tasks = {t1, t2}
  Callers = {0}
  NoTask = NoTask
  TTL = 1
  PoolSize = 2
  ChanCap = 2
  MaxSnapshotRows = 2
  MaxRequests = 3
  MaxTime = 2
  MaxCrashes = 1
INVARIANTS
  TypeOK
  StoreMatchesHistory
  NoLostUpdate
  RepliesAreTrue
  DeltasAreCommitted
  AnnouncedExactlyOnce
PROPERTIES
  FreshRowsSurvive
  ImplementsStore
SYMMETRY TaskSymmetry
CHECK_DEADLOCK FALSE
