SPECIFICATION DbSpec
CONSTANTS
  Keys <- MCKeys
  Tasks = {t1, t2}
  NoTask = NoTask
  Requests <- MCRequests
  FirstRows <- MCFirstRows
  MaxInt = 3
  MaxRequests = 2
  MaxTime = 1
  MaxFaults = 1
  MaxCrashes = 1
INVARIANTS
  PoolHasSchema
  ReadsAreRecent
  AnnouncedIffCommitted
  IdsNeverRepeat
PROPERTIES
  ImplementsKv
SYMMETRY TaskSymmetry
CHECK_DEADLOCK FALSE
