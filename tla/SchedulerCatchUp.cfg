SPECIFICATION Spec
CONSTANTS
  Ids = {1}
  Configs <- MCCrons
  CronTimes = {1, 2}
  Handlers = {h1}
  Scans = {s1}
  Faulty = {}
  NoDoc = NoDoc
  MaxTime = 3
  MaxSets = 1
  MaxFaults = 0
  MaxCrashes = 1
INVARIANT OneCatchUp
