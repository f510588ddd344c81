SPECIFICATION FairSpec
CONSTANTS
  Ids = {2, 3}
  Configs <- MCLive
  CronTimes = {1, 2}
  Handlers = {h1}
  Scans = {s1}
  Faulty = {"mark", "action", "truncate"}
  NoDoc = NoDoc
  MaxTime = 1
  MaxSets = 2
  MaxFaults = 2
  MaxCrashes = 0
PROPERTY PendingFires
