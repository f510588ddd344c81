SPECIFICATION Spec
CONSTANTS
  Ids = {1}
  Configs <- MCAllConfigs
  CronTimes = {1, 2}
  Handlers = {h1}
  Scans = {s1}
  Faulty = {"db_get", "db_incr", "db_set", "db_delete", "db_keys", "db_batch_get", "action", "errget", "truncate"}
  NoDoc = NoDoc
  MaxTime = 2
  MaxSets = 2
  MaxFaults = 2
  MaxCrashes = 1
INVARIANTS TypeOK NoDoubleFire CountsCoverFires FiresAreConfigured
