SPECIFICATION FairSpec
CONSTANTS
  Ids = {1, 2}
  Creates <- MCCreates
  Patches <- MCPatches
  NoLead = NoLead
  Keep = Keep
  NoDoc = NoDoc
  Handlers = {h1}
  Scans = {s1}
  MaxTime = 2
  MaxRequests = 3
  MaxFaults = 1
  MaxCrashes = 1
INVARIANTS TwiceOnlyIfUndone WithdrawnNeverFires
PROPERTIES ReminderFires
CHECK_DEADLOCK FALSE
