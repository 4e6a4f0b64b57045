SPECIFICATION ObserverSpec
CONSTANTS
  Keys <- OneKey
  Vals <- ThreeVals
  Null = "null"
  Root = "root"
  None = None
  BadPath <- NoEvents
  BadKey <- NoEvents
  Denied <- NoEvents
  Calls = {c1, c2}
  Writes <- TreeA
  RemoteWrites <- TreeB
  Configs <- QueueingConfigs
  Capacity = 2
  AttemptCap = 2
  Faults <- CrashAndOther
PROPERTY ConflictsHonoured
