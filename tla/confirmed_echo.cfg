SPECIFICATION Spec
CONSTANTS
  Keys <- OneKey
  Vals <- TwoVals
  Null = "null"
  Root = "root"
  None = None
  BadPath <- NoEvents
  BadKey <- NoEvents
  Denied <- NoEvents
  Calls = {c1, c2}
  Writes <- TreeA
  RemoteWrites <- NoEvents
  Configs <- ConfirmedConfigs
  Capacity = 2
  AttemptCap = 2
  Faults <- NoFaults
INVARIANT FinalConvergence
