SPECIFICATION Spec
CONSTANTS
  Keys <- OneKey
  Vals <- ThreeVals
  Null = "null"
  Root = "root"
  None = None
  BadPath <- NoEvents
  BadKey <- NoEvents
  Denied <- NoEvents
  Calls = {c1, c2, c3, c4}
  Writes <- EitherTree
  RemoteWrites <- NoEvents
  Configs <- OptimisticConfigs
  Capacity = 4
  AttemptCap = 2
  Faults <- OnePutFails
SYMMETRY CallSymmetry
INVARIANT FinalConvergence
