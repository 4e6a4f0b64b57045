SPECIFICATION Spec
CONSTANTS
  Keys <- OneKey
  Vals <- ThreeVals
  Null = "null"
  Root = "root"
  None = None
  BadPath <- BadPaths
  BadKey <- BadKeys
  Denied <- Refused
  Calls = {c1, c2}
  Writes <- MixedWrites
  RemoteWrites <- TreeNull
  Configs <- DurableConfigs
  Capacity = 1
  AttemptCap = 2
  Faults <- CrashAndError
SYMMETRY CallSymmetry
INVARIANTS
  IndInv
  JournalOrder
  AcceptedNotLost
  ConnectedIsSettled
  DuplicatesNeedAFault
  OncePerFault
  Converged
PROPERTY ReplayInOrder
