SPECIFICATION ObserverSpec
CONSTANTS
  Keys <- OneKey
  Vals <- TwoVals
  Null = "null"
  Root = "root"
  None = None
  BadPath <- NoEvents
  BadKey <- NoEvents
  Denied <- NoEvents
  Calls = {c1, c2}
  Writes <- SpelledWrites
  RemoteWrites <- OtherTrees
  Configs <- ObservedConfigs
  Capacity = 2
  AttemptCap = 2
  Faults <- CrashAndCut
SYMMETRY CallSymmetry
INVARIANTS
  Faultless
  Observed
  JournalMirrored
  DurableSnapshot
  QueueBounded
  GaugeExact
  RetryCeiling
  EchoesFollow
  EchoesMet
  CaughtUp
