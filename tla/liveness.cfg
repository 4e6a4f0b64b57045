SPECIFICATION FairSpec
CONSTANTS
  Keys <- OneKey
  Vals <- TwoVals
  Null = "null"
  Root = "root"
  None = None
  BadPath <- NoEvents
  BadKey <- NoEvents
  Denied <- NoEvents
  Calls = {c1, c2}
  Writes <- PutA
  RemoteWrites <- PutNull
  Configs <- LiveConfigs
  Capacity = 1
  AttemptCap = 2
  Faults <- PutFailsAndCut
INVARIANT TypeOK
PROPERTIES
  StopsWhenCancelled
  EveryCallAnswered
  QueuedIsReplayed
