SPECIFICATION Spec
CONSTANTS
  Values = {s}
  Mutations <- TwoIds
  None = None
  Torn = Torn
  Kinds <- NoMetadata
  MaxLines = 3
  Faults <- AnyTwo
INVARIANTS
  FilesSound
  SurvivesPowerLoss
  RecordsSurvive
  LoadsAreComplete
VIEW Unanswered
