SPECIFICATION Spec
CONSTANTS
  Values <- SomeValues
  Decodable <- Records
  MaxGeneration = 3
  WritersFirst = TRUE
  None = None
  Error = Error
CHECK_DEADLOCK FALSE
INVARIANTS
  KeepsUp
  OfOnePublication
  EndsUpToDate
PROPERTIES
  CatchesUp
  Ends
