SPECIFICATION Spec
CONSTANTS
  Values = {s}
  Mutations <- ReusedId
  None = None
  Torn = Torn
  Kinds <- All
  MaxLines = 2
  Faults <- ErrorAndDeath
INVARIANTS
  TypeOK
PROPERTY Implements
