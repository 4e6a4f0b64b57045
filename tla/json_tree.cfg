SPECIFICATION Spec
CONSTANTS
  a = a
  b = b
  one = one
  two = two
  Null = Null
  Obj = Obj
  Bad = Bad
  Keys <- Two
  Scalars <- OneTwo
  Paths <- AllPaths
  Values <- AllValues
  Patches <- AllPatches
  Careful = TRUE
INVARIANTS
  TypeOK
  Agrees
