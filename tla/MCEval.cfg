CONSTANTS
  Globals <- MCGlobals
  Files <- MCFiles
  Source <- MCSource
  KeyOrder <- MCKeyOrder
  SearchPath <- MCSearchPath
  Mains <- MCMains
  Fuel = 26
  Depth = 4
SPECIFICATION Spec
INVARIANTS
  FramesBalanced
  UpvaluesFinalised
PROPERTIES
  Agrees
  ThunksSettle
