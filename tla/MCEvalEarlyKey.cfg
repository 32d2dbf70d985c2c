CONSTANTS
  Globals <- MCGlobals
  Files <- MCFiles
  Source <- MCSource
  KeyOrder <- MCKeyOrder
  SearchPath <- MCSearchPath
  Mains <- MCEarlyKey
  Fuel = 26
  Depth = 4
SPECIFICATION Spec
INVARIANT
  UpvaluesFinalised
