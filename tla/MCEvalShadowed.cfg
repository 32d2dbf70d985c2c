CONSTANTS
  Globals <- MCGlobals
  Files <- MCFiles
  Source <- MCSource
  KeyOrder <- MCKeyOrder
  SearchPath <- MCSearchPath
  Mains <- MCShadowed
  Fuel = 26
  Depth = 4
SPECIFICATION Spec
PROPERTY
  Agrees
