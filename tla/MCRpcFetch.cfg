SPECIFICATION RunSpec
CONSTANTS
  Files <- MCFiles
  Bases <- MCBases
INVARIANTS
  ThresholdsAreMajorities
  ChainsKeepApart
  WrittenConfigLoads
PROPERTIES
  RunEnds
