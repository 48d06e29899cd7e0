SPECIFICATION FairSpec
CONSTANTS
  a = a
  b = b
  c = c
  Server <- MCServer
  Reported <- MCReported
INVARIANTS
  LiveWasUp
PROPERTIES
  StartupEnds
