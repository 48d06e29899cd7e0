SPECIFICATION FairSpec
CONSTANTS
  a = a
  b = b
  c = c
  Server <- MCServer
  Reported <- MCReported
PROPERTY
  DeadServerLeaves
