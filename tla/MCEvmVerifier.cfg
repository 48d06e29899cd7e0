SPECIFICATION Spec
CONSTANTS
  s1 = s1
  s2 = s2
  s3 = s3
  Server <- MCServer
  Threshold = 2
  Faulty <- MCFaulty
  Wide <- MCWide
  Chains <- MCChains
  Depth <- MCDepth
  WordSize = 16
  MaxBlocks = 3
INVARIANTS
  AnswersAreFinal
  VerdictIsFinal
  NoConsensusForCause
PROPERTIES
  PanicsForCause
