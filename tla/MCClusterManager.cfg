SPECIFICATION FairSpec
CONSTANTS
  a1 = a1
  a2 = a2
  a3 = a3
  b1 = b1
  A = A
  B = B
  Z = Z
  Clusters <- MCClusters
  Server <- MCServer
  ServersOf <- MCServersOf
  Threshold <- MCThreshold
  SIGN_CONCURRENCY = 3
INVARIANTS
  SignedByOneCluster
  SignFailureIsRight
  KeyFailureIsRight
PROPERTIES
  Answered
