SPECIFICATION Spec
CONSTANTS
  c1 = c1
  c2 = c2
  s1 = s1
  s2 = s2
  s3 = s3
  quiknode = quiknode
  drpc = drpc
  NoChain = NoChain
  Chain <- MCChain
  Server <- MCServer
  Servers <- MCServers
  Threshold <- MCThreshold
  Domain <- MCDomain
  MaxConcurrent = 2
INVARIANTS
  MarginWasReal
  LoneServersAreShown
PROPERTIES
  OutagesAreShown
