SPECIFICATION FairSpec
CONSTANTS
  u1 = u1
  u2 = u2
  u3 = u3
  u4 = u4
  u5 = u5
  yes = yes
  no = no
  Url <- MCUrl
  Plaintext <- MCPlaintext
  Values <- MCValues
  Failure = failure
  Nothing = nothing
  Configs <- MCConfigs
INVARIANTS
  RejectionIsRight
  OutcomeIsUnique
  AcceptedByDistinctServers
  RequestsAreBounded
PROPERTIES
  Termination
  Implements
