SPECIFICATION FairSpec
CONSTANTS
  m1 = m1
  m2 = m2
  Direct = Direct
  Method <- MCMethod
  Worlds <- MCWorlds
  Proofs <- MCProofs
  Configured <- MCConfigured
  Empty <- MCEmpty
  Protocol <- MCProtocol
INVARIANTS
  VerifiedByAll
  RejectedForCause
  PanicsForCause
PROPERTIES
  Termination
