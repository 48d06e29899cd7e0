SPECIFICATION HttpSpec
CONSTANTS
  s1 = s1
  s2 = s2
  Server <- MCServer
  Bodies <- MCBodies
  Json <- MCJson
  LOG_SNIP_MAX = 4
CHECK_DEADLOCK FALSE
PROPERTY
  NonSuccessIsRequestFailed
