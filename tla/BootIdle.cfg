SPECIFICATION FairSpec
CONSTANTS
  Harts = {1}
  Nobody = 0
  Scenarios <- OneBoot
PROPERTIES
  BootReachesIdle
CHECK_DEADLOCK FALSE
