SPECIFICATION FairSpec
CONSTANTS
  Harts = {1, 2}
  Nobody = 0
  Scenarios <- AllScenarios
INVARIANTS
  OwnedAreLive
  NoBlockLost
  LockOrder
  PanicCauses
PROPERTIES
  FrozenIsFinal
  CallsReturn
  BootInitialises
CHECK_DEADLOCK FALSE
