SPECIFICATION ProcessSpec
CONSTANTS
  HookOrder <- MCHookOrder
  NoMap = noMap
  Slots <- MCSlots
  Tc = "TC"
  NoProg = noProg
  MaxRuns = 2
  MaxUpdates = 1
  MaxMaps = 6
INVARIANTS
  ProcessInv
  MapsShared
  LeftByDeathOnly
  ExitLeavesNoPin
  FailedStartKeepsPairs

  
CHECK_DEADLOCK FALSE
