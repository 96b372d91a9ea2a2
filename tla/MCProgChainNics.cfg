CONSTANTS
  Hooks = {"XDP_GENERIC"}
  MappedHooks = {"XDP_GENERIC"}
  Ifindexes = {1, 2}
  Names = {"SCHEDULER", "ACL"}
  Registered <- MCRegistered
  Scheduler <- MCScheduler
  Threads = {"io"}
  MAX_PER_NIC_PROGS = 8
  MAX_CHAIN_PROGS = 32
  U32 = 64
  NDEBUG = TRUE
  MaxVec = 2
SPECIFICATION Spec
INVARIANTS
  EveryNicOrdered
