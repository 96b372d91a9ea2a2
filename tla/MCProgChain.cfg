CONSTANTS
  Hooks = {"XDP_GENERIC"}
  MappedHooks = {"XDP_GENERIC"}
  Ifindexes = {1, 2, 3}
  Names = {"SCHEDULER", "ACL", "LB"}
  Registered <- MCRegistered
  Scheduler <- MCScheduler
  Threads = {"io"}
  MAX_PER_NIC_PROGS = 1
  MAX_CHAIN_PROGS = 2
  U32 = 32
  NDEBUG = FALSE
  MaxVec = 2
SPECIFICATION Spec
INVARIANTS
  TypeOK
  RegionsDisjoint
  HashInjective
