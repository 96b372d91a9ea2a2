CONSTANTS
  Hooks = {"XDP_GENERIC", "KProbe"}
  MappedHooks = {"XDP_GENERIC"}
  Ifindexes = {1, 2}
  Names <- MCNames
  Registered <- MCRegistered
  Scheduler <- MCScheduler
  Threads = {"io"}
  MAX_PER_NIC_PROGS = 4
  MAX_CHAIN_PROGS = 8
  U32 = 32
  NDEBUG = TRUE
  MaxVec = 2
  Libs = {"libacl", "liblb", "libhello"}
  LibName <- MCLibName
  IdOrder <- MCIdOrder
  Configs <- EditConfigs
  Follows <- AnyEdit
  MayFail = {"liblb"}
SPECIFICATION DaemonSpec
INVARIANTS
  DaemonInv
  ServicesMatchConfig
PROPERTY
  UpdateCompletes
