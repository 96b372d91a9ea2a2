CONSTANTS
  AclFiles <- MCAclFiles
  AclMaxEntries = 3
  AclMaxRules = 3
  LbFiles <- MCLbFiles
  MAX_BACKENDS_PER_VIP = 2
  TOTAL_BACKENDS = 4
  MAXSIZE_LB_HASH = 2
  LbMaxRules = 3
  Chain <- AclThenLb
  Packets <- MCPackets
SPECIFICATION PlaneSpec
INVARIANTS
  PlaneInv
  RulesInForce
  VerdictAsRules
  GroupsResolve
  SentToOwnBackend
PROPERTY
  DropHasRule
