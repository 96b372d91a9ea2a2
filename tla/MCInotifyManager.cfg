CONSTANTS
  Threads = {"io"}
  IoThread = "io"
  Paths = {"hebpf.yaml", "acl.json", "lb.json", "tmp/lb.json"}
  ParentDir <- MCParentDir
  FileName <- MCFileName
  BarePaths <- MCBarePaths
  MainConfig = "hebpf.yaml"
  NoSuchDir = {"tmp"}
  MaxPending = 2
SPECIFICATION InotifySpec
INVARIANTS
  InotifyInv
  ChangesDelivered
  WatchedIsListed
CHECK_DEADLOCK FALSE
