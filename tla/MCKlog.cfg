SPECIFICATION KlogSpec
CONSTANTS
  Cpus = {c1, c2}
  NoRecord = noRecord
  Events <- MCEvents
  Level = 1
  Specs = {"d", "u", "x", "X", "p", "P", "A"}
  Width <- MCWidth
  ProtoName <- MCProtoName
  MaxArgs = 2
  BufSize = 14
  Header = 4
  RingSize = 26
  MaxEvents = 3
  MaxCrashes = 1
INVARIANTS
  KlogInv
  LoggedInOrder
  RenderedAsFormatted
PROPERTIES
  SubmittedIsLogged
CHECK_DEADLOCK FALSE
