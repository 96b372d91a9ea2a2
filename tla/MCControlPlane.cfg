SPECIFICATION ControlSpec
CONSTANTS
  Main = main
  Io = io
  Nobody = nobody
  Malformed = malformed
  Files <- MCFiles
  Subscribers = {"daemon", "debug", "late"}
  Throwing = {"debug"}
  MaxEdits = 2
  Callers <- MCCallers
  NoAddress = noAddress
  BadAddresses <- MCBad
  BusyAddresses <- MCBusy
  Clients = {c1}
  DebugSubs = {"daemon"}
  AttachOrder <- MCAttachOrder
  DebugSub = "debug"
  DaemonSub = "daemon"
  LateSubs = {"late"}
  CmdFile = noOption
  NoOption = noOption
  EditDuringStart = FALSE
  MayEnd = TRUE
INVARIANTS
  ControlInv
  QuietMeansApplied
  ListensAsConfigured
  ListenerServed
PROPERTIES
  NeverBackwards
  EditsTakeEffect
  RequestsAnswered
CHECK_DEADLOCK FALSE
