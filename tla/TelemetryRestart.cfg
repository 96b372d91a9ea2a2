CONSTANTS
  Producer = Producer
  Consumer = Consumer
  Io = Io
  Main = Main
  Users = {Producer, Consumer, Io, Main}
  Pushers = {Producer}
  Poppers = {Consumer}
  Stoppers = {Io, Main}
  Values = {"s"}
  Capacity = 2
  Nobody = Nobody
  NoValue = NoValue
  Addresses = {"addr1", "addr2"}
  Off = "off"
  Updates = {"off", "addr1", "addr2"}
  NServices = 2
  MayFailToBind = {"addr2"}
  MayShutDown = FALSE
SPECIFICATION TelemetrySpec
INVARIANT
  MonitorAsConfigured
PROPERTY
  QueueDrains
CHECK_DEADLOCK FALSE
