CONSTANTS
  Users = {u1, u2, u3}
  Pushers = {u1, u2}
  Poppers = {u3}
  Stoppers = {u2}
  Values = {"x", "y"}
  Capacity = 2
  Nobody = Nobody
  NoValue = NoValue
SPECIFICATION QueueSpec
INVARIANTS
  QueueInv
  TryPopFindsElement
  NoForgottenSleeper
PROPERTY
  ImplementsFifo

