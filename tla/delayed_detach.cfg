SPECIFICATION Spec
CONSTANTS
  Clients = {a, b}
  Prober = Prober
  NoSize = NoSize
  Sizes = {w}
  MaxConns = 2
  MaxOut = 0
  MaxIn = 2
  MaxFaults = 1
  RingCap = 1
  MaxPendingWrite = 2
  AbandonPendingWrite = 4
  MaxPendingInput = 3
  MaxPendingRead = 3
  FillMax = 1
  SockCap = 3
  PtyCap = 1
  ClientSays = {"Detach"}
  HelloKinds = {"if_detached"}
  World = {}
PROPERTIES DetachFreesTheSlot
CHECK_DEADLOCK FALSE
