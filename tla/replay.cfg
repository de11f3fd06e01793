SPECIFICATION Spec
CONSTANTS
  Clients = {a}
  Prober = Prober
  NoSize = NoSize
  Sizes = {w}
  MaxConns = 2
  MaxOut = 3
  MaxIn = 0
  MaxFaults = 1
  RingCap = 2
  MaxPendingWrite = 1
  AbandonPendingWrite = 3
  MaxPendingInput = 1
  MaxPendingRead = 2
  FillMax = 2
  SockCap = 2
  PtyCap = 2
  ClientSays = {}
  HelloKinds = {"ctrl_l", "ahead"}
  World = {"exit", "close", "idle"}
INVARIANTS StreamIsContiguous ExitEndsTheTranscript SleepsOwingNothing
CHECK_DEADLOCK FALSE
