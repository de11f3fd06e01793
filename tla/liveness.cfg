SPECIFICATION MCSpec
CONSTANTS
  Clients = {a}
  Prober = Prober
  NoSize = NoSize
  Sizes = {w1, w2}
  MaxConns = 2
  MaxOut = 1
  MaxIn = 5
  MaxFaults = 1
  RingCap = 1
  MaxPendingWrite = 1
  AbandonPendingWrite = 3
  MaxPendingInput = 1
  MaxPendingRead = 2
  FillMax = 2
  SockCap = 2
  PtyCap = 1
  ClientSays = {}
  HelloKinds = {"plain"}
  World = {"probe", "idle", "close", "hangup", "sigterm"}
INVARIANTS StalledClientIsLetGo
PROPERTIES IdleSessionEnds BacklogDrains SizeConverges TranscriptArrives GoneClientIsLetGo 
CHECK_DEADLOCK FALSE
