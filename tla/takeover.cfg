SPECIFICATION Spec
CONSTANTS
  Clients = {a, b}
  Prober = Prober
  NoSize = NoSize
  Sizes = {w}
  MaxConns = 2
  MaxOut = 0
  MaxIn = 2
  MaxFaults = 1
  RingCap = 1
  MaxPendingWrite = 2
  AbandonPendingWrite = 4
  MaxPendingInput = 2
  MaxPendingRead = 3
  FillMax = 3
  SockCap = 3
  PtyCap = 1
  ClientSays = {"Detach", "Part", "Bad", "Resize", "Ping", "Fin"}
  HelloKinds = {"plain", "if_detached", "old", "bad"}
  World = {"hangup", "probe", "sigterm"}
INVARIANTS InputExactlyOnce InputOffsetsAgree SleepsOwingNothing TakeoverReadsFirst
PROPERTIES OnlyAGreetingTakesOver
SYMMETRY ClientSymmetry
CHECK_DEADLOCK FALSE
