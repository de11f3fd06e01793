SPECIFICATION Spec
CONSTANTS
  MaxPeers = 1
  MaxClients = 1
  Wrap = 4
  MaxReplies = 3
  MaxFaults = 0
  MaxChannelQueue = 3
  MaxPendingWrite = 2
  PeerCap = 1
  SockCap = 3
  Befalls = {}
INVARIANTS ClosedChannelsGoSoon
CHECK_DEADLOCK FALSE
