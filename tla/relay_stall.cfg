SPECIFICATION FairSpec
CONSTANTS
  Loads <- MCLoads
  RELAY_CHUNK = 2
  SockCap = 1
  ChannelCap = 1
  StdoutCap = 1
  Window = 2
PROPERTIES CloseAloneEndsTheRelay
CHECK_DEADLOCK FALSE
