SPECIFICATION FairSpec
CONSTANTS
  MaxPeers = 2
  MaxClients = 2
  Wrap = 4
  MaxReplies = 2
  MaxFaults = 1
  MaxChannelQueue = 1
  MaxPendingWrite = 2
  PeerCap = 1
  SockCap = 1
  Befalls = {"leave", "die", "sigterm", "half_close", "detach", "ask"}
INVARIANTS NoReplyGoesAstray ChannelFramesAlternate NeitherEndIsLeftHolding
PROPERTIES PeersAreAnswered
CHECK_DEADLOCK FALSE
