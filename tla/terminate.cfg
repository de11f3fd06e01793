SPECIFICATION FairSpec
CONSTANTS
  Numbers = {1, 2}
  Starts <- MCStarts
  MaxArrivals = 2
  MaxFaults = 1
INVARIANTS NobodyIsForgotten
PROPERTIES StrangersAreSpared NobodyDiesUnheard TerminateEnds
CHECK_DEADLOCK FALSE
