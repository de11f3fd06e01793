SPECIFICATION Spec
CONSTANTS
  MaxSpawns = 2
  MaxStarts = 3
  MaxDirects = 1
  MaxKills = 1
  MaxLists = 1
  MaxFaults = 1
  Befalls = {"crash", "quits", "wedge"}
INVARIANTS LockIsAMutex PidfileIsTrue PublishedBeforeJudged LiveSessionsKeepTheirSocket DeadStaysDead SpawnGetsItsOwn
CHECK_DEADLOCK FALSE
