SPECIFICATION Spec
CONSTANTS
  MaxFd = 14
  Callers <- MCCallers
  Environments <- MCEnvironments
INVARIANTS VerdictIsTrue ChildHasItsOwn CallerKeepsNothing
PROPERTIES SpawnReturns
CHECK_DEADLOCK FALSE
