CONSTANTS
  SECS_PER_MIN = 3
  SECS_PER_HOUR = 9
  SyncInterval = 4
  MaxLate = 1
  StartTimes = {0, 4}
  MAX_SOCK_NUM = 2
  Hasty = FALSE
  MaxFaults = 1
  MaxBusy = 1
  MaxPending = 1
SPECIFICATION Spec
INVARIANTS
  RateKept
  KeepsAsking
  StatusIsOurs
PROPERTIES
  Recovers
