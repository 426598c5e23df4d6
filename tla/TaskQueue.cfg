SPECIFICATION ScopedSpec
CONSTANTS
  Loops = {l1, l2}
  Tasks = {t1, t2, t3}
  None = None
  Concurrency = 2
  Lease = 2
  PollInterval = 1
  RetryDelay = 1
  StaleAfter = 1
  Probing = TRUE
  MaxTime = 6
  MaxAttempts = 2
  MaxFaults = 1
SYMMETRY Symmetry
INVARIANTS
  LeaseCoversRun
  SlotsAccounted
  NoLostWakeup
  ClaimedInTime
  DeadQueueIsReported
