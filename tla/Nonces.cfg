SPECIFICATION BothSpec
CONSTANTS
  Capacity = 3
  TTL = 2
  MaxIssued = 7
  MaxTime = 4
  Requests = {q1, q2, q3}
  None = None
  Limited = TRUE
  PoolCapacity = 2
  PoolTTL = 1
  PoolTime = 1
SYMMETRY Symmetry
CHECK_DEADLOCK FALSE
INVARIANTS
  QueueSound
  HandlersAdmitted
  NoncesOfAnswers
PROPERTIES
  ImplementsPool
