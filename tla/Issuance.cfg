SPECIFICATION Spec
CONSTANTS
  o1 = o1
  o2 = o2
  a1 = a1
  a2 = a2
  c1 = c1
  c2 = c2
  c3 = c3
  w1 = w1
  w2 = w2
  h1 = h1
  h2 = h2
  None = None
  Orders = {o1, o2}
  Authzs = {a1, a2}
  Challenges = {}
  OrderOf <- TwoOrders
  AuthzOf <- NoChallenge
  PreApproved = {a1, a2}
  TaskIDs = {t1, t2}
  CSRs = {x, y}
  Leaves = {l1, l2}
  OrderLifetime = 1
  AuthzLifetime = 1
  MaxTime = 1
  Workers = {w1, w2}
  MaxAttempts = 2
  MaxFaults = 1
  GrantTimes = {None}
  BadLeaves = {l2}
  Handlers = {h1, h2}
  Kinds = {"finalize", "deactivate", "account"}
  MaxPendingValidations = 2
  MaxAccountRev = 2
CONSTRAINT SecondOrderIsPlain
SYMMETRY Symmetry
INVARIANTS
  OneOperation
  AcknowledgedCSR
  ResultRetained
PROPERTIES
  DispatchIsCurrent
