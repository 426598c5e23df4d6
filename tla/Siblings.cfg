SPECIFICATION Spec
CONSTANTS
  o1 = o1
  o2 = o2
  a1 = a1
  a2 = a2
  c1 = c1
  c2 = c2
  c3 = c3
  w1 = w1
  w2 = w2
  h1 = h1
  h2 = h2
  None = None
  Orders = {o1}
  Authzs = {a1, a2}
  Challenges = {c1, c2, c3}
  OrderOf <- TwoAuthzs
  AuthzOf <- ThreeOfTwo
  PreApproved = {}
  TaskIDs = {t1, t2, t3}
  CSRs = {x}
  Leaves = {l1}
  OrderLifetime = 1
  AuthzLifetime = 1
  MaxTime = 1
  Workers = {w1, w2}
  MaxAttempts = 2
  MaxFaults = 0
  GrantTimes = {None}
  BadLeaves = {}
  Handlers = {h1, h2}
  Kinds = {"challenge", "deactivate"}
  MaxPendingValidations = 1
  MaxAccountRev = 1
SYMMETRY Symmetry
INVARIANTS
  OrderAgrees
  BacklogBounded
