SPECIFICATION FairSpec
CONSTANTS
  o1 = o1
  o2 = o2
  a1 = a1
  a2 = a2
  c1 = c1
  c2 = c2
  c3 = c3
  w1 = w1
  w2 = w2
  h1 = h1
  h2 = h2
  None = None
  Orders = {o1}
  Authzs = {a1}
  Challenges = {c1}
  OrderOf <- OneAuthz
  AuthzOf <- OneChallenge
  PreApproved = {}
  TaskIDs = {t1, t2}
  CSRs = {x}
  Leaves = {l1}
  OrderLifetime = 2
  AuthzLifetime = 1
  MaxTime = 2
  Workers = {w1, w2}
  MaxAttempts = 2
  MaxFaults = 1
  GrantTimes = {None, 1}
  BadLeaves = {}
  Handlers = {h1}
  Kinds = {"challenge", "finalize", "deactivate"}
  MaxPendingValidations = 2
  MaxAccountRev = 1
INVARIANTS
  Agreed
PROPERTIES
  SignsInTime
  ImplementsMachine
  WorkSettles
