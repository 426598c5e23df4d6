SPECIFICATION Spec
CONSTANTS
  Requests = {q1, q2}
  Reasons = {r1, r2}
  Replacements = {p1, p2}
  None = None
  FinalRefusals = {2}
  MaxOps = 2
  MaxFaults = 2
INVARIANTS
  RevocationAgrees
  ClaimKept
  AcceptedIsKept
PROPERTIES
  RevokedStays
