SPECIFICATION ScopedSpec
CONSTANTS
  p1 = p1
  Requests = {p1, q1, q2, q3}
  a1 = a1
  Unknown = Unknown
  None = None
  Accounts = {a1}
  Certs <- OneCert
  RawIdentifiers <- AllIdentifiers
  Payloads <- AllPayloads
  Bounds = {1, 2}
  Supported = {"ip", "TNAuthList", "NfInstanceId"}
  Validators = {"http-01", "dns-01", "tkauth-01"}
  Profiles = {"p"}
  DefaultProfile = None
  Renewal = TRUE
  Choosing = TRUE
  PreApproving = TRUE
  MaxIdentifiers = 2
  OrderLifetime = 1
  PageSize = 1
  MaxTime = 3
  MaxLists = 1
SYMMETRY Symmetry
CHECK_DEADLOCK FALSE
INVARIANTS
  OrderAsAsked
  OneLiveReplacement
  ListComplete
