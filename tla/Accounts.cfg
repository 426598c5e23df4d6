CONSTANTS
  Requests = {q1, q2}
  Keys = {k1, k2, k3}
  Kids = {e1}
  Contacts = {c1, c2}
  None = None
  SingleUse = TRUE
  BindingRequired = FALSE
  MaxAccounts = 2
  MaxRevision = 3
SPECIFICATION Spec
INVARIANT AccountsInv
PROPERTIES ChangeIsAuthorized ImplementsRegistry
SYMMETRY Symmetry
