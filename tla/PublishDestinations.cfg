SPECIFICATION Spec
CONSTANTS
  u1 = u1
  u2 = u2
  NoAccount = NoAccount
  Admins = {u1, u2}
  Connections = {"c1"}
  Destinations = {"d1"}
  ExternalIds = {"x1"}
  Accounts = {"a1"}
  Types <- OneType
  MaxCalls = 3
SYMMETRY AdminSymmetry
CHECK_DEADLOCK FALSE
INVARIANT
  ActiveNamesAccount
