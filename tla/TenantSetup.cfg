SPECIFICATION Spec
CONSTANTS
  u1 = u1
  u2 = u2
  None = None
  Clients = {u1, u2}
  Emails = {"m1", "m2"}
  Slugs = {"s1"}
  Companies = {"c1"}
  Templates = {"t1"}
  Codes = {"a"}
  MaxCalls = 4
SYMMETRY ClientSymmetry
CHECK_DEADLOCK FALSE
INVARIANT
  MembershipsKept
