SPECIFICATION Spec
CONSTANTS
  w1 = w1
  w2 = w2
  p1 = p1
  p2 = p2
  Workers = {w1, w2}
  Payments = {p1, p2}
  Totals = {2}
  Amounts = {1, 2}
  Limit = 1
  MaxInvoices = 3
  Billed = {1, 2}
  Asked = {"issued", "cancelled"}
SYMMETRY LedgerSymmetry
INVARIANTS
  LedgerBalanced
  LimitOverrunBounded
