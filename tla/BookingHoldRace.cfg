SPECIFICATION FairSpec
CONSTANTS
  c1 = c1
  c2 = c2
  Clients = {c1, c2}
  NoClient = NoClient
  Objects = {1, 2}
  Carts <- CrossedCarts
  Targets = {"PENDING_PAYMENT", "PAID", "CONFIRMED", "CANCELLED"}
  Solo = {"PENDING_PAYMENT", "PAID", "CONFIRMED"}
  HoldMinutes = 1
  MaxTime = 2
  MaxOrders = 2
INVARIANTS
  NoDoubleBooking
PROPERTIES
  ExpiresOnlyOverdue
  HoldsAnswered
