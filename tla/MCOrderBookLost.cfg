\* Does a resting order disappear without being filled or cancelled?
SPECIFICATION Spec
CONSTANTS
  Ids = {1, 2}
  Users = {u1, u2}
  NoUser = nobody
  OrderTypes = {"limit", "market", "ioc"}
  Prices = {0, 1}
  Quantities = {1, 2}
  Timestamps = {1}
  MaxPrice = 1
  Latest = 1
  NoOrder = NoOrder
SYMMETRY UserSymmetry
INVARIANT
  NoRestingOrderLost
