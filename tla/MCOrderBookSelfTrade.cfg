\* Does a limit order ever trade with one of the same user?
SPECIFICATION Spec
CONSTANTS
  Ids = {1, 2, 3}
  Users = {u1, u2}
  NoUser = nobody
  OrderTypes = {"limit"}
  Prices = {1, 2}
  Quantities = {1, 2}
  Timestamps = {1}
  MaxPrice = 2
  Latest = 1
  NoOrder = NoOrder
SYMMETRY UserSymmetry
INVARIANT
  NoSelfTrade
