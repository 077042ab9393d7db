\* Four orders of one unit (or of none, which validation rejects): sweeps over
\* several own orders, and every call ends.
SPECIFICATION FairSpec
CONSTANTS
  Ids = {1, 2, 3, 4}
  Users = {u1, u2}
  NoUser = nobody
  OrderTypes = {"limit", "market"}
  Prices = {0, 1}
  Quantities = {0, 1}
  Timestamps = {1}
  MaxPrice = 1
  Latest = 1
  NoOrder = NoOrder
PROPERTIES
  KeepsPromise
  LockReleased
