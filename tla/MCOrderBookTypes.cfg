\* All order types; three orders of one or two units (or of none, which
\* validation rejects), ids in any order.
SPECIFICATION Spec
CONSTANTS
  Ids = {1, 2, 3}
  Users = {u1, u2}
  NoUser = nobody
  OrderTypes = {"limit", "market", "ioc"}
  Prices = {0, 1, 2}
  Quantities = {0, 1, 2}
  Timestamps = {1}
  MaxPrice = 2
  Latest = 1
  NoOrder = NoOrder
SYMMETRY UserSymmetry
INVARIANTS
  TypeOK
  BookSorted
  CrossedOnlyByParked
  RestingConserved
  SelfTradeOnlyBehindOther
PROPERTIES
  LostOnlyToOwnIOC
  KeepsPromise
