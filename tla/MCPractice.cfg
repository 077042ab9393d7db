\* Each part of the practice code by itself.
SPECIFICATION Spec
CONSTANTS
  Workers = {w1, w2}
  Txns = {x, y}
  Accounts = {a, b}
  TransferAmounts = {1}
  InputCount = 3
  Token = 3
  Rate = 2
  Burst = 6
  Loss = 1
  MaxClock = 5
  MaxGrants = 5
  Keys = {k1, k2, k3, k4}
  Values = {v1, v2}
  CacheCapacities = {0, 1, 2, 3}
  Interval = 2
  MaxTriggers = 4
  Callers = {c1, c2, c3}
  SlotCapacities = {0, 1, 2}
  Requests = {r1, r2}
  MatchIds = {0, 1}
  Traders = {t1, t2}
  MatchPrices <- MatchPricesMC
  MatchQuantities = {0, 1, 2}
  PriceUnit = 2
  Amounts = {3}
  MaxCalls = 4
  Ids = {1, 2, 3}
  Users = {u1, u2}
  NoUser = nobody
  OrderTypes = {"limit", "market", "ioc"}
  Prices = {0, 1, 2}
  Quantities = {1, 2}
  Timestamps = {1}
  MaxPrice = 2
  Latest = 1
  NoOrder = NoOrder
INVARIANTS
  ClosedIsComplete
  ExecutedOnce
  BalancesExact
  WindowBound
  HoldsMostRecent
  LastCallWins
  SlotsAreHeld
  NilMeansDrained
  DamageIsKnown
PROPERTIES
  OutputCloses
  SignalledReturns
  PhasesKeepPromise
CHECK_DEADLOCK FALSE
