\* Two requests with one key overlap.
SPECIFICATION Spec
CONSTANTS
  Threads = {t1, t2}
  Keys = {k1}
  NoKey = NoKey
  NoRecord = NoRecord
  Ttl = 1
  MaxTime = 0
  MaxRequests = 2
PROPERTY OneSuccessPerKey
