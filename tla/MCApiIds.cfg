\* Two handlers make an id at once.
SPECIFICATION Spec
CONSTANTS
  Threads = {t1, t2}
  Keys = {k1}
  NoKey = NoKey
  NoRecord = NoRecord
  Ttl = 1
  MaxTime = 0
  MaxRequests = 2
INVARIANT IdsDiffer
