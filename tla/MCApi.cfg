\* Two handlers, three requests, one key; an answer is kept for the moment it
\* is given.
SPECIFICATION Spec
CONSTANTS
  Threads = {t1, t2}
  Keys = {k1}
  NoKey = NoKey
  NoRecord = NoRecord
  Ttl = 0
  MaxTime = 1
  MaxRequests = 3
SYMMETRY Symmetric
INVARIANTS
  AnsweredIsAnnounced
  ReplaysAreAnnounced
PROPERTY RetryIsReplayed
