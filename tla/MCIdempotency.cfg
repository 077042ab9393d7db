\* Two keys, two responses, a time to live of one, a clock up to four.
SPECIFICATION Spec
CONSTANTS
  Keys = {k1, k2}
  Responses = {r1, r2}
  NoRecord = NoRecord
  Ttl = 1
  MaxTime = 4
SYMMETRY Symmetric
PROPERTY
  KeepsPromise
