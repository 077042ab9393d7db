\* Two publishers of two events each, two subscribers, two types, one slot.
SPECIFICATION FairSpec
CONSTANTS
  Publishers = {p1, p2}
  Channels = {c1, c2}
  Types = {a, b}
  BufferSize = 1
  MaxEvents = 2
  MaxCloses = 2
INVARIANTS
  TypeOK
  NeverPanics
  EveryEventAccounted
  InPublishingOrder
PROPERTIES
  PublishReturns
  ConsumersLeave
CHECK_DEADLOCK FALSE
