\* Two goroutines, three orders, any number of transitions and cancels.
SPECIFICATION FairSpec
CONSTANTS
  Threads = {t1, t2}
  Orders = {o1, o2, o3}
INVARIANTS
  NothingBeforeLive
  LateOrdersBounded
PROPERTIES
  NoEntryWhenDrained
  FrozenWhenDrained
  SettledDrains
