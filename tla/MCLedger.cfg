\* Three users, three buy orders, five units of money.  All the money may be
\* credited to a user who places no order: then nothing is left to do.
SPECIFICATION Spec
CONSTANTS
  Users = {u1, u2, u3}
  Orders = {o1, o2, o3}
  Amounts = {1, 2}
  MaxCredit = 5
SYMMETRY Symmetric
INVARIANTS
  HoldsAreReservations
  NoOverdraft
  MoneyConserved
PROPERTY
  KeepsPromise
CHECK_DEADLOCK FALSE
