\* Four deliveries over two deposit keys and a withdrawal key, two callbacks.
CONSTANTS
  None = None
  d1 = d1
  w1 = w1
  u1 = u1
  Users = {u1}
  Keys = {d1, d2, w1}
  Intent <- MCIntent
  Requests = {r1, r2, r3, r4}
  Callbacks = {b1, b2}
SYMMETRY PaymentSymmetry
SPECIFICATION Spec
INVARIANTS
  CustodyMatchesPayments
  KeyFundsOnce
  RailAndRowsAgree
  EndsOnce
CHECK_DEADLOCK FALSE
