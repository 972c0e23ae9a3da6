\* One contest, two users, four requests that commit.
CONSTANTS
  None = None
  Contests = {c1}
  Users = {1, 2}
  Keys = {k1, k2, k3, k4}
  Definitions <- MCDefinitions
  Reports <- MCReports
  StartBalance = 4
SYMMETRY KeySymmetry
SPECIFICATION Spec
INVARIANTS
  EscrowHoldsTheStakes
  BooksClose
  StakesAreLinked
  NeverOverfull
  SettlementBalances
  CompleteResultsAdvance
PROPERTIES
  PaidAsPreviewed
  ImplementsPot
CHECK_DEADLOCK FALSE
