\* Three teams, three places at most, three donations.
CONSTANTS
  None = None
  Teams = {t1, t2, t3}
  Captain <- OwnCaptains
  Donations = {d1, d2, d3}
  MaxPlaces = 3
  MaxMishaps = 1
SYMMETRY Interchangeable
SPECIFICATION Spec
INVARIANTS
  NeverOverbooked
  LiveFieldIsDrawn
  BooksFollowStripe
PROPERTY EveryPaymentHasItsPlace
\* A cancelled tournament is at rest.
CHECK_DEADLOCK FALSE
