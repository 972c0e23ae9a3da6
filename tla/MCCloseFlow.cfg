\* Two overlapping requests, two previews, two mishaps.
CONSTANTS
  None = None
  Requests = {r1, r2}
  MaxPreviews = 2
  MaxMishaps = 2
SPECIFICATION FairSpec
INVARIANTS
  SettledAsConfirmed
  KeyAnswersAlike
PROPERTIES
  PaidIsSettled
  CancelledIsRefunded
\* An organizer need not start anything, and a settled tournament is at rest.
CHECK_DEADLOCK FALSE
