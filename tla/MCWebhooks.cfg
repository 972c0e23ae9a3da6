SPECIFICATION FairSpec
CONSTANTS
  None = None
  Gone = Gone
  Instances = {a, b}
  MaxAttempts = 2
  MaxEvents = 1
  MaxDeliveries = 2
  MaxMishaps = 1
INVARIANTS AttemptsOverlapByStalls AppliedOnce
PROPERTIES EveryDeliveryEnds
