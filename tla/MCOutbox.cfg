\* One tab, two matches, two saved items.
CONSTANTS
  None = None
  Tabs = {t1}
  Matches = {m1, m2}
  MaxItems = 2
  MaxLate = 1
SPECIFICATION Spec
INVARIANTS
  NoSavedScoreIsLost
PROPERTIES
  QueueDrains
