SPECIFICATION FairSpecM1
CONSTANTS
  None = None
  t1 = t1
  t2 = t2
  t3 = t3
  m1 = m1
  m2 = m2
  p1 = p1
  p2 = p2
  Teams = {t1, t2, t3}
  Matches = {m1, m2}
  KnownEntrants = {t3}
  TeamsOf <- SharedTeam
  Pushers = {p1}
  MaxKey = 5
PROPERTY M1EventuallyConfirmed
CHECK_DEADLOCK FALSE
