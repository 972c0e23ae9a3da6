\* One captain who creates her team again.
CONSTANTS
  None = None
  Teams = {t1, t2}
  Captain <- OneCaptain
  Donations = {d1, d2}
  MaxPlaces = 2
  MaxMishaps = 1
SPECIFICATION Spec
PROPERTY NoSecondTeam
CHECK_DEADLOCK FALSE
