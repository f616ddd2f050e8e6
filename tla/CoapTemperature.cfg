SPECIFICATION FairSpec
CONSTANTS
  o1 = o1
  o2 = o2
  Observer = {o1, o2}
  Temp <- MCTemp
  MAX_AGE = 6
  INTERVAL_MIN = 3
  CHANGE = 1
INVARIANTS FreshWithinMaxAge RateLimited ChangeRecorded ValueSettles
PROPERTIES FirstValueRecorded
