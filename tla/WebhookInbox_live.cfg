CONSTANTS
  k1 = k1
  k2 = k2
  w1 = w1
  s1 = s1
  Keys = {k1,k2}
  Workers = {w1}
  Schedulers = {s1}
  NoKey = NoKey
  MaxAttempts = 2
  BatchSize = 1
  QueueCap = 1
  MaxCrashes = 1
  MaxLosses = 1
SPECIFICATION FairSpec
PROPERTIES EventuallySettled
CHECK_DEADLOCK FALSE
