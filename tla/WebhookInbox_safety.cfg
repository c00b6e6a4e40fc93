CONSTANTS
  k1 = k1
  w1 = w1
  w2 = w2
  w3 = w3
  s1 = s1
  s2 = s2
  Keys = {k1}
  Workers = {w1,w2,w3}
  Schedulers = {s1,s2}
  NoKey = NoKey
  MaxAttempts = 3
  BatchSize = 1
  QueueCap = 2
  MaxCrashes = 1
  MaxLosses = 1
SPECIFICATION Spec
SYMMETRY Symmetry
INVARIANTS TypeOK  ExhaustedIsHeld
PROPERTIES NeverReopened KeepsContract
CHECK_DEADLOCK FALSE
