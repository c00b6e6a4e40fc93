CONSTANTS
  m1 = m1
  p1 = p1
  Missing = Missing
  h1 = h1
  h2 = h2
  Items <- OneMessage
  Keys <- EventKeys
  Workers = {}
  Schedulers = {}
  Handlers = {h1,h2}
  NoKey = NoKey
  MaxAttempts = 1
  BatchSize = 1
  QueueCap = 1
  MaxCrashes = 0
  MaxLosses = 0
  GuardUp = TRUE
  MaxFailures = 1
SPECIFICATION IntakeSpec
INVARIANTS AckedIsKept
CHECK_DEADLOCK FALSE
