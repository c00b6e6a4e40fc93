CONSTANTS
  m1 = m1
  p1 = p1
  Missing = Missing
  w1 = w1
  s1 = s1
  h1 = h1
  h2 = h2
  Items <- OneMessage
  Keys <- EventKeys
  Workers = {w1}
  Schedulers = {s1}
  Handlers = {h1,h2}
  NoKey = NoKey
  MaxAttempts = 2
  BatchSize = 1
  QueueCap = 1
  MaxCrashes = 0
  MaxLosses = 1
  GuardUp = TRUE
  MaxFailures = 1
SPECIFICATION IntakeSpec
PROPERTIES ImplementsInbox
CHECK_DEADLOCK FALSE
