CONSTANTS
  c1 = c1
  m1 = m1
  m2 = m2
  r1 = r1
  r2 = r2
  r3 = r3
  r4 = r4
  w1 = w1
  None = None
  Msgs = {m1, m2}
  Reminders = {r1, r2, r3, r4}
  Runners = {w1}
  Chasers = {c1}
  Operators = {}
  Backends = {}
  Answers <- StageAnswers
  Ladder = 2
  MaxPromised = 1
  MaxTries = 2
  Duplicates = FALSE
  LockHolds = TRUE
  MaxCrashes = 0
SPECIFICATION Spec
PROPERTIES NeverBackwards
CHECK_DEADLOCK FALSE
