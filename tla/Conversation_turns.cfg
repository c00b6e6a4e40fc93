CONSTANTS
  b1 = b1
  m1 = m1
  o1 = o1
  r1 = r1
  r2 = r2
  w1 = w1
  w2 = w2
  None = None
  Msgs = {m1}
  Reminders = {r1, r2}
  Runners = {w1, w2}
  Chasers = {}
  Operators = {o1}
  Backends = {b1}
  Answers <- TurnAnswers
  Ladder = 1
  MaxPromised = 1
  MaxTries = 2
  Duplicates = TRUE
  LockHolds = TRUE
  MaxCrashes = 1
SPECIFICATION Spec
INVARIANTS TypeOK 
PROPERTIES KeepsTheFloor
SYMMETRY ActorSymmetry
CHECK_DEADLOCK FALSE
