CONSTANTS
  c1 = c1
  m1 = m1
  m2 = m2
  r1 = r1
  r2 = r2
  r3 = r3
  r4 = r4
  w1 = w1
  w2 = w2
  None = None
  Msgs = {m1, m2}
  Reminders = {r1, r2, r3, r4}
  Runners = {w1, w2}
  Chasers = {c1}
  Operators = {}
  Backends = {}
  Answers <- ChaseAnswers
  Ladder = 2
  MaxPromised = 1
  MaxTries = 2
  Duplicates = FALSE
  LockHolds = FALSE
  MaxCrashes = 1
SPECIFICATION Spec
INVARIANTS FollowUpIsWelcome   
SYMMETRY ActorSymmetry
CHECK_DEADLOCK FALSE
