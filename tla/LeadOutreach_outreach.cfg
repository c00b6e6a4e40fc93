CONSTANTS
  f1 = f1
  m1 = m1
  m2 = m2
  i1 = i1
  i2 = i2
  s1 = s1
  s2 = s2
  None = None
  Forms = {f1}
  Msgs = {m1, m2}
  Referred = {m1, m2}
  Ids = {i1, i2}
  Slots = {s1, s2}
  Earlier = {"absent", "qualified"}
  MaxSends = 2
  MaxTries = 2
  MaxCrashes = 1
SPECIFICATION Spec
INVARIANTS OutreachTypeOK WelcomedOnce ContactedWasSent AttributionComplete ReplyEndsOutreach ForgottenWereFailed
SYMMETRY ActorSymmetry
CHECK_DEADLOCK FALSE
