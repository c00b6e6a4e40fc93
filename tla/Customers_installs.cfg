CONSTANTS
  c1 = c1
  c2 = c2
  k1 = k1
  k2 = k2
  People = {c1, c2}
  Numbers = {n1, n2}
  Configured = {n1, n2}
  Slots = {s1, s2}
  None = None
  PhoneOf <- MCPhoneOf
  Typed <- MCTyped
  Starts = {"absent", "engaged"}
  Suggests = {"human_handoff"}
  MaxStarted = 2
  MaxLinks = 2
  Campaigns = {k1, k2}
  LeadsOf <- MCLeadsOf
  MessageLimit = 2
  MaxSessions = 3
SPECIFICATION Spec
SYMMETRY SessionSymmetry
CHECK_DEADLOCK FALSE
INVARIANTS CustomersTypeOK   OneNudge PhoneFindsOwner FiguresAgree FunnelShrinks FunnelCountsOnce MedianIsOfFirstLinks
