CONSTANTS
  i1 = i1
  a1 = a1
  a2 = a2
  a3 = a3
  None = None
  Ids = {i1}
  Readers = {a1, a2, a3}
SPECIFICATION ReceiptsSpec
INVARIANTS OrderIndependent StampsRemember
 
CHECK_DEADLOCK FALSE
