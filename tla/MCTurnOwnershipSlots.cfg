SPECIFICATION Spec
CONSTANTS
  m1 = m1
  m2 = m2
  Instance = {a1}
  Message = {m1, m2}
  None = None
  RuntimeOf <- MCRuntimeMixed
  MaxAdoptAttempts = 0
  MaxGeneration = 2
  MaxRows = 1
INVARIANTS SlotFollowsTurn
PROPERTIES KeepsLedger
