SPECIFICATION Spec
CONSTANTS
  m1 = m1
  m2 = m2
  Instance = {a1, a2}
  Message = {m1}
  None = None
  RuntimeOf <- MCRuntimeSprites
  MaxAdoptAttempts = 1
  MaxGeneration = 3
  MaxRows = 1
SYMMETRY MCSymmetry
INVARIANTS TypeOK TerminalIsLast ClosedTogether FencesUnique GenerationsInOrder AuthorsOwnRows
