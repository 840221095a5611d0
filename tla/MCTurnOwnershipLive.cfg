SPECIFICATION LiveSpec
CONSTANTS
  m1 = m1
  Instance = {a1, a2}
  Message = {m1}
  None = None
  RuntimeOf <- MCRuntimeExternal
  MaxAdoptAttempts = 1
  MaxGeneration = 7
  MaxRows = 1
  MaxFaults = 2
PROPERTIES SlotComesBack
CHECK_DEADLOCK FALSE
