SPECIFICATION Spec
CONSTANTS
  Client = {c1, c2}
  MaxRow = 3
  BatchLimit = 2
INVARIANTS NoRowSkipped
