SPECIFICATION LiveSpec
CONSTANTS
  Client = {c1, c2}
  MaxRow = 2
  BatchLimit = 1
INVARIANTS TypeOK OthersSkipNothing
PROPERTIES ReplayArrives CatchesUp
