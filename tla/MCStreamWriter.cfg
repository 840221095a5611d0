CONSTANTS
  MaxEvents = 3
  MaxCheckpoints = 2
  MaxPendingRows = 2
SPECIFICATION Spec
CHECK_DEADLOCK FALSE
INVARIANTS
  TypeOK
  ResumeSkipsNothing
  CursorPairsContent
  FinalContentHoldsLog
  NobodyStuck
  DueGoesOn
PROPERTY
  FinalContentStays
  KeepsMessageLog
