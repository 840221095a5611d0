CONSTANTS
  Terminals = {t1}
  NoTerminal = nobody
  Refs = {r1}
  NoRef = none
  FirstRef = r1
  Jobs = {j1, j2}
  MaxLines = 2
  MaxStamp = 2
  Hooks = TRUE
  Crashes = TRUE
SPECIFICATION Spec
SYMMETRY Symmetry
CHECK_DEADLOCK FALSE
INVARIANTS
  NothingLeftBehind
  NothingBuried
  SettleSawEverything
PROPERTY
  KeepsTranscript
