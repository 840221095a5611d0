CONSTANTS
  Terminals = {t1}
  NoTerminal = nobody
  Refs = {r1, r2}
  NoRef = none
  FirstRef = r1
  Jobs = {j1}
  MaxLines = 1
  MaxStamp = 1
  Hooks = TRUE
  Crashes = FALSE
SPECIFICATION Spec

CHECK_DEADLOCK FALSE
INVARIANTS
  TypeOK
  SettleSawEverything
