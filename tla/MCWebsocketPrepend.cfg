SPECIFICATION Spec
CONSTANTS
  Scripts <- GoodScripts
  OddScripts = {}
  InitialKeys <- Keys
  SplitHeaders = FALSE
INVARIANT NeverAborts
CHECK_DEADLOCK FALSE
