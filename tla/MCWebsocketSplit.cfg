SPECIFICATION Spec
CONSTANTS
  Scripts <- GoodScripts
  OddScripts = {}
  InitialKeys <- Keys
  SplitHeaders = TRUE
INVARIANT InSync
CHECK_DEADLOCK FALSE
