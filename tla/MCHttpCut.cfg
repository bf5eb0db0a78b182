SPECIFICATION Spec
CONSTANTS
  Char <- SomeChars
  apps_ <- PathPrefixes
  Scripts <- OneRequest
  SplitIn = {"url", "body"}
INVARIANT StringsIntact
CHECK_DEADLOCK FALSE
