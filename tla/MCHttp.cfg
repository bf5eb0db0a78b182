SPECIFICATION FairSpec
CONSTANTS
  Char <- SomeChars
  apps_ <- PathPrefixes
  Scripts <- AllScripts
  SplitIn = {"field", "value"}
INVARIANT RequestsReassembled
INVARIANT ParsesUrl
INVARIANT NothingAfterError
PROPERTY ReadIsHanded
PROPERTY ErrorCloses
CHECK_DEADLOCK FALSE
