SPECIFICATION AllSpec
CONSTANTS
  Scripts <- GoodScripts
  OddScripts <- StrangeScripts
  InitialKeys <- Keys
  SplitHeaders = FALSE
  Lengths = {0, 1, 5, 125, 126, 127, 255, 256, 300}
INVARIANT StreamUnderstood
INVARIANT RoundTrip
PROPERTY ErrorCloses
PROPERTY OnDataEnds
CHECK_DEADLOCK FALSE
