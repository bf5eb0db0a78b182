SPECIFICATION AllSpec
CONSTANTS
  Threads = {t1, t2}
  ThreadCalls = {"send"}
  MaxMessages = 3
  MaxReads = 2
  MaxCloseCalls = 2
  AnyMessages = 2
  AnyReads = 1
INVARIANTS AssertsHold StreamInOrder NoDanglingFunctor
PROPERTIES ShutdownFlushes DisconnectingEnds AnyCallsSafe
CHECK_DEADLOCK FALSE
