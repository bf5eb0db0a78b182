SPECIFICATION FairSpec
CONSTANTS
  Threads = {t1}
  ThreadCalls = {"send"}
  MaxMessages = 1
  MaxReads = 1
  MaxCloseCalls = 2
PROPERTY DownIsDestroyed
CHECK_DEADLOCK FALSE
