SPECIFICATION NetSpec
CONSTANTS
  Addresses = {a1, a2}
  Threads = {t1}
  Intervals = {0, 1, 2}
  Delays = {0, 2}
  MaxCreated = 2
  MaxTime = 4
  Retry = TRUE
  StopAnywhere = FALSE
  MaxConnects = 1
  MaxFailures = 7
  IoLoops = {l1, l2}
  Conns = {c1, c2, c3, c4}
  FdLimit = 3
  Channels <- TheChannels
  Events = {r, w}
INVARIANTS TimersKept ClientConsistent ServerConsistent PollersAgree
PROPERTIES CalledAsDue ConnectsAsAsked ThreadEnds ServerDrains
CHECK_DEADLOCK FALSE
