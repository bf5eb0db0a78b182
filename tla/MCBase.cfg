SPECIFICATION Spec
CONSTANTS
  Producers = {p1, p2, p3}
  Consumers = {c1, c2, c3}
  Capacity = 2
  MaxPuts = 5
  Workers = {w1, w2}
  Clients = {k1, k2}
  maxQueueSize = 1
  MaxTasks = 4
  rollSize = 3
  kRollPerSeconds = 2
  flushEvery = 0
  checkEveryN = 2
  BufferSize = 3
  LineLengths = {1, 3}
  DropAbove = 3
  MaxLines = 4
  MaxClock = 2
  MaxFailures = 1
  FirstYear = 1900
  FirstDay = 2415021
  LastYear = 2500
  ZoneFiles <- TheZoneFiles
INVARIANTS WakeupsSuffice LogKept TimesAgree
PROPERTIES AllServed LogLives
CHECK_DEADLOCK FALSE
