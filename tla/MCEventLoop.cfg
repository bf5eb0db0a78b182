SPECIFICATION FairSpec
CONSTANTS
  Threads = {t1, t2}
  Loop = loop
  MaxFunctors = 4
INVARIANT NoLostWakeup
PROPERTY RunsInOrder
PROPERTY FunctorsRun
PROPERTY QuitStops
