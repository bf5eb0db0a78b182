SPECIFICATION StreamsSpec
CONSTANTS
  kCheapPrepend = 4
  kInitialSize = 1
  ExtraBuf = 2
  Bytes = {1, 2}
  MaxReadable = 3
  Tag <- TheTag
  kMaxMessageLen = 8
  Messages <- TheMessages
  Unparsable <- TheUnparsable
  Refused <- TheRefused
  MaxFrames = 2
  Callers = {t1, t2, t3}
  MaxCalls = 1
  Visits <- TheVisits
INVARIANTS BufferServes CodecDelivers CallsKept RequestsServed
PROPERTY StreamsServed
CHECK_DEADLOCK FALSE
