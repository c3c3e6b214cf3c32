CONSTANTS
  CR = CR
  LF = LF
  text = text
  address = address
  CacheSize = 4
  Prefix <- MCPrefix
  Tokens <- MCTokens
  FlushInterval = 2
  Clock = 8
  MaxWritten = 5
  MaxSince = 9
SPECIFICATION Spec
INVARIANTS
  NothingLost
  FrameEndSendsPacket
PROPERTY
  Paced
