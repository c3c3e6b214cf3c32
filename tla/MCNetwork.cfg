CONSTANTS
  CR = CR
  LF = LF
  TXT = TXT
  CacheSize = 12
  UIntSize = 65536
  ParaCapacity = 10
  ResultCapacity = 7
  ServicesOf <- MCServicesOf
  Hears <- MCHears
  Asks <- MCAsks
  MaxAsks = 2
  MaxFaults = 1
SPECIFICATION ExplicitSpec
INVARIANTS
  ExecutedOnce
  ReturnsToAsker
  TrafficBounded
PROPERTIES
  Answered
CHECK_DEADLOCK FALSE
