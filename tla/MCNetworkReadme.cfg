CONSTANTS
  CR = CR
  LF = LF
  TXT = TXT
  CacheSize = 12
  UIntSize = 65536
  ParaCapacity = 10
  ResultCapacity = 7
  ServicesOf <- ReadmeServicesOf
  Hears <- ReadmeHears
  Asks <- ReadmeAsks
  MaxAsks = 2
  MaxFaults = 0
SPECIFICATION Spec
PROPERTY
  Answered
CHECK_DEADLOCK FALSE
