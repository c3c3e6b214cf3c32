CONSTANTS
  CR = CR
  LF = LF
  TXT = TXT
  DOT = DOT
  SP = SP
  NUL = NUL
  DATA = DATA
  ECHO = ECHO
  CacheSize = 8
  UIntSize = 65536
  ParaCapacity = 3
  ResultCapacity = 7
  Capacity = 9
  Inputs <- MCInputs
SPECIFICATION Spec
INVARIANTS
  PeekFindsFirst
  HandledInOrder
PROPERTIES
  RegularHandled
  Resynchronises
