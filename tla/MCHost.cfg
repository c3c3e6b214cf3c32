CONSTANTS
  CR = CR
  LF = LF
  TXT = TXT
  CacheSize = 8
  UIntSize = 65536
  ParaCapacity = 10
  ResultCapacity = 7
  MyAddress = 2
  Services <- MCServices
  Messages <- MCMessages
SPECIFICATION Spec
INVARIANTS
  TypeOK
  OverrideLive
  RoutingMatchesCalls
  ParametersIntact
  AnswersExactly
PROPERTIES
  ImplementsDispatcher
  ResultDispatched
