CONSTANTS
  UartReceivers = {uart}
  IrReceivers = {ir}
  NoReceiver = NoReceiver
  forward = forward
  unknown = unknown
  Keys <- MCKeys
  REPEAT = REPEAT
  FOREIGN = FOREIGN
  UartId = 1
  ReceiverSlots = 3
  ListCapacity = 3
  MaxArrivals = 3
SPECIFICATION Spec
INVARIANTS
  InOrder
  RepeatsLastKey
PROPERTY
  EventuallyExecuted
