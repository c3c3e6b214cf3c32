CONSTANTS
  Messages <- MCMessages
  Replies <- MCReplies
  Quantities = {1, 2, 3}
  BUFFER_LENGTH = 2
  Leaves = 0
  Patient = TRUE
  MaxTransfers = 3
SPECIFICATION Spec
INVARIANTS
  WritesAreTold
  ReadsAreServed
PROPERTIES
  CallsReturn
CHECK_DEADLOCK FALSE
