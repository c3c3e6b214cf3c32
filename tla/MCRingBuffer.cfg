CONSTANTS
  a = a
  b = b
  blank = blank
  Capacity = 4
  Data <- MCData
  Blank <- blank
SPECIFICATION Spec
INVARIANTS
  WindowFits
PROPERTY
  ImplementsFifo
