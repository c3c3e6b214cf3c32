CONSTANTS
  HEADER = 4
  EMPTY_CRC = 5
  FOOTER_0 = 2
  FOOTER_1 = 1
  DEVICE_BROADCAST = 3
  MAX_PARAMETER_LENGTH = 5
  Byte <- MCByte
  Capacity = 16
  Word = 32
  SerialSize = 2
  Strings <- MCStrings
  Values <- MCValues
  TEXT = 0
  VALUE = 1
  NoiseBytes = {4, 6}
  MaxSent = 2
  MaxNoise = 4
  MaxSpoilt = 1
  MaxBoth = 1
SPECIFICATION Spec
INVARIANTS
  NeverStuck
  AllReturned
PROPERTIES
  ReturnsWhatArrived
  EventuallyReturned
