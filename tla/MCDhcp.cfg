CONSTANTS
  a = a
  b = b
  mask = mask
  gateway = gateway
  Servers <- MCServers
  Options <- MCOptions
  Gives <- MCGives
  Misread = Misread
  NoAddress = NoAddress
  Foreign = Foreign
  ResponseTimeout = 1
  Timeout = 18
  Latency = 1
  MaxFaults = 2
SPECIFICATION Spec
INVARIANTS
  LeaseIsGranted
  Perseveres
PROPERTIES
  Returns
CHECK_DEADLOCK FALSE
