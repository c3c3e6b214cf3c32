CONSTANTS
  Commands <- MCCommands
  Distortions <- MCDistortions
  Silences = {60, 120}
  TimerSize = 240
  MaxSignals = 2
SPECIFICATION Spec
INVARIANTS
  HeardWasSent
  ClearIsHeard
PROPERTIES
  ListensAgain
