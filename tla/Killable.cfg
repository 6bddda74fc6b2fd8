SPECIFICATION Spec
CONSTANTS
  USR1 = USR1
  USR2 = USR2
  SIGVGKILL = SIGVGKILL
  Signals <- MCSignals
  SigSets <- MCSigSets
  Actions <- MCActions
  MaxCalls = 1
  MaxSignals = 1
PROPERTIES
  Killable
CHECK_DEADLOCK FALSE
