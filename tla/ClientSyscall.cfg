SPECIFICATION Spec
CONSTANTS
  USR1 = USR1
  USR2 = USR2
  SIGVGKILL = SIGVGKILL
  Signals <- MCSignals
  SigSets <- MCSigSets
  Actions <- MCActions
  MaxCalls = 2
  MaxSignals = 2
INVARIANTS
  CallTakesEffectOnce
  HandlersRespectMask
PROPERTIES
  SignalIsHandled
  KilledThreadDies
CHECK_DEADLOCK FALSE
