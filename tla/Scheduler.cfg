SPECIFICATION Spec
CONSTANTS
  Tids = {1, 2, 3}
  SCHEDULING_QUANTUM = 1
  MaxSignals = 2
INVARIANTS
  RunningHasLock
  StackNotShared
  FiniIsLast
PROPERTIES
  ReapEnds
  ThreadsTakeTurns
