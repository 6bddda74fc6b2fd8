SPECIFICATION SchedSpec
CONSTANTS
  Threads = {t1, t2, t3}
  None = None
  TL_FUTEX_COUNT = 2
  UINT_MOD = 4
  Chars = 3
INVARIANTS
  OwnerAsserts
  NoLostWakeup
PROPERTIES
  ImplementsFairLock
  WaiterIsServed
