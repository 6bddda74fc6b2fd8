SPECIFICATION MCSpec
CONSTANTS
  Threads = {t1}
  OptionValues = {0, 1, 3}
  MaxInstr = 3
INVARIANTS
  RecordsInOrder
  StoredLineIsRecorded
  AccessesAreRecorded
  ReadLineIsRecorded
PROPERTIES
  ImplementsCsTracer
CHECK_DEADLOCK FALSE
