SPECIFICATION Spec
CONSTANTS
  Arch = "amd64"
  MaxRecords = 2
INVARIANTS
  FileReadsBack
  KeyAndBufferFit
CHECK_DEADLOCK FALSE
