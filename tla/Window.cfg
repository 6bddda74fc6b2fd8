SPECIFICATION Spec
CONSTANTS
  Arch = "amd64"
  Threads = {t1, t2}
  Ips = {4, 8}
  Addrs = {64, 72, 80, 88, 128}
  Vals = {1}
  Regs = {6, 9, 10}
  Jumps = {"Cond", "Boring"}
  ULLONG_MOD = 16
  OptionValues = {0, 1, 2, 3}
  WriteOutcomes = {"whole"}
  MaxInstr = 5
  MaxEvents = 5
SYMMETRY ThreadSymmetry
CONSTRAINT LongOrBusy
INVARIANTS
  TypeOK
  RecordsInOrder
  NoGaps
  ClosedOnce
  RegistersAreTheInstructions
  MemoryIsTheInstructions
  LinesWereHeld
  SlotsPacked
PROPERTIES
  ImplementsWindow
  NeverResumes
CHECK_DEADLOCK FALSE
