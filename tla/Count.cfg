SPECIFICATION Spec
CONSTANTS
  Arch = "amd64"
  Threads = {t1}
  Ips = {4, 8}
  Addrs = {}
  Vals = {}
  Regs = {}
  Jumps = {}
  ULLONG_MOD = 16
  OptionValues = {0, 1, 2, 3}
  WriteOutcomes = {"whole"}
  MaxInstr = 6
  MaxEvents = 0
INVARIANTS
  DocumentedCount
CHECK_DEADLOCK FALSE
