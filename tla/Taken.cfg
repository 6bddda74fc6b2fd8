SPECIFICATION CtSpec
CONSTANTS
  Arch = "amd64"
  Threads = {t1}
  Ips = {1, 2, 3, 4, 5}
  Addrs = {}
  Vals = {}
  Regs = {}
  Jumps = {"Cond", "Boring", "Call", "Ret"}
  ULLONG_MOD = 16
  OptionValues = {0, 7}
  WriteOutcomes = {"whole"}
  MaxInstr = 4
  MaxEvents = 24
  Superblocks = {}
  Temps = {1, 2}
  Code <- MCCode
  Programs <- Branching
  Runnable <- Branching
  guest_max_insns = 5
  guest_chase = TRUE
INVARIANTS
  TakenWasTaken
CHECK_DEADLOCK FALSE
