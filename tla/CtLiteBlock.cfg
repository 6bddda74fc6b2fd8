SPECIFICATION LiteSpec
CONSTANTS
  IMAP_SIZE = 2
  MMAP_SIZE = 2
  IWindow = 4
  MWindow = 2
  heartbeat = 3
  UINT_MOD = 4
  Ips = {0, 4, 8}
  Addrs = {0, 2}
  Kept <- MayFail
  MaxCalls = 12
  Arch = "amd64"
  Temps = {1, 2}
  Superblocks <- Blocks
INVARIANTS
  SnapshotsAreIntervals
  OnTheBeat
  AccessesAreCounted
  BranchesAreCounted
CHECK_DEADLOCK FALSE
