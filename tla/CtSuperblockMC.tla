--------------------------- MODULE CtSuperblockMC ---------------------------
(***************************************************************************)
(* CtSuperblock for amd64 and for arm64: an instance of the tool for each, *)
(* with superblocks after VEX's translations of the guest instructions     *)
(* named.  X and Y are in one cache line, Z is in another.                 *)
(***************************************************************************)
EXTENDS Sequences

CONSTANTS Threads, OptionValues, MaxInstr

VARIABLES
  arch,                  \* the platform the tool is built for
  skip, trace_instrs, exit_after_tracing, tracing, tracing_done, instructions,
  inst, file, fd, mem, running, phase, status, log, events, closes,
  code, pc, temps, did

X == 64
Y == 72
Z == 128

At4 == [tag |-> "IMark", addr |-> 4, len |-> 2]
At8 == [tag |-> "IMark", addr |-> 8, len |-> 2]
Get(offset) == [tag |-> "Get", offset |-> offset]
Put(offset) == [tag |-> "Put", offset |-> offset]
Load(a) == [tag |-> "Load", addr |-> a]
Store(a) == [tag |-> "Store", addr |-> a]
LoadG(a) == [tag |-> "LoadG", addr |-> a, guard |-> {<<1, TRUE>>}]
StoreG(a) == [tag |-> "StoreG", addr |-> a, guard |-> {<<1, TRUE>>}]
Dirty(mFx, a) == [tag |-> "Dirty", mFx |-> mFx, addr |-> a, guard |-> {}]
DirtyG(mFx, a) == [tag |-> "Dirty", mFx |-> mFx, addr |-> a, guard |-> {<<1, TRUE>>}]
CAS(a) == [tag |-> "CAS", addr |-> a]
LLSC(a, sc) == [tag |-> "LLSC", addr |-> a, sc |-> sc]
ExitTo(dst, jk) == [tag |-> "Exit", dst |-> dst, jk |-> jk, guard |-> {<<1, TRUE>>}]
Only(tag) == [tag |-> tag]
Block(stmts, next, jk) == [stmts |-> stmts, next |-> next, jk |-> jk]

Plain ==
  { \* add %rax, X; mov %rax, Y
    Block(<<At4, Get(16), Load(X), Put(144), Store(X), Put(184), At8, Store(Y)>>,
          10, "Boring"),
    \* two stores to one line and one to another (a pair, then a push)
    Block(<<At4, Store(X), Store(Y), Only("AbiHint"), At8, Load(Z), Store(Z)>>, 0, "Ret"),
    \* a self-check before the first instruction; masked move; system call
    Block(<<ExitTo(4, "InvalICache"), At4, LoadG(Y), StoreG(X), Only("NoOp"), At8, Put(16)>>,
          10, "Sys_syscall"),
    \* xsave, fxrstor and instructions that touch no memory or register slot
    Block(<<At4, DirtyG("Write", X), Only("PutI"), Only("GetI"), At8, Dirty("Read", X),
            Dirty("None", 0), Only("MBE"), Only("WrTmp")>>, 10, "Call"),
    \* a helper that modifies memory (ct_instrument provides for it, no front
    \* end of VEX has one)
    Block(<<At4, DirtyG("Modify", X)>>, 6, "Boring"),
    \* lock cmpxchg; a masked load and a load of one address
    Block(<<At4, CAS(X), At8, LoadG(Z), Load(Z), StoreG(Z)>>, 10, "Boring"),
    \* ldxr, and a branch
    Block(<<At4, LLSC(X, FALSE), Put(24), At8, ExitTo(10, "Boring")>>, 4, "Boring") }

\* arm64: a pair of stores that are exclusive or not, a branch and link, and a
\* ldxr under --sim-hints=fallback-llsc, which puts guest_LLSC_DATA.
Arm64 ==
  { Block(<<At4, Get(16), Store(X), Store(Y), Put(264), Put(272), At8, LLSC(X, TRUE), Put(24)>>,
          10, "Boring"),
    Block(<<At4, Get(320), StoreG(Z), At8, Put(256), ExitTo(4, "Boring")>>, 0, "Call"),
    Block(<<At4, Load(X), Put(912), Put(904), Put(896), Put(16)>>, 6, "Boring") }

-----------------------------------------------------------------------------

AllJumps == {"Cond", "Boring", "Call", "Ret"}

Amd64Tool ==
  INSTANCE CtSuperblock WITH
    Arch <- "amd64", Superblocks <- Plain, Temps <- {1}, Ips <- {4, 8},
    Addrs <- {X, Y, Z}, Vals <- {1, 2}, Regs <- {9, 10, 25}, Jumps <- AllJumps,
    ULLONG_MOD <- 16, WriteOutcomes <- {"whole"}, MaxEvents <- 24

\* The tool built for arm64, on a file system where writes may fail.
Arm64Tool ==
  INSTANCE CtSuperblock WITH
    Arch <- "arm64", Superblocks <- Arm64, Temps <- {1}, Ips <- {4, 8},
    Addrs <- {X, Y, Z}, Vals <- {1, 2}, Regs <- {1, 2, 31, 32, 35}, Jumps <- AllJumps,
    ULLONG_MOD <- 16, WriteOutcomes <- {"whole", "short", "none"}, MaxEvents <- 24

\* The superblocks are of the form that CtSuperblock assumes.
ASSUME SuperblocksAreFormed ==
  /\ \A sb \in Plain : Amd64Tool!IsSuperblock(sb)
  /\ \A sb \in Arm64 : Arm64Tool!IsSuperblock(sb)

MCInit ==
  \/ arch = "amd64" /\ Amd64Tool!SBInit
  \/ arch = "arm64" /\ Arm64Tool!SBInit

MCNext ==
  /\ \/ arch = "amd64" /\ Amd64Tool!SBNext
     \/ arch = "arm64" /\ Arm64Tool!SBNext
  /\ UNCHANGED arch

MCSpec == MCInit /\ [][MCNext]_<<arch, Amd64Tool!vars, Amd64Tool!block>>

\* Instrumented superblocks are an instance of the tool's run-time model on
\* each platform: what CsTracer says of arbitrary sequences of helper calls
\* holds of the sequences ct_instrument makes.
ImplementsCsTracer ==
  /\ Amd64Tool!Init
  /\ [][\/ arch = "amd64" /\ Amd64Tool!Next
        \/ arch = "arm64" /\ Arm64Tool!Next]_(Amd64Tool!vars)

\* The properties of CsTracer and CtSuperblock, which depend on the platform
\* in nothing.

\* Records are in order, each instruction has at most one, with its address:
\* also when the result of a write that failed or was cut short is ignored.
RecordsInOrder == Amd64Tool!RecordsInOrder

\* The line recorded for a store is the one the store left: the helper's call
\* is behind the store and in front of the guest's next one.
StoredLineIsRecorded == Amd64Tool!StoredLineIsRecorded

\* Every access is in its instruction's record, or the slots are full: helpers
\* of stores are called under the guards of the stores.
AccessesAreRecorded == Amd64Tool!AccessesAreRecorded

\* The line recorded for a load is the one the instruction read, unless the
\* statement that read it also stored.
ReadLineIsRecorded == Amd64Tool!ReadLineIsRecorded

\* A compare-and-swap's line is the one it read.  It does not hold of one that
\* stored, and no configuration checks it.
SwappedLineIsRecorded == Amd64Tool!SwappedLineIsRecorded

\* A recorded store took place.  It does not hold of a store-conditional that
\* failed, and no configuration checks it.
RecordedStoresTookPlace == Amd64Tool!RecordedStoresTookPlace

=============================================================================
