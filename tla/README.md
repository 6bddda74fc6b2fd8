# A TLA+ model of cstracer and ctlite

This directory holds a verification project for the two Valgrind tools this
repository adds, **cstracer** (`src/cstracer`), which writes an instruction trace
for the ChampSim simulator, and **ctlite** (`src/ctlite`), which counts touched
code and data regions, and for the part of VEX that decides what they see,
superblock formation (`src/VEX/priv/guest_generic_bb_to_IR.c`), and for the part of
Valgrind's core they stand on: the big lock, the scheduler of the guest's threads,
and system calls with signals (`src/coregrind`).

Every definition is a translation of the source. `PROJECT.json` maps each
definition to its lines, each run to its question and each property to a mutation
of the code that violates it.

## 1. The system

Valgrind runs a guest program by translating it, one *superblock* at a time, to
VEX's intermediate representation (IR), handing the block to the tool for
instrumentation, and running the result. Threads are serialised by a *big lock* that is
given up only between superblocks: at the end of a time slice, around a system call
that may block, and at the end of a thread. Signals of the guest are caught by the core
and handed to the guest between superblocks or at a system call.

| Part | State | Operations |
|---|---|---|
| cstracer at run time (`ct_main.c:155-643`, `1255`) | `tracing`, `tracing_done`, `instructions`, the static record `inst`, the descriptor `fd`, the trace file | `inc_inst`, `write_inst_to_file`, `zero_inst`, `trace_instr` before each instruction; `trace_load`, `trace_store`, `trace_reg_read`, `trace_reg_write`, `trace_branch_conditional`, `_direct`, `_indirect` for its events; `ct_fini` |
| cstracer's file format (`ct_main.c:486-554`) | the bytes of the file | one record encoded: key, ip, slots in use |
| cstracer's instrumentation (`ct_main.c:645-1253`) | none: IR to IR | `ct_instrument` and the `instrument_*` functions |
| cstracer's register numbers (`ct_main.c:740-927`) | none: offset to number | `offset_to_arm64_register`, `offset_to_x86_64_register` |
| ctlite at run time (`cl_main.c:96-198`, `497`) | `instructions`, `Imap`, `Mmap`, `TBranches`, `UBranches`, `fd`, the file | `trace_instr` (with the heartbeat snapshot), `trace_load`, `trace_store`, `trace_branch_conditional`, `cl_fini` |
| ctlite's instrumentation (`cl_main.c:201-495`) | none | `cl_instrument` |
| VEX's superblocks (`guest_generic_bb_to_IR.c:414-1687`) | the block so far, extents, instruction budget | initial block, follow a jump, follow a conditional branch (the `&&` idiom), finish |
| the big lock (`m_scheduler/ticket-lock-linux.c`, `sema.c`, `sched-lock*.c`) | `head`, `tail`, the futexes and `owner`; or a pipe with a token, `sema_char` and the owner | create, acquire, release |
| the scheduler (`m_scheduler/scheduler.c`, thread parts of `m_syswrap`) | the thread table: `status`, `exitreason`; `running_tid`; the slice | time slice, blocking call, clone, exit, exit_group, execve, fork, fatal signal, reaping, shutdown |
| system calls and signals (`m_syswrap/syswrap-main.c`, `syscall-amd64-linux.S`, `m_signals.c`) | a thread's guest state, masks, signal frames, `syscallInfo`; where the host is in the assembler | call, restart, post-handler, delivery, polling, sigreturn, SIGVGKILL |

How they interact: `bb_to_IR` forms a block; `ct_instrument` copies it and inserts
helper calls; the helpers, run by the instrumented code, fill `inst`; the record of
an instruction is written by the helper call in front of the *next* instruction,
of whatever thread. That last point, a static record shared by all threads, a
window that is opened and closed by a counter in between, a file that is closed
in the middle of the run, fixed numbers of slots, and the distance between guest
instructions and IR statements (guards, inverted branches, speculated
instructions, blocks that are cut) are what makes the tools hard to get right and
hard to test: the repository's only test for each runs `true`.

The tools have no lock of their own. That one static record can serve all threads
rests on the big lock, that `ct_fini` sees the whole trace on the order in which a
process ends, and that the guest behaves under Valgrind as without it on system calls
that are interrupted being done once. These are the promises of the core that
`FairLock`, `Scheduler` and `ClientSyscall` are about.

What correctness means here: the file holds the instructions of the window, in
order, each once; a record holds what its own instruction did; a reader can
separate the records; branches are what the guest's branches were; ctlite's
snapshots partition the run; a superblock does what the guest's code does; one
thread runs at a time and each gets its turn; a process ends once and completely; a
system call takes effect once, whatever signals come.

## 2. The modules

| Module | Models |
|---|---|
| `InstRecord` | `trace_instr_format_t` and the effect of each helper on it, as functions from record to record (to a set of records where the C code has undefined behaviour) |
| `TraceEncode`, `TraceStream` | `write_inst_to_file`'s encoding, a reader of the file (external), and the file as a stream of records |
| `CsTracer` | the tool at run time: helpers called in any order instrumented code can produce, several threads, lost and short writes, memory written by others, exit and kill |
| `TraceWindow` | abstract specification: which instructions a trace has, without flags, counter or record |
| `RegisterMap`, `RegisterOffsets` | the register maps, next to the layout of VEX's guest states |
| `CtInstrument` | `ct_instrument` as a function from the IR of a block to a sequence of steps |
| `CtSuperblock` | `ct_instrument`'s output executed; composes `CtInstrument` and `CsTracer`, and implements `CsTracer` |
| `VexBlock` | `bb_to_IR` as a state machine, one action per extension |
| `CtTrace` | `VexBlock`, `CtInstrument` and `CtSuperblock` composed: from guest code to trace |
| `CtLite` | ctlite at run time |
| `CtLiteBlock` | `cl_instrument`'s output executed with `CtLite`'s helpers |
| `FairLock` | abstract specification: what the scheduler asks of its lock |
| `SchedLockState`, `TicketLock`, `PipeSema`, `SchedLock` | the two locks, one step per shared access or system call, and the choice between them; both implement `FairLock` |
| `Scheduler` | the guest's threads under the big lock, for which it takes `FairLock` |
| `ClientSyscall` | one thread's system calls, interrupted by signals at every point |
| `*MC` | instances for TLC |
| `CsTracerProofs`, `WindowProofs`, `RecordProofs`, `CtLiteProofs`, `VexBlockProofs`, `SchedLockProofs`, `SchedulerProofs`, `ClientSyscallProofs` | theorems |

### State and actions against the code

`CsTracer`'s variables have the names of the statics of `ct_main.c`. An `IMark`
is one action: the four calls inserted in front of it run without interruption.
`inc_inst` comes first, so `write_inst_to_file`, `zero_inst` and `trace_instr`
see the value of `tracing` it leaves (`TracingAfter`); with `--exit-after=yes` it
does not return. The counter is kept modulo `ULLONG_MOD`. `file` is a sequence of
records as handed to `VG_(write)`, with a flag for the ones of which only some
bytes were written. Each event is one action; `phase` says where in a superblock
the running thread is, and `LeaveSB` lets a block be left anywhere, as a side exit
or a fault does. `log` and the fields `n` of `file` are history: what the guest
did, numbered, against which the records are compared.

`trace_reg_write` reads past an array of two. What happens then is undefined;
`OverflowOutcomes` is the set of outcomes seen when the function, taken out of
`ct_main.c`, is compiled with gcc 12: spill into the adjacent array (`-O0`), drop
(`-O1`), overwrite the last slot (`-O2` and `-O3`). The build uses `-O2`
(`Makefile.all.am:100`); the Android scripts use other compilers (gcc 4.9, clang),
which were not tried, so all three are kept.

A statement of `CtInstrument` has an address, a guest-state offset, a guard, as
its kind calls for. A guard is a set of pairs (temporary, value), all of which
hold. `CtSuperblock` executes original statements and helper calls one by one and
keeps in `did` what each instruction really read and wrote, with the accesses that did
not come about: a guard that did not hold (of a `LoadG`, a `StoreG` or a dirty helper, as
for XSAVE), a compare-and-swap or store-conditional that failed.

In `VexBlock` an instruction occupies one address and its IR is an `IMark`, possibly
an `Exit`, and one statement for its effects. A block is a sequence with one entry
for each instruction. This keeps what `bb_to_IR` distinguishes: how a block ends,
where, whether its statements can be guarded, and how long it is. A block is extended
at most once: the `break` for a block that does not end with a conditional branch
(`guest_generic_bb_to_IR.c:1670`) is reached after a jump was followed, too, although
the loop and its three extents provide for more. `prog` ranges over a set `Programs`,
for TLC *all* programs over a small set of instructions, `nochase` over the addresses
that `chase_into_ok` may refuse.

`CtLite` keeps the bucket arithmetic (`(addr >> shift) % size`), counters modulo
`UINT_MOD`, and the five writes of a snapshot, any subset of which may fail.

`CtSuperblockMC` holds the tool for amd64 and for arm64, two instances of one
module over the same variables; `arch` says which of them was built.

In `TicketLock` and `PipeSema` `pc` is where a thread is in `acquire_sched_lock` or
`release_sched_lock`. `futex_wait` compares and sleeps in one step, as the kernel
does; it may return with no wake-up. Memory is sequentially consistent: every access
to `head` and `tail` that matters is an atomic operation or next to a barrier. Locals
that nothing reads any more are 0, so that they do not tell states apart.

In `Scheduler` what a thread does with the lock is one step, up to the point where it
gives the lock back or polls for signals; nobody else reads or writes the thread table
meanwhile. The one store made without the lock, `status = VgTs_Empty` by a thread
that is leaving its stack, is a step of its own (`Die`), and so is each turn of the loop
of `nuke_all_threads_except`, which tests that status and asserts it again: `nuking` is
the slot it has come to. A guest's slice is
`SCHEDULING_QUANTUM` steps, any of which may be a system call, a fault or a creation.
`fork` is followed into the child, which has one thread and a new lock.

In `ClientSyscall` the labels of `syscall-amd64-linux.S` are values of `pc`, since the
core decides from the interrupted instruction pointer what became of a call. The calls
stand for the kinds that differ in how they are made and interrupted: `open` (made
directly, may be refused before and after), `kill` and `rt_sigprocmask` (signals are
polled after them), `accept` (the kernel would restart it), `poll` (it would not),
`rt_sigsuspend` (waits under another mask, from which the pre-handler takes SIGVGKILL; so
do `ppoll` and `pselect6`, with a copy), `epoll_pwait` (waits under another mask, which is
passed on as it is), `rt_sigreturn`. A guest state carries, as history, how often its
call took effect and went through its post-handler, and goes with that history into
the signal frame and back.

## 3. What TLC checks

| Run | Question | States |
|---|---|---|
| `window` | two threads, all of `--skip`, `--trace` in 0..3 and `--exit-after`: are the records those of the window, in order, without gaps; is the descriptor closed once; is `TraceWindow` implemented; has a record the events of its own instruction, with undefined behaviour in `trace_reg_write`, and with five addresses for four load and two store slots, four of them in one cache line, while memory changes | 1,272,882 |
| `stream` | every pattern of slots in use, read back | 25,921 |
| `superblock` | instrumented amd64 and arm64 blocks with every kind of statement; on arm64 with writes to the file that fail or are cut short; refinement of `CsTracer` | 350,964 |
| `trace` | superblocks of all programs of four instructions out of twelve, and programs of three instructions and a return from code to trace | 1,897,426 |
| `lite` | ctlite's snapshots, and its counters against the guest, with wrapping counters and failing writes | 127,914 |
| `locks` | both locks with three threads, two futexes and tickets modulo 4 | 516,364 |
| `scheduler` | three thread slots, slices of one step, two fatal signals, both kinds of lock | 121,145 |
| `syscall` | two calls, two signals with handlers of two kinds, and the end of the process by another thread | 444,054 |

### Fairness

Neither tool promises that anything eventually happens, and a guest may stop at any
point: the runs of the tools and of VEX are of safety, without fairness, and with
`CHECK_DEADLOCK` off (after `ct_fini`, a kill, or at a bound, the system stops). The
runs of the core have liveness properties.

* `SchedLock`: weak fairness of each thread *inside* the lock's functions or with the
  lock. The kernel runs a thread that can run, and every holder releases (`Scheduler`
  shows that a slice ends). Nobody is obliged to ask for the lock, and no progress
  rests on spurious wake-ups.
* `Scheduler`: weak fairness of each thread's own steps and of its death. A blocking
  call may never return, and no signal but SIGVGKILL, which `tkill` has made pending,
  has to arrive. That it arrives is an assumption about the call the thread is in, and
  `killable` below shows the call for which it is false. The liveness properties are for `--fair-sched=yes`; with the pipe the
  kernel decides who reads the token, and the manual promises nothing
  (`manual-core.xml`: "does not guarantee fairness").
* `ClientSyscall`: weak fairness of what the host thread does by itself, which is what
  `ThreadsTakeTurns` gives it, and of the kernel's delivery of a signal that stays
  unblocked. The guest may do nothing and a call may block for ever.

### The properties

* `RecordsInOrder`, `NoGaps`: the file holds the instructions `skip+1, skip+2, ...`, up
  to the one before the last of the window (`count`, below, is about that one); with lost
  writes, some of them, still in order and with their own address.
* `ClosedOnce`, `NeverResumes`: nothing is written once `fd`
  is closed (its number may then belong to the guest), and it is closed once.
* `ImplementsWindow`: the tool implements `TraceWindow`.
* `MemoryIsTheInstructions`, `LinesWereHeld`, `SlotsPacked`,
  `RegistersAreTheInstructions`: a record has the events of its own instruction,
  of no other instruction or thread, and drops one only when slots have run out.
* `FileReadsBack`, `KeyAndBufferFit`: the unary counts in the key are enough to
  separate the records, and the assertion and the buffer of the encoder hold. Both are
  of records that were written whole; behind the piece that a short write leaves a reader
  loses its place.
* `StoredLineIsRecorded`, `AccessesAreRecorded`, `ReadLineIsRecorded`: the helper
  calls are on the right side of the statements they are about, and none is missing.
  `ReadLineIsRecorded` leaves out the load of a statement that also stores: its helper,
  too, comes behind the statement and sees the new line. `AccessesAreRecorded` is one
  direction; a store that failed may be recorded.
* `ImplementsCsTracer`: what is shown of `CsTracer` holds of instrumented code.
* `FollowsGuest`: for every outcome of its conditions a superblock executes the
  guest's instructions in order, with their effects and no others, and leaves to
  where the guest goes. `ExtentsAreTheCode`, `IdiomIsUnique`, `WithinBudget`.
* `CountedFollowGuest`, `NotTakenWasNotTaken`: the same of the trace.
* `SnapshotsAreIntervals`, `OnTheBeat`: ctlite's snapshots partition what was
  counted, at every heartbeat. `AccessesAreCounted`, `BranchesAreCounted`: the
  counters are what the guest did, up to accesses that failed or whose guard did not hold,
  and as far as a branch has an exit: of the two branches VEX merges in the `&&` idiom,
  which these blocks do not have, ctlite sees one.
* `OwnerAsserts`, `NoLostWakeup`, `WaiterIsServed`: the assertions of the locks hold,
  a thread that sleeps while its ticket is served has a waker on the way, and nobody
  waits for ever. `ImplementsFairLock`: both are locks, the ticket lock in order of
  arrival.
* `RunningHasLock`: the thread table, `running_tid` and the lock agree, so no two
  threads are in a tool's helpers. `StackNotShared`: a slot is not reused while its
  old thread is on the stack. `FiniIsLast`: the tool's `fini` runs when nobody else is
  alive, in a thread that was not told to die by another's `exit_group`. `ReapEnds`: a
  process that is told to end does, if SIGVGKILL gets its threads out of the kernel; an
  abort at an assertion counts as an end. `ThreadsTakeTurns`: a thread that waits for the
  lock gets to run.
* `CallTakesEffectOnce`: a call the guest is behind took effect, and went through its
  post-handler, once if the guest sees a result and not at all if it sees an error or
  EINTR; one it will make again has left no trace; also for the states saved in signal
  frames. `HandlersRespectMask`: a handler is entered for a signal that was open, and the
  mask saved for the return is the guest's; it does not look at the mask the handler runs
  with inside `sigsuspend` (`SuspendMaskInHandler`, below). `SignalIsHandled`.
  `KilledThreadDies`: a thread that is told to die does, unless it stays in an
  `epoll_pwait` whose mask has SIGVGKILL.

### The bounds, and why they are enough

`MaxInstr` and `MaxEvents` (`MaxCalls` in `CtLite`) bound behaviours; the
helpers carry nothing but the counter, the flags and one record from an
instruction to the next, so windows of 0 to 3 instructions with instructions
before and behind them have the boundary cases: an empty window, one that closes
before its first record is written, one with records to compare. `window` has
one address more than a record has load slots and one register more
than output slots. Its constraint (`LongOrBusy`) follows behaviours without events for five
instructions of two threads; with up to two events, of any kind and of either thread, for
four instructions, in a window that opens behind the first and closes before the last, so
that an event can leak into it, out of it, into the next record or into another thread's;
with up to four register events for three instructions, and with up to five memory
events for two, of one thread. For the rest there are the proofs, which are for any number
of threads and events.
`ULLONG_MOD` is small but larger than any count reached: wrap-around of a 64-bit
instruction counter is out of reach of the program, too. `UINT_MOD = 4` makes
ctlite's counters wrap within a heartbeat. `TraceStream` needs two records,
since a misread record is noticed at the start of the next. `VexBlock` with four
addresses has both arms of two branches; longer programs are the proofs' part. `trace`
forms blocks of all its programs and runs those in `Runnable`, with all jumps chased.
Threads are interchangeable, and `window` uses that symmetry. For the properties proved
below the bounds do not matter.

`locks` has one thread more than futexes, so two waiters share one, and tickets modulo
4, so they wrap with all three threads in line. `scheduler` has three slots: one thread
that ends the process, one that waits and one that is created or dies. A slice of one
step is the shortest in which a thread does something before it gives up the lock;
longer ones only repeat it. Two fatal signals let a second one arrive while the first
is being acted on. `syscall` has two calls, so that one can be made by a handler that
interrupts the other, and two signals, so that a handler can be interrupted. Each
signal's handler either restarts calls and blocks one of the signals and SIGVGKILL, or
it is one-shot and does not even block itself; the guest's own masks are empty or that
same set.

### Where the code and what is said of it differ

Four runs expect a violation. Each states what a comment or the repository's README says,
and TLC shows a behaviour of the code that differs.

| Run | What happens |
|---|---|
| `taken` | a conditional branch that falls through at the end of its block is recorded as taken (`ct_main.c:185`: "if so, is this taken"): `trace_branch_direct` runs after `trace_branch_conditional` for the same record |
| `vectors` | an access to the last 8 bytes of a YMM register is recorded as the next register: the map starts them at offset 216, as a comment in `libvex_guest_amd64.h:103` has it, the struct at 224. With `Arches = {"arm64"}` the same is seen of the upper half of a Q register. The shift also misnames the fields around them: `IDFLAG`, `FS_CONST`, `SSEROUND` and `GS_CONST` (theorem `RegistersNamed`) |
| `count` | a trace has one record less than `--trace` says (`README.md:101`: "Number of instructions to trace"), or than the program executed if that is less: the call that would write the last record finds `tracing` false, or never comes (`ct_main.c:622`, `1255`) |
| `killable` | a thread that waits in `epoll_pwait` under a mask with SIGVGKILL does not leave the kernel when it is told to die (`syswrap-linux.c:4612`: "We cannot mask VG_SIGVGKILL, as otherwise this thread would not be killable"): its pre-handler does not sanitise the mask (`syswrap-linux.c:2143`). `exit_group` then waits for it in `reap_threads` |

Ten more were met while modelling. They have no run of their own; TLC reports each
when the property is added to the configuration named.

| Property | Configuration | What happens |
|---|---|---|
| `InputRegistersAreRead` | `Window.cfg` | the third output register of an instruction may be recorded as an input (`ct_main.c:327`). This is the `-O0` outcome; at `-O2` gcc 12 overwrites the second output instead |
| `MarkedIsBranch` | `Trace.cfg` | the last instruction of a block that VEX cut is recorded as a branch (`ct_main.c:1237`) |
| `BranchIsMarked` | `Trace.cfg` | a jump that VEX followed is not recorded as a branch (`ct_main.c:1229`) |
| `RecordedWasExecuted` | `Trace.cfg` | an instruction under a false guard of the `&&` idiom is counted and recorded (`ct_main.c:1056`) |
| `SwappedLineIsRecorded` | `Superblock.cfg` | the line recorded as read by a compare-and-swap is the one after the swap (`ct_main.c:1178`) |
| `RecordedStoresTookPlace` | `Superblock.cfg` | a store-conditional or compare-and-swap that failed, or a guarded helper that was not called, is recorded as a store (`ct_main.c:1194`, `1179`, `1152`) |
| `Named # Asserts` | `Vectors.cfg` with `Arches = {"arm64"}`, `Fallback = TRUE` | with VEX's fallback LL/SC the tool aborts at its own assertion (`ct_main.c:788`) |
| `VerboseHalves` | `Trace.cfg` | a superblock with a late verbose instruction exceeds half the limit (`guest_generic_bb_to_IR.c:1149`) |
| `NukeFindsThread` | `Scheduler.cfg` | a thread that `nuke_all_threads_except` found (`scheduler.c:1759`) has emptied its slot when `get_thread_out_of_syscall` asserts that it is there (`scheduler.c:467`) |
| `SuspendMaskInHandler` | `ClientSyscall.cfg` | a handler inside `sigsuspend` does not run with the signals blocked that `sigsuspend` blocked: nothing stores that mask in `tmp_sig_mask`, contrary to `pub_core_threadstate.h:354-361`, where a later remark has "it is not clear if and where this tmp_sig_mask is set", and to what `m_signals.c:2037-2042` makes of it |

The passing properties are stated so that they say what does hold next to these:
`RegistersAreTheInstructions` allows an output among the inputs only with three
outputs, `NoGaps` counts what is written, `NotTakenWasNotTaken` is the direction that
is reliable, `AccessesAreCounted` allows for the failed accesses, `KilledThreadDies`
for `epoll_pwait`.

## 4. What is proved

TLAPS checks the theorems for every value of the constants that satisfies the
assumptions, which are stated in the modules and evaluated by TLC on each run:

* `ArchAssumption`: arm64 or amd64.
* `TracerAssumption`: option values are not negative and below 2^63 (`ULLONG_MOD / 2`),
  fewer instructions than the counter can hold are executed, addresses are not 0
  (0 marks a free slot), register numbers fit a byte and are neither 0 nor the
  program counter, which `instrument_reg_read` and `_write` do not pass on.
* `LiteAssumption`: the heartbeat and the sizes are not 0.
* `LockAssumption`, `CharsAssumption`: finitely many threads, fewer than there are
  tickets (at most 500 against 2^32), at least one futex and one character.
* `SchedulerAssumption`: threads are numbered from 1 (0 is `VG_INVALID_THREADID`).
* `SyscallAssumption`: SIGVGKILL is none of the guest's signals; the masks that calls
  and handlers name are sets of signals.
* `VexAssumption`: code is at addresses other than 0 (which stands for a destination not
  known when the block is formed); programs are functions from addresses to
  instructions; a block may have 1 to 100 instructions, as `LibVEX_Init` asserts.

`SuperblockAssumption` is used by TLC only.

| Module | Theorems | Argument |
|---|---|---|
| `CsTracerProofs` | `TypeCorrect` | each helper maps records to records, by cases on the first free slot; `TypeOK` with `BodyHasEntry`: while a block's body runs there is a last instruction, without which `Last` has no meaning |
| `WindowProofs` | `WindowCorrect`, `OrderCorrect`, `NoGapsCorrect`, `FileOpen`, `FileClosedOnce`, `WindowEndsOnce`, `WindowRefinement` | `WindowInv` below |
| `RecordProofs` | `ContentCorrect`, `MemoryCorrect`, `LinesCorrect`, `PackedCorrect`, `RegistersCorrect` | `ContentInv` below |
| | `RegistersNamed`, `LowLanesNamed`, `NumbersFitRecord`, `AssertionHolds` | by cases on the fields of the guest states; `RegistersNamed` says at exactly which bytes the map names the right register |
| `CtLiteProofs` | `LiteTypeCorrect`, `IntervalsCorrect`, `BeatCorrect` | inductive with typing; arithmetic lemmas on remainders |
| `VexBlockProofs` | `BlockInvariant`, `BlockFollowsGuest`, `ExtentsCorrect`, `BudgetKept`, `IdiomUnique` | `Faithful` blocks and `AndFollows`, below |
| `SchedLockProofs` | `LockInvariant`, `OwnerAssertsHold`, `LockRefinement`, `WakeupCorrect` | `IInv` and `WakeInv`, below |
| `SchedulerProofs` | `SchedulerInvariant`, `RunningCorrect`, `StackCorrect`, `FiniCorrect` | its own `IInv`, below |
| `ClientSyscallProofs` | `SyscallInvariant`, `CallsCorrect`, `MasksCorrect` | its own `IInv`, below |

None of the window's properties is inductive: that the file is in order depends on
which instruction the pending record belongs to, and that on the flags. `WindowInv`
states the flags, the descriptor and the number of closes as functions of the
number of instructions executed, and whose the pending record is. Then a step that
appends to the file appends the last instruction of the window, and
`WindowRefinement` maps every step to a step of `TraceWindow` or a stutter.

The properties of contents speak of records in the file, but these are made in
`inst`. `ContentInv` says the same of the record in the making, against the events
of the last instruction, and that what memory holds now is among what it held
during that instruction. The heart is one lemma per array, that inserting into the
first free slot keeps the slots a prefix of distinct values.

That only one thread is inside the ticket lock does not follow from where the threads
are: it is a matter of numbers that wrap around. `IInv` says that the threads in line
have distinct tickets, less than the length of the line from `head` (`Distance`, modulo
the range of an unsigned), that `tail` is as far from `head` as the line is long, and
that whoever is past the comparison with `head` has that ticket. Since there are fewer
threads than tickets, a new ticket is none of those in line; `head` moves by one and
every distance shrinks by one. For the pipe it says that there is one token, in the
pipe or with the one thread that is past its `read`. `LockRefinement` maps the order of
distances to `FairLock`'s order of arrival.

That no wake-up is lost is about the futexes, of which `IInv` says nothing. A thread
that has read its futex sleeps only if the futex still has that value, so it must be
shown that a release in between changed it, and that 2^32 such changes, after which it
would have the old value again, cannot have happened. `WakeInv` counts: the changes
since the thread read the futex (`Since`), together with the threads that may still
change it once (`Bumpers`), are fewer than there are threads. With that a thread whose
turn has come and who is about to sleep will find the futex changed, or there is a thread
on its way to change it; and one who sleeps has a thread on its way to the wake-up.

In the scheduler `RunningHasLock` is nearly inductive. `StackNotShared` rests on it: a
new thread takes an `Empty` slot, and a slot whose former thread is still on its stack
is a `Zombie`. `FiniIsLast` needs an argument about `reap_threads` (`ReapInv`): everybody
but the thread in there has been told to die, so nobody else gets there; and whoever was
told to die with the process has somebody waiting for it. While the loop of
`nuke_all_threads_except` is on its way this is true of the slots it has passed only
(`NukeInv`), and the thread in the loop has the lock (`OneHolder`), so that no thread is
created behind its back. So the last thread, for which
nobody can be waiting, ended by itself or by a fatal signal.

In system calls `CallTakesEffectOnce` speaks of the guest's states between calls and
in signal frames, but what is saved there is made while a call is in progress. `IInv`
says for every label of the assembler, and for the instruction pointer a handler finds,
how far the call has got: whether it took effect, what RAX holds, whether the result is
in the guest's registers (`InCall`). `fixup` turns each of these into a state in order
(`Settled`), so the frame built from it is in order, and so is what `rt_sigreturn`
restores. It also says which signal can have interrupted the call there, from which
`HandlersRespectMask` follows; frames are a sequence of any length.

For a superblock the invariant that TLC checked is nearly inductive: the difficulty is
that extending a block keeps `FollowsGuest`. What is disassembled, a followed jump and a
branch in either sense included, is `Faithful`: every instruction but the last goes on to
the next, whatever the conditions, and has its effect, and the last one leaves as the
guest does (`DisassembleIs`, `ConcatenateIs`, `SwapIs`). `PrefixFollows` reduces `Follows` to the instructions
executed being the first k of the block; `FaithfulFollows` and, for the `&&` idiom,
`AndFollows` give k and the facts it needs. In `AndFollows` the first condition decides whether k
is the length of the first block or of both; that the removed exit is made up for rests on
the second block falling through to where the first does, which `IdiomArm` derives from
each of the four shapes, and that its effects can be guarded is used for the speculated
ones. The extents and the budget then follow from the lengths. The number of instructions
that `Disassemble` chooses is the least at which it stops, and lemma `Least` (a set of
numbers that is not empty has a least element, from the theorems on well-founded
relations) is the one place where induction is needed.

## 5. What is only model-checked

* That instrumented code implements `CsTracer` (`ImplementsCsTracer`): checked for
  the blocks of the MC module, not for every block.
* That the file reads back: the reader is recursive over the file, and induction
  over data is out of the prover's reach.
* `KeyAndBufferFit`, and the properties of `CtSuperblock`, `CtTrace` and `CtLiteBlock`
  (the theorems on `CtLite` are for helpers called in any order, of which
  `CtLiteBlock`'s calls are a special case). These are about code made of the blocks of
  the MC modules, flattened to a sequence of steps.
* Liveness (`WaiterIsServed`, `ReapEnds`, `ThreadsTakeTurns`, `SignalIsHandled`,
  `KilledThreadDies`), which is out of the prover's reach, as is `ENABLED`.

## 6. What is not modelled

* VEX's front ends, optimiser and back ends: compiler passes whose correctness is
  the meaning of thousands of operations. The shape of branches in the IR is in
  `VexBlock`.
* Self-checks (`create_self_checks_as_needed`), which add an exit in front of a
  block whose code changed.
* In the scheduler: gdbserver, client requests, calls of functions without
  redirection, and the debugging options. Running translations is one step.
* In system calls and signals: architectures other than amd64; the wrappers of single
  system calls, several hundred functions that describe arguments to tools that track
  memory, which these do not; the ring of signals that were taken from the kernel but
  are masked for the thread; synchronous faults; changes of signal actions at run time;
  alternate stacks.
* The translation table (`m_transtab.c`): chaining, eviction and discarding do not
  change which instructions a tool sees. The address-space manager, whose state the
  tools do not use. The models let memory change and blocks be left at any time.
* Option parsing. Negative values and a heartbeat of 0 are excluded by assumption.
* The trace of a program that forks: parent and child share the descriptor, and what
  the file then holds depends on the kernel. (`Scheduler` has the threads and the lock
  of the child.)
* Log messages, and access sizes, which only reach assertions.
* The other Valgrind tools, launcher, gdbserver, debug information, build scripts.

The repository is a fork of all of Valgrind, some 700,000 lines of C. The models cover
nearly all of the two tools it adds (about 1,800 lines) and the parts of VEX and of the
core that decide what the tools see and when; they are a small share of the whole. The
rest is decoders, instruction selectors, system-call wrappers, debug-information
readers and other tools: sequential code with no protocol to check, or code the two
tools do not use.

## 7. Plan

Done, in this order: the record and the helpers; the window and its abstract
specification; the proofs of both; the file; the instrumentation and its
execution; superblock formation; their composition; ctlite; the big lock with its
proofs; the scheduler with its proofs; system calls and signals; the register maps as
theorems; lost wake-ups, system calls and superblock formation as theorems.

What would come next:

1. `CtSuperblock` implements `CsTracer` as a theorem, for every block. The code of
   a block should become a sequence with one entry per statement, so that the
   proof needs no induction over a flattened sequence.
2. The properties of `CtTrace` as theorems, from `BlockFollowsGuest`.
3. The ring of queued signals and synchronous faults in `ClientSyscall`.
4. The translation table: a discarded translation is not run again, also when it was
   chained to.
5. The self-check preamble in `VexBlock`.
6. `CtLiteBlock` on blocks of `VexBlock`, as `CtTrace` does for cstracer.
