------------------------------ MODULE CsTracer ------------------------------
(***************************************************************************)
(* cstracer at run time (src/cstracer/ct_main.c): the static state of the  *)
(* tool and the helpers that instrumented guest code calls.                *)
(*                                                                         *)
(* The guest's threads run superblocks one at a time, under Valgrind's big *)
(* lock: a thread is switched only between superblocks.  A superblock      *)
(* starts with a preamble that ct_instrument copies without instrumenting  *)
(* it; every guest instruction then starts with an IMark, before which the *)
(* tool inserts the calls inc_inst, write_inst_to_file, zero_inst and      *)
(* trace_instr, followed by one helper call per event of the instruction.  *)
(* Which events an instruction has is the guest's choice.  CtSuperblock    *)
(* takes them from ct_instrument instead.                                  *)
(***************************************************************************)
EXTENDS TraceEncode

CONSTANTS
  Threads,        \* guest threads
  Ips,            \* guest instruction addresses
  Addrs,          \* guest data addresses
  Vals,           \* contents of a cache line
  Regs,           \* registers that Get and Put name (offset_to_..._register)
  Jumps,          \* branches of the guest: jump kinds, "Cond" for side exits
  ULLONG_MOD,     \* 2^64, the range of an unsigned long long
  OptionValues,   \* values the user gives --skip and --trace
  WriteOutcomes,  \* what VG_(write) may do: "whole", "short", "none"
  MaxInstr,       \* bound: guest instructions executed
  MaxEvents       \* bound: events of all instructions

Lines == {LineOf(a) : a \in Addrs}

Half == ULLONG_MOD \div 2

ASSUME TracerAssumption ==
  /\ ULLONG_MOD \in Nat /\ ULLONG_MOD = 2 * Half /\ Half > 0
  /\ OptionValues \subseteq 0 .. Half - 1      \* a Long, not negative
  /\ MaxInstr \in Nat /\ MaxInstr < ULLONG_MOD
  /\ MaxEvents \in Nat
  /\ Ips \subseteq Nat \ {0}
  /\ Addrs \subseteq Nat \ {0}
  /\ Regs \subseteq (1 .. 255) \ {REG_PC}      \* instrument_reg_read, _write
  /\ Vals \subseteq Nat
  /\ Jumps \subseteq JumpKind \cup {"Cond"}
  /\ WriteOutcomes \subseteq {"whole", "short", "none"}

VARIABLES
  \* options
  skip, trace_instrs, exit_after_tracing,
  \* static state of ct_main.c
  tracing, tracing_done, instructions, inst,
  \* the trace file: per VG_(write) that wrote bytes, the record it encodes,
  \* whether all its bytes were written, and (history) the number of the
  \* instruction; and the file descriptor
  file, fd,
  \* the guest: memory by cache line, the thread that holds the big lock,
  \* how far it is in its superblock, and whether the process lives
  mem, running, phase, status,
  \* history: the instructions executed with their events, the number of
  \* events, and the calls of VG_(close)(fd)
  log, events, closes

options == <<skip, trace_instrs, exit_after_tracing>>
tool == <<tracing, tracing_done, instructions, inst, file, fd>>
guest == <<mem, running, phase, status>>
history == <<log, events, closes>>
vars == <<options, tool, guest, history>>

Entry ==
  [tid : Threads, ip : Ips,
   loads : SUBSET Addrs, stores : SUBSET Addrs,
   reads : SUBSET Regs, writes : SUBSET Regs,
   setDst : SUBSET UInt8, setSrc : SUBSET UInt8,
   held : SUBSET (Lines \X (Vals \cup {0}))]

Record == RecordType(Addrs, Vals \cup {0})

-----------------------------------------------------------------------------
(* ct_post_clo_init opens the file; the rest is static initialisation.     *)

Init ==
  /\ skip \in OptionValues
  /\ trace_instrs \in OptionValues
  /\ exit_after_tracing \in BOOLEAN
  /\ tracing = FALSE
  /\ tracing_done = FALSE
  /\ instructions = 0
  /\ inst = ZeroInst
  /\ file = <<>>
  /\ fd = "open"
  /\ mem = [l \in Lines |-> 0]
  /\ running \in Threads
  /\ phase = "idle"
  /\ status = "running"
  /\ log = <<>>
  /\ events = 0
  /\ closes = 0

-----------------------------------------------------------------------------
(* The superblock: the scheduler picks a thread, which runs the preamble.  *)

EnterSB(t) ==
  /\ status = "running"
  /\ phase = "idle"
  /\ running' = t
  /\ phase' = "preamble"
  /\ UNCHANGED <<options, tool, mem, status, history>>

\* The superblock is left with no branch helper: a failed self-check in the
\* preamble, a taken side exit, a jump kind that is not instrumented, or a
\* fault in the middle of an instruction.
LeaveSB ==
  /\ status = "running"
  /\ phase \in {"preamble", "body"}
  /\ phase' = "idle"
  /\ UNCHANGED <<options, tool, mem, running, status, history>>

-----------------------------------------------------------------------------
(* The calls before an IMark.  inc_inst comes first, so the three others   *)
(* see the value of tracing that it leaves.                                *)

NextCount == (instructions + 1) % ULLONG_MOD

\* Mutants of Starts: the first skipped instruction is traced; == is >=.
Starts_early == NextCount = skip % ULLONG_MOD
Starts_atleast == NextCount >= (skip + 1) % ULLONG_MOD

Starts == NextCount = (skip + 1) % ULLONG_MOD

\* Mutant of Ends: one instruction too early.
Ends_early == NextCount = (skip + trace_instrs) % ULLONG_MOD

Ends == NextCount = (skip + trace_instrs + 1) % ULLONG_MOD

TracingAfter == ~ Ends /\ (Starts \/ tracing)

Completes == Ends /\ ~ tracing_done

inc_inst ==
  /\ instructions' = NextCount
  /\ tracing' = TracingAfter
  /\ tracing_done' = (tracing_done \/ Ends)
  /\ fd' = IF Completes THEN "closed" ELSE fd
  /\ closes' = IF Completes THEN closes + 1 ELSE closes

\* VG_(write)'s result is ignored.  On a closed descriptor nothing is written.
write_inst_to_file ==
  IF ~ TracingAfter \/ inst.ip = 0 \/ fd' = "closed"
  THEN file' = file
  ELSE \E w \in WriteOutcomes :
         file' = IF w = "none"
                 THEN file
                 ELSE Append(file, [n |-> Len(log), rec |-> inst,
                                    whole |-> (w = "whole")])

\* Mutant of zero_and_trace_instr: zero_inst is not called.
zero_and_trace_instr_stale(ip) ==
  inst' = IF TracingAfter THEN [inst EXCEPT !.ip = ip] ELSE inst

\* zero_inst and trace_instr
zero_and_trace_instr(ip) ==
  inst' = IF TracingAfter THEN [ZeroInst EXCEPT !.ip = ip] ELSE inst

NewEntry(t, ip) ==
  [tid |-> t, ip |-> ip, loads |-> {}, stores |-> {}, reads |-> {},
   writes |-> {}, setDst |-> {}, setSrc |-> {},
   held |-> {<<l, mem[l]>> : l \in Lines}]

IMark(ip) ==
  /\ status = "running"
  /\ phase \in {"preamble", "body"}
  /\ Len(log) < MaxInstr
  /\ inc_inst
  /\ log' = Append(log, NewEntry(running, ip))
  /\ phase' = "body"
  /\ IF Completes /\ exit_after_tracing
     THEN /\ status' = "exited"                   \* VG_(exit)(0)
          /\ UNCHANGED <<file, inst>>
     ELSE /\ status' = status
          /\ write_inst_to_file
          /\ zero_and_trace_instr(ip)
  /\ UNCHANGED <<options, mem, running, events>>

-----------------------------------------------------------------------------
(* The events of the current instruction.                                  *)

Event ==
  /\ status = "running"
  /\ phase = "body"
  /\ events < MaxEvents
  /\ events' = events + 1
  /\ UNCHANGED <<options, tracing, tracing_done, instructions, file, fd,
                 running, status, closes>>

\* While tracing, an event is noted in the entry of the last instruction.
Last == log[Len(log)]

Note(e) == log' = IF tracing THEN [log EXCEPT ![Len(log)] = e] ELSE log

trace_load(a) ==
  /\ Event
  /\ inst' = IF tracing THEN AddLoad(inst, a, mem[LineOf(a)]) ELSE inst
  /\ Note([Last EXCEPT !.loads = @ \cup {a}])
  /\ UNCHANGED <<mem, phase>>

\* Called behind the guest's store, which is a MemoryWrite (or, when a
\* conditional store fails, none).
trace_store(a) ==
  /\ Event
  /\ inst' = IF tracing THEN AddStore(inst, a, mem[LineOf(a)]) ELSE inst
  /\ Note([Last EXCEPT !.stores = @ \cup {a}])
  /\ UNCHANGED <<mem, phase>>

trace_reg_read(r) ==
  /\ Event
  /\ inst' = IF tracing THEN AddRegRead(inst, r) ELSE inst
  /\ Note([Last EXCEPT !.reads = @ \cup {r}])
  /\ UNCHANGED <<mem, phase>>

trace_reg_write(r) ==
  /\ Event
  /\ inst' \in IF tracing THEN AddRegWrite(inst, r) ELSE {inst}
  /\ Note([Last EXCEPT !.writes = @ \cup {r}])
  /\ UNCHANGED <<mem, phase>>

NonZero(regs) == {regs[i] : i \in DOMAIN regs} \ {0}

NoteBranch(dst, src) ==
  Note([Last EXCEPT !.setDst = @ \cup NonZero(dst),
                    !.setSrc = @ \cup NonZero(src)])

\* The call before a side exit; LeaveSB or the next statement follows.
trace_branch_conditional(ci, guard) ==
  /\ Event
  /\ inst' = IF tracing THEN BranchConditional(inst, ci, guard) ELSE inst
  /\ NoteBranch(<<REG_PC, 0>>, <<REG_PC, REG_FLAGS, 0, 0>>)
  /\ UNCHANGED <<mem, phase>>

\* The calls at the end of the superblock.
trace_branch_direct(jk) ==
  /\ Event
  /\ inst' = IF tracing THEN BranchDirect(inst, jk) ELSE inst
  /\ NoteBranch(DirectDst(jk), DirectSrc(jk))
  /\ phase' = "idle"
  /\ UNCHANGED mem

trace_branch_indirect(jk) ==
  /\ Event
  /\ inst' = IF tracing THEN BranchIndirect(inst, jk) ELSE inst
  /\ NoteBranch(IndirectDst(jk), IndirectSrc(jk))
  /\ phase' = "idle"
  /\ UNCHANGED mem

\* Memory changes while an instruction executes: the instruction's own store,
\* another thread's system call that completes in the kernel, or another
\* process that writes a shared page.
MemoryWrite(l, v) ==
  /\ Event
  /\ mem' = [mem EXCEPT ![l] = v]
  /\ Note([Last EXCEPT !.held = @ \cup {<<l, v>>}])
  /\ UNCHANGED <<inst, phase>>

-----------------------------------------------------------------------------
(* The end of the process.                                                 *)

\* Mutant of ct_fini: closes without looking at tracing_done.
ct_fini_always ==
  /\ status = "running"
  /\ phase = "idle"
  /\ status' = "exited"
  /\ fd' = "closed"
  /\ closes' = closes + 1
  /\ UNCHANGED <<options, tracing, tracing_done, instructions, inst, file,
                 mem, running, phase, log, events>>

ct_fini ==
  /\ status = "running"
  /\ phase = "idle"
  /\ status' = "exited"
  /\ fd' = IF tracing_done THEN fd ELSE "closed"
  /\ closes' = IF tracing_done THEN closes ELSE closes + 1
  /\ UNCHANGED <<options, tracing, tracing_done, instructions, inst, file,
                 mem, running, phase, log, events>>

\* A fatal signal that Valgrind cannot catch.
Kill ==
  /\ status = "running"
  /\ status' = "killed"
  /\ UNCHANGED <<options, tool, mem, running, phase, history>>

-----------------------------------------------------------------------------

Memory ==
  \/ \E a \in Addrs : trace_load(a)
  \/ \E a \in Addrs : trace_store(a)
  \/ \E l \in Lines, v \in Vals : MemoryWrite(l, v)

Registers ==
  \/ \E r \in Regs : trace_reg_read(r)
  \/ \E r \in Regs : trace_reg_write(r)

Branches ==
  \/ /\ "Cond" \in Jumps
     /\ \E ci, guard \in BOOLEAN : trace_branch_conditional(ci, guard)
  \/ \E jk \in Jumps \cap JumpKind : trace_branch_direct(jk)
  \/ \E jk \in Jumps \cap JumpKind : trace_branch_indirect(jk)

Next ==
  \/ \E t \in Threads : EnterSB(t)
  \/ \E ip \in Ips : IMark(ip)
  \/ Memory
  \/ Registers
  \/ Branches
  \/ LeaveSB
  \/ ct_fini
  \/ Kill

Spec == Init /\ [][Next]_vars

-----------------------------------------------------------------------------
(* Properties.                                                             *)

Window ==
  INSTANCE TraceWindow WITH
    Options <- OptionValues,
    MayLose <- WriteOutcomes # {"whole"},
    first <- skip,
    count <- trace_instrs,
    executed <- Len(log),
    trace <- [k \in 1 .. Len(file) |-> file[k].n],
    open <- (fd = "open")

\* The tool implements TraceWindow: however its counter, its two flags, the
\* descriptor and the record in the making change, the numbers in the file
\* and the state of the file change as the abstract window says.
ImplementsWindow == Window!Spec

\* Type correctness of the tool's state, the guest's and the history.
TypeOK ==
  /\ skip \in OptionValues /\ trace_instrs \in OptionValues
  /\ exit_after_tracing \in BOOLEAN
  /\ tracing \in BOOLEAN /\ tracing_done \in BOOLEAN
  /\ instructions \in 0 .. ULLONG_MOD - 1
  /\ inst \in Record
  /\ file \in Seq([n : Nat, rec : Record, whole : BOOLEAN])
  /\ fd \in {"open", "closed"}
  /\ mem \in [Lines -> Vals \cup {0}]
  /\ running \in Threads
  /\ phase \in {"idle", "preamble", "body"}
  /\ status \in {"running", "exited", "killed"}
  /\ log \in Seq(Entry)
  /\ events \in Nat
  /\ closes \in Nat

\* The records in the file belong to instructions of the window, in the
\* order of execution, each at most once and each with the address of its
\* instruction: whatever the threads' interleaving, a failed or short write,
\* and wherever the process is killed.
RecordsInOrder ==
  \A k \in 1 .. Len(file) :
    /\ skip < file[k].n /\ file[k].n < skip + trace_instrs
    /\ file[k].n < Len(log)
    /\ file[k].rec.ip = log[file[k].n].ip
    /\ \A j \in 1 .. k - 1 : file[j].n < file[k].n

\* When every write succeeds no record between the first and the last is
\* missing: the file holds the instructions skip + 1, skip + 2, ... up to the
\* one before the current, or before the last of the window, as inc_inst ends
\* the window before write_inst_to_file runs for that one.  The count that is
\* documented is DocumentedCount, which does not hold.
NoGaps ==
  WriteOutcomes = {"whole"} =>
    LET last == IF Len(log) < skip + trace_instrs
                THEN Len(log) ELSE skip + trace_instrs
    IN  /\ Len(file) = IF last - skip - 1 > 0 THEN last - skip - 1 ELSE 0
        /\ \A k \in 1 .. Len(file) : file[k].n = skip + k

\* The helpers never run with a closed descriptor: once VG_(close)(fd) was
\* called, fd may be a file of the guest.
TracingNeedsFile == status = "running" /\ tracing => fd = "open"

\* The descriptor is closed once, by inc_inst at the end of the window or by
\* ct_fini, whichever comes first, and it is closed when the process exits.
ClosedOnce ==
  /\ closes = IF fd = "closed" THEN 1 ELSE 0
  /\ status = "exited" => fd = "closed"

\* Once the window has ended tracing never resumes and the file is final.
NeverResumes == [][tracing_done => ~ tracing' /\ file' = file]_vars

MemoryMatches(rec, e) ==
  /\ \A i \in Src : rec.source_memory[i] # 0 => rec.source_memory[i] \in e.loads
  /\ \A a \in e.loads : Holds(rec.source_memory, a) \/ Full(rec.source_memory)
  /\ \A i \in Dst :
       rec.destination_memory[i] # 0 => rec.destination_memory[i] \in e.stores
  /\ \A a \in e.stores :
       Holds(rec.destination_memory, a) \/ Full(rec.destination_memory)

\* A record names only addresses its own instruction accessed, and it leaves
\* one out only when all slots of that kind are taken: no event of another
\* instruction or thread leaks in, none is lost before the slots run out.
MemoryIsTheInstructions ==
  \A k \in 1 .. Len(file) : MemoryMatches(file[k].rec, log[file[k].n])

LinesMatch(rec, e) ==
  /\ \A i \in Src : rec.source_memory[i] # 0 =>
       <<LineOf(rec.source_memory[i]), rec.s_value[i]>> \in e.held
  /\ \A i \in Dst : rec.destination_memory[i] # 0 =>
       <<LineOf(rec.destination_memory[i]), rec.d_value[i]>> \in e.held

\* The cache line recorded with an address is one that memory held at some
\* moment of that instruction, also when the kernel or another process
\* writes the line in between.
LinesWereHeld ==
  \A k \in 1 .. Len(file) : LinesMatch(file[k].rec, log[file[k].n])

Packed(addrs, valid) ==
  /\ \A i \in DOMAIN addrs : valid[i] = 1 <=> addrs[i] # 0
  /\ \A i, j \in DOMAIN addrs :
       i < j /\ addrs[j] # 0 => addrs[i] # 0 /\ addrs[i] # addrs[j]

\* Memory slots in use are a prefix of the array, hold distinct addresses,
\* and are exactly the ones write_inst_to_file finds valid.
SlotsPacked ==
  \A k \in 1 .. Len(file) :
    /\ Packed(file[k].rec.source_memory, file[k].rec.s_valid)
    /\ Packed(file[k].rec.destination_memory, file[k].rec.d_valid)

\* More than two output registers, those of a branch helper included.
TooManyWrites(e) ==
  \E r, s, t \in e.writes \cup e.setDst : r # s /\ s # t /\ r # t

RegistersMatch(rec, e) ==
  /\ \A i \in Dst : rec.destination_registers[i] # 0 =>
       rec.destination_registers[i] \in e.writes \cup e.setDst
  /\ \A i \in Src : rec.source_registers[i] # 0 =>
       \/ rec.source_registers[i] \in e.reads \cup e.setSrc
       \/ rec.source_registers[i] \in e.writes /\ TooManyWrites(e)
  /\ \A r \in e.writes :
       Holds(rec.destination_registers, r) \/ TooManyWrites(e) \/ e.setDst # {}
  /\ \A r \in e.reads :
       Holds(rec.source_registers, r) \/ Full(rec.source_registers) \/ e.setSrc # {}

\* A record names only registers its own instruction accesses or a branch
\* helper sets.  A register is left out only when its slots are full or a
\* branch helper assigned slots; an output register can only show up among
\* the input registers when the instruction has more than two outputs.
RegistersAreTheInstructions ==
  \A k \in 1 .. Len(file) : RegistersMatch(file[k].rec, log[file[k].n])

\* The comments of trace_instr_format_t (ct_main.c:187-188) call the two
\* arrays "output registers" and "input registers": an input register that
\* the instruction only writes would contradict them.
InputRegistersAreRead ==
  \A k \in 1 .. Len(file) : \A i \in Src :
    LET e == log[file[k].n]
    IN  file[k].rec.source_registers[i] \in {0} \cup e.reads \cup e.setSrc

\* "--trace=<num> Number of instructions to trace" (README.md:101).  When the
\* process has exited, that many instructions (or, if the program was shorter,
\* the ones it executed after the skipped ones) are in the file.  It does not
\* hold: the last one's record is still in inst, and is dropped.
DocumentedCount ==
  status = "exited" /\ WriteOutcomes = {"whole"} =>
    LET available == IF Len(log) > skip THEN Len(log) - skip ELSE 0
    IN  Len(file) = IF available < trace_instrs THEN available ELSE trace_instrs

=============================================================================
