----------------------------- MODULE InstRecord -----------------------------
(***************************************************************************)
(* The record cstracer builds for one guest instruction                    *)
(* (trace_instr_format_t, the static `inst` of ct_main.c) and what each    *)
(* run-time helper does to it.  The helpers are pure here: a record in, a  *)
(* record out (a set of records where the C code has undefined behaviour). *)
(* The guard `if (!tracing) return` of every helper is in CsTracer.        *)
(***************************************************************************)
EXTENDS Integers

CONSTANT Arch       \* the platform the tool is built for

ASSUME ArchAssumption == Arch \in {"arm64", "amd64"}

NUM_INSTR_DESTINATIONS == 2
NUM_INSTR_SOURCES == 4
CACHE_LINE_SIZE == 64

Dst == 1 .. NUM_INSTR_DESTINATIONS
Src == 1 .. NUM_INSTR_SOURCES

\* Register numbers of arm64regs.h and x86-64regs.h that the helpers name.
REG_PC == IF Arch = "arm64" THEN 33 ELSE 26        \* REG_PC / REG_RIP
REG_FLAGS == IF Arch = "arm64" THEN 34 ELSE 25     \* REG_FLAGS / REG_RFLAGS
REG_SP == IF Arch = "arm64" THEN 32 ELSE 6         \* REG_XSP / REG_RSP
REG_X30 == 31
REG_RAX == 10

\* The address of the cache block of addr: (addr >> CACHE_POW) << CACHE_POW.
LineOf(addr) == (addr \div CACHE_LINE_SIZE) * CACHE_LINE_SIZE

-----------------------------------------------------------------------------
(* The record.  A register or address 0 marks a slot that is not in use.   *)

UInt8 == 0 .. 255

RecordType(Addr, Val) ==
  [ip : Nat,
   is_branch : {0, 1},
   branch_taken : {0, 1},
   destination_registers : [Dst -> UInt8],
   source_registers : [Src -> UInt8],
   destination_memory : [Dst -> Addr \cup {0}],
   source_memory : [Src -> Addr \cup {0}],
   d_valid : [Dst -> {0, 1}],
   d_value : [Dst -> Val],
   s_valid : [Src -> {0, 1}],
   s_value : [Src -> Val]]

\* zero_inst: memset(&inst, 0, sizeof(inst)).
ZeroInst ==
  [ip |-> 0,
   is_branch |-> 0,
   branch_taken |-> 0,
   destination_registers |-> [i \in Dst |-> 0],
   source_registers |-> [i \in Src |-> 0],
   destination_memory |-> [i \in Dst |-> 0],
   source_memory |-> [i \in Src |-> 0],
   d_valid |-> [i \in Dst |-> 0],
   d_value |-> [i \in Dst |-> 0],
   s_valid |-> [i \in Src |-> 0],
   s_value |-> [i \in Src |-> 0]]

-----------------------------------------------------------------------------
(* Slots.  Every helper scans for the value, then for the first zero slot. *)

Holds(slots, x) == \E i \in DOMAIN slots : slots[i] = x

Full(slots) == ~ Holds(slots, 0)

FirstZero(slots) ==
  CHOOSE i \in DOMAIN slots :
    /\ slots[i] = 0
    /\ \A j \in DOMAIN slots : j < i => slots[j] # 0

\* Mutant of AddLoad: the last slot is never reached.
AddLoad_short(r, addr, line) ==
  IF Holds(r.source_memory, addr) \/ r.source_memory[NUM_INSTR_SOURCES - 1] # 0
  THEN r
  ELSE LET i == FirstZero(r.source_memory)
       IN  [r EXCEPT !.source_memory[i] = addr,
                     !.s_valid[i] = 1,
                     !.s_value[i] = line]

\* Mutant of AddLoad: the line is copied into the array of the stores.
AddLoad_misplaced(r, addr, line) ==
  IF Holds(r.source_memory, addr) \/ Full(r.source_memory)
  THEN r
  ELSE LET i == FirstZero(r.source_memory)
       IN  [r EXCEPT !.source_memory[i] = addr,
                     !.s_valid[i] = 1,
                     !.d_value[1] = line]

\* trace_load: line is the content of the cache block of addr at the call.
AddLoad(r, addr, line) ==
  IF Holds(r.source_memory, addr) \/ Full(r.source_memory)
  THEN r
  ELSE LET i == FirstZero(r.source_memory)
       IN  [r EXCEPT !.source_memory[i] = addr,
                     !.s_valid[i] = 1,
                     !.s_value[i] = line]

\* Mutants of AddStore: no break after the insertion; the line is
\* copied into the array of the loads.
AddStore_nobreak(r, addr, line) ==
  IF Holds(r.destination_memory, addr)
  THEN r
  ELSE [r EXCEPT !.destination_memory = [i \in Dst |-> IF @[i] = 0 THEN addr ELSE @[i]],
                 !.d_valid = [i \in Dst |-> 1],
                 !.d_value = [i \in Dst |-> IF r.d_valid[i] = 0 THEN line ELSE @[i]]]

AddStore_misplaced(r, addr, line) ==
  IF Holds(r.destination_memory, addr) \/ Full(r.destination_memory)
  THEN r
  ELSE LET i == FirstZero(r.destination_memory)
       IN  [r EXCEPT !.destination_memory[i] = addr,
                     !.d_valid[i] = 1,
                     !.s_value[i] = line]

\* trace_store
AddStore(r, addr, line) ==
  IF Holds(r.destination_memory, addr) \/ Full(r.destination_memory)
  THEN r
  ELSE LET i == FirstZero(r.destination_memory)
       IN  [r EXCEPT !.destination_memory[i] = addr,
                     !.d_valid[i] = 1,
                     !.d_value[i] = line]

\* trace_reg_read: the register number is cut to a byte.
AddRegRead(r, reg) ==
  LET b == reg % 256
  IN  IF Holds(r.source_registers, b) \/ Full(r.source_registers)
      THEN r
      ELSE [r EXCEPT !.source_registers[FirstZero(r.source_registers)] = b]

\* trace_reg_write.  Its second loop runs to NUM_INSTR_SOURCES over an array
\* of NUM_INSTR_DESTINATIONS elements, so with both slots in use it indexes
\* past the array: undefined behaviour.  The outcomes are the ones gcc 12
\* produces: the out-of-bounds element is the adjacent source_registers
\* (spilled, -O0); the loop stops at the array's end (dropped, -O1); the
\* test of the last in-bounds slot is taken for true (overwritten, -O2, -O3).
SpillSlots(r) ==
  {i \in 1 .. NUM_INSTR_SOURCES - NUM_INSTR_DESTINATIONS :
     r.source_registers[i] = 0}

OverflowOutcomes(r, b) ==
  {r, [r EXCEPT !.destination_registers[NUM_INSTR_DESTINATIONS] = b]}
  \cup
  {[r EXCEPT !.source_registers[i] = b] :
     i \in {k \in SpillSlots(r) : \A j \in SpillSlots(r) : k <= j}}

AddRegWrite(r, reg) ==
  LET b == reg % 256
  IN  IF Holds(r.destination_registers, b)
      THEN {r}
      ELSE IF Full(r.destination_registers)
           THEN OverflowOutcomes(r, b)
           ELSE {[r EXCEPT !.destination_registers
                              [FirstZero(r.destination_registers)] = b]}

-----------------------------------------------------------------------------
(* Branches.  The helpers assign fixed slots, whatever these held; 0 in a  *)
(* table below marks a slot the helper does not assign.                    *)

JumpKind == {"Call", "Ret", "Boring"}

Assign(slots, regs) ==
  [i \in DOMAIN slots |-> IF regs[i] # 0 THEN regs[i] ELSE slots[i]]

\* Mutant of BranchConditional: ~ci for !ci.
BranchConditional_bitwise(r, ci, guard) ==
  [r EXCEPT !.is_branch = 1,
            !.branch_taken = IF guard THEN IF ci THEN 254 ELSE 255
                                      ELSE IF ci THEN 1 ELSE 0,
            !.destination_registers = Assign(@, <<REG_PC, 0>>),
            !.source_registers = Assign(@, <<REG_PC, REG_FLAGS, 0, 0>>)]

\* trace_branch_conditional: ci says that VEX inverted the condition.
BranchConditional(r, ci, guard) ==
  [r EXCEPT !.is_branch = 1,
            !.branch_taken = IF guard = ci THEN 0 ELSE 1,
            !.destination_registers = Assign(@, <<REG_PC, 0>>),
            !.source_registers = Assign(@, <<REG_PC, REG_FLAGS, 0, 0>>)]

DirectDst(jk) ==
  CASE jk = "Call" -> IF Arch = "arm64" THEN <<REG_PC, 0>> ELSE <<REG_PC, REG_SP>>
    [] jk = "Ret" -> <<REG_PC, REG_SP>>
    [] jk = "Boring" -> <<REG_PC, 0>>

DirectSrc(jk) ==
  CASE jk = "Call" -> IF Arch = "arm64" THEN <<REG_PC, 0, 0, 0>>
                                        ELSE <<REG_PC, REG_SP, 0, 0>>
    [] jk = "Ret" -> IF Arch = "arm64" THEN <<REG_X30, 0, 0, 0>>
                                       ELSE <<REG_SP, 0, 0, 0>>
    [] jk = "Boring" -> <<0, 0, 0, 0>>

\* trace_branch_direct
BranchDirect(r, jk) ==
  [r EXCEPT !.is_branch = 1,
            !.branch_taken = 1,
            !.destination_registers = Assign(@, DirectDst(jk)),
            !.source_registers = Assign(@, DirectSrc(jk))]

IndirectDst(jk) ==
  CASE jk = "Call" -> IF Arch = "arm64" THEN <<REG_PC, REG_X30>> ELSE <<REG_PC, REG_SP>>
    [] jk = "Ret" -> IF Arch = "arm64" THEN <<REG_PC, 0>> ELSE <<REG_PC, REG_SP>>
    [] jk = "Boring" -> <<REG_PC, 0>>

IndirectSrc(jk) ==
  CASE jk = "Call" -> IF Arch = "arm64" THEN <<REG_PC, 0, REG_X30, 0>>
                                        ELSE <<REG_PC, REG_SP, REG_RAX, 0>>
    [] jk = "Ret" -> IF Arch = "arm64" THEN <<REG_X30, 0, 0, 0>>
                                       ELSE <<REG_SP, 0, REG_RAX, 0>>
    [] jk = "Boring" -> IF Arch = "arm64" THEN <<REG_X30, 0, 0, 0>>
                                          ELSE <<0, 0, REG_RAX, 0>>

\* trace_branch_indirect
BranchIndirect(r, jk) ==
  [r EXCEPT !.is_branch = 1,
            !.branch_taken = 1,
            !.destination_registers = Assign(@, IndirectDst(jk)),
            !.source_registers = Assign(@, IndirectSrc(jk))]

=============================================================================
