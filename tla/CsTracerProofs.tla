--------------------------- MODULE CsTracerProofs ---------------------------
(***************************************************************************)
(* Proofs about CsTracer, for every number of threads, instructions and    *)
(* events and every value of the options; and the lemmas about the helpers *)
(* of InstRecord they rest on, for every set of addresses and line         *)
(* contents: they keep a record a record, and what they insert.            *)
(***************************************************************************)
EXTENDS CsTracer, SequenceTheorems, TLAPS

-----------------------------------------------------------------------------
(* The helpers of InstRecord.                                              *)

\* A slot array that is not full has a first free slot, which trace_load,
\* trace_store, trace_reg_read and trace_reg_write fill.
LEMMA FirstZeroDst ==
  ASSUME NEW s, DOMAIN s = Dst, ~ Full(s)
  PROVE  /\ FirstZero(s) \in Dst
         /\ s[FirstZero(s)] = 0
         /\ \A j \in Dst : j < FirstZero(s) => s[j] # 0
<1>1. Dst = {1, 2}
  BY DEF Dst, NUM_INSTR_DESTINATIONS
<1>2. \E i \in Dst : s[i] = 0 /\ \A j \in Dst : j < i => s[j] # 0
  <2>1. CASE s[1] = 0
    BY <1>1, <2>1
  <2>2. CASE s[1] # 0
    <3>1. s[2] = 0
      BY <1>1, <2>2 DEF Full, Holds
    <3>2. QED
      BY <1>1, <2>2, <3>1
  <2>3. QED
    BY <2>1, <2>2
<1>3. QED
  BY <1>2 DEF FirstZero

\* The same of the arrays of inputs.
LEMMA FirstZeroSrc ==
  ASSUME NEW s, DOMAIN s = Src, ~ Full(s)
  PROVE  /\ FirstZero(s) \in Src
         /\ s[FirstZero(s)] = 0
         /\ \A j \in Src : j < FirstZero(s) => s[j] # 0
<1>1. Src = {1, 2, 3, 4}
  BY DEF Src, NUM_INSTR_SOURCES
<1>2. \E i \in Src : s[i] = 0 /\ \A j \in Src : j < i => s[j] # 0
  <2>1. \E i \in Src : s[i] = 0
    BY DEF Full, Holds
  <2>2. CASE s[1] = 0
    BY <1>1, <2>2
  <2>3. CASE s[1] # 0 /\ s[2] = 0
    BY <1>1, <2>3
  <2>4. CASE s[1] # 0 /\ s[2] # 0 /\ s[3] = 0
    BY <1>1, <2>4
  <2>5. CASE s[1] # 0 /\ s[2] # 0 /\ s[3] # 0
    <3>1. s[4] = 0
      BY <1>1, <2>1, <2>5
    <3>2. QED
      BY <1>1, <2>5, <3>1
  <2>6. QED
    BY <2>2, <2>3, <2>4, <2>5
<1>3. QED
  BY <1>2 DEF FirstZero

-----------------------------------------------------------------------------
(* Types.                                                                  *)

\* zero_inst leaves a well-formed record.
LEMMA ZeroInstType ==
  ASSUME NEW Addr, NEW Val, 0 \in Val
  PROVE  ZeroInst \in RecordType(Addr, Val)
BY DEF ZeroInst, RecordType, UInt8

\* trace_load and trace_store keep the record well-formed.
LEMMA AddLoadType ==
  ASSUME NEW Addr, NEW Val, NEW r \in RecordType(Addr, Val),
         NEW a \in Addr, NEW v \in Val
  PROVE  AddLoad(r, a, v) \in RecordType(Addr, Val) /\ AddLoad(r, a, v).ip = r.ip
<1>1. CASE Holds(r.source_memory, a) \/ Full(r.source_memory)
  BY <1>1 DEF AddLoad
<1>2. CASE ~ (Holds(r.source_memory, a) \/ Full(r.source_memory))
  <2>1. DOMAIN r.source_memory = Src
    BY DEF RecordType
  <2>2. FirstZero(r.source_memory) \in Src
    BY <1>2, <2>1, FirstZeroSrc
  <2>3. QED
    BY <1>2, <2>2 DEF AddLoad, RecordType
<1>3. QED
  BY <1>1, <1>2

\* trace_store keeps the record's type.
LEMMA AddStoreType ==
  ASSUME NEW Addr, NEW Val, NEW r \in RecordType(Addr, Val),
         NEW a \in Addr, NEW v \in Val
  PROVE  AddStore(r, a, v) \in RecordType(Addr, Val) /\ AddStore(r, a, v).ip = r.ip
<1>1. CASE Holds(r.destination_memory, a) \/ Full(r.destination_memory)
  BY <1>1 DEF AddStore
<1>2. CASE ~ (Holds(r.destination_memory, a) \/ Full(r.destination_memory))
  <2>1. DOMAIN r.destination_memory = Dst
    BY DEF RecordType
  <2>2. FirstZero(r.destination_memory) \in Dst
    BY <1>2, <2>1, FirstZeroDst
  <2>3. QED
    BY <1>2, <2>2 DEF AddStore, RecordType
<1>3. QED
  BY <1>1, <1>2

\* trace_reg_read and trace_reg_write keep the record well-formed, the latter
\* in each outcome of its out-of-bounds loop.
LEMMA AddRegReadType ==
  ASSUME NEW Addr, NEW Val, NEW r \in RecordType(Addr, Val), NEW reg \in Nat
  PROVE  AddRegRead(r, reg) \in RecordType(Addr, Val) /\ AddRegRead(r, reg).ip = r.ip
<1>. DEFINE b == reg % 256
<1>0. b \in UInt8
  BY DEF UInt8
<1>1. CASE Holds(r.source_registers, b) \/ Full(r.source_registers)
  BY <1>1 DEF AddRegRead
<1>2. CASE ~ (Holds(r.source_registers, b) \/ Full(r.source_registers))
  <2>1. DOMAIN r.source_registers = Src
    BY DEF RecordType
  <2>2. FirstZero(r.source_registers) \in Src
    BY <1>2, <2>1, FirstZeroSrc
  <2>3. AddRegRead(r, reg)
        = [r EXCEPT !.source_registers[FirstZero(r.source_registers)] = b]
    BY <1>2 DEF AddRegRead
  <2>. HIDE DEF b
  <2>4. [r.source_registers EXCEPT ![FirstZero(r.source_registers)] = b] \in [Src -> UInt8]
    BY <1>0, <2>2 DEF RecordType
  <2>5. AddRegRead(r, reg)
        = [r EXCEPT !.source_registers =
             [r.source_registers EXCEPT ![FirstZero(r.source_registers)] = b]]
    BY <2>3 DEF RecordType
  <2>6. QED
    BY <2>4, <2>5 DEF RecordType
<1>3. QED
  BY <1>1, <1>2

\* What trace_reg_write does: nothing, or one byte of one register array is
\* set.  A source register is set only when both destinations are in use.
LEMMA AddRegWriteEffect ==
  ASSUME NEW Addr, NEW Val, NEW r \in RecordType(Addr, Val), NEW reg \in Nat,
         NEW q \in AddRegWrite(r, reg)
  PROVE  \/ q = r /\ \/ Holds(r.destination_registers, reg % 256)
                     \/ Full(r.destination_registers)
                        /\ ~ Holds(r.destination_registers, reg % 256)
         \/ \E i \in Dst :
              /\ q = [r EXCEPT !.destination_registers[i] = reg % 256]
              /\ ~ Holds(r.destination_registers, reg % 256)
              /\ r.destination_registers[i] = 0 \/ Full(r.destination_registers)
         \/ \E i \in Src :
              /\ q = [r EXCEPT !.source_registers[i] = reg % 256]
              /\ r.source_registers[i] = 0
              /\ Full(r.destination_registers)
              /\ ~ Holds(r.destination_registers, reg % 256)
<1>. DEFINE b == reg % 256
<1>1. CASE Holds(r.destination_registers, b)
  BY <1>1 DEF AddRegWrite
<1>2. CASE ~ Holds(r.destination_registers, b) /\ Full(r.destination_registers)
  <2>1. q \in OverflowOutcomes(r, b)
    BY <1>2 DEF AddRegWrite
  <2>2. NUM_INSTR_DESTINATIONS \in Dst
    BY DEF Dst, NUM_INSTR_DESTINATIONS
  <2>3. ASSUME NEW i \in SpillSlots(r)
        PROVE  i \in Src /\ r.source_registers[i] = 0
    BY DEF SpillSlots, Src, NUM_INSTR_SOURCES, NUM_INSTR_DESTINATIONS
  <2>. HIDE DEF b
  <2>4. CASE q = r
    BY <1>2, <2>4 DEF b
  <2>5. CASE q = [r EXCEPT !.destination_registers[NUM_INSTR_DESTINATIONS] = b]
    BY <1>2, <2>2, <2>5 DEF b
  <2>6. ASSUME NEW i \in SpillSlots(r),
               q = [r EXCEPT !.source_registers[i] = b]
        PROVE  \E k \in Src :
                 /\ q = [r EXCEPT !.source_registers[k] = b]
                 /\ r.source_registers[k] = 0
    BY <2>3, <2>6
  <2>7. QED
    BY <1>2, <2>1, <2>4, <2>5, <2>6 DEF OverflowOutcomes, b
<1>3. CASE ~ Holds(r.destination_registers, b) /\ ~ Full(r.destination_registers)
  <2>1. DOMAIN r.destination_registers = Dst
    BY DEF RecordType
  <2>2. /\ FirstZero(r.destination_registers) \in Dst
        /\ r.destination_registers[FirstZero(r.destination_registers)] = 0
    BY <1>3, <2>1, FirstZeroDst
  <2>3. q = [r EXCEPT !.destination_registers
                         [FirstZero(r.destination_registers)] = b]
    BY <1>3 DEF AddRegWrite
  <2>. HIDE DEF b
  <2>4. QED
    BY <1>3, <2>2, <2>3 DEF b
<1>4. QED
  BY <1>1, <1>2, <1>3

\* trace_reg_write keeps the record's type, whatever its out-of-bounds loop does.
LEMMA AddRegWriteType ==
  ASSUME NEW Addr, NEW Val, NEW r \in RecordType(Addr, Val), NEW reg \in Nat,
         NEW q \in AddRegWrite(r, reg)
  PROVE  q \in RecordType(Addr, Val) /\ q.ip = r.ip
<1>. DEFINE b == reg % 256
<1>0. b \in UInt8
  BY DEF UInt8
<1>. HIDE DEF b
<1>1. \/ q = r
      \/ \E i \in Dst : q = [r EXCEPT !.destination_registers[i] = b]
      \/ \E i \in Src : q = [r EXCEPT !.source_registers[i] = b]
  BY AddRegWriteEffect DEF b
<1>2. ASSUME NEW i \in Dst, q = [r EXCEPT !.destination_registers[i] = b]
      PROVE  q \in RecordType(Addr, Val) /\ q.ip = r.ip
  BY <1>0, <1>2 DEF RecordType
<1>3. ASSUME NEW i \in Src, q = [r EXCEPT !.source_registers[i] = b]
      PROVE  q \in RecordType(Addr, Val) /\ q.ip = r.ip
  BY <1>0, <1>3 DEF RecordType
<1>4. QED
  BY <1>1, <1>2, <1>3

-----------------------------------------------------------------------------
(* Memory.                                                                 *)

\* Slot i of r takes the address a and the line v, and nothing else changes.
Loaded(r, q, i, a, v) ==
  /\ r.source_memory[i] = 0
  /\ \A j \in Src : j < i => r.source_memory[j] # 0
  /\ ~ Holds(r.source_memory, a)
  /\ q.source_memory = [r.source_memory EXCEPT ![i] = a]
  /\ q.s_valid = [r.s_valid EXCEPT ![i] = 1]
  /\ q.s_value = [r.s_value EXCEPT ![i] = v]
  /\ q.destination_memory = r.destination_memory
  /\ q.d_valid = r.d_valid
  /\ q.d_value = r.d_value
  /\ q.destination_registers = r.destination_registers
  /\ q.source_registers = r.source_registers

\* What trace_load does: nothing when the address is present or the slots are
\* full, otherwise it fills the first free slot and nothing else.
LEMMA AddLoadEffect ==
  ASSUME NEW Addr, NEW Val, NEW r \in RecordType(Addr, Val),
         NEW a \in Addr, NEW v \in Val
  PROVE  \/ /\ AddLoad(r, a, v) = r
            /\ Holds(r.source_memory, a) \/ Full(r.source_memory)
         \/ \E i \in Src : Loaded(r, AddLoad(r, a, v), i, a, v)
<1>1. CASE Holds(r.source_memory, a) \/ Full(r.source_memory)
  BY <1>1 DEF AddLoad
<1>2. CASE ~ (Holds(r.source_memory, a) \/ Full(r.source_memory))
  <2>. DEFINE i == FirstZero(r.source_memory)
  <2>1. DOMAIN r.source_memory = Src
    BY DEF RecordType
  <2>2. /\ i \in Src
        /\ r.source_memory[i] = 0
        /\ \A j \in Src : j < i => r.source_memory[j] # 0
    BY <1>2, <2>1, FirstZeroSrc
  <2>3. AddLoad(r, a, v) = [r EXCEPT !.source_memory[i] = a, !.s_valid[i] = 1, !.s_value[i] = v]
    BY <1>2 DEF AddLoad
  <2>. HIDE DEF i
  <2>4. Loaded(r, AddLoad(r, a, v), i, a, v)
    BY <1>2, <2>2, <2>3 DEF Loaded, RecordType
  <2>5. QED
    BY <2>2, <2>4
<1>3. QED
  BY <1>1, <1>2

\* Slot i of r takes the address a and the line v, and nothing else changes.
Stored(r, q, i, a, v) ==
  /\ r.destination_memory[i] = 0
  /\ \A j \in Dst : j < i => r.destination_memory[j] # 0
  /\ ~ Holds(r.destination_memory, a)
  /\ q.destination_memory = [r.destination_memory EXCEPT ![i] = a]
  /\ q.d_valid = [r.d_valid EXCEPT ![i] = 1]
  /\ q.d_value = [r.d_value EXCEPT ![i] = v]
  /\ q.source_memory = r.source_memory
  /\ q.s_valid = r.s_valid
  /\ q.s_value = r.s_value
  /\ q.destination_registers = r.destination_registers
  /\ q.source_registers = r.source_registers

\* What trace_store does: nothing when the address is present or the slots are
\* full, otherwise it fills the first free slot and nothing else.
LEMMA AddStoreEffect ==
  ASSUME NEW Addr, NEW Val, NEW r \in RecordType(Addr, Val),
         NEW a \in Addr, NEW v \in Val
  PROVE  \/ /\ AddStore(r, a, v) = r
            /\ Holds(r.destination_memory, a) \/ Full(r.destination_memory)
         \/ \E i \in Dst : Stored(r, AddStore(r, a, v), i, a, v)
<1>1. CASE Holds(r.destination_memory, a) \/ Full(r.destination_memory)
  BY <1>1 DEF AddStore
<1>2. CASE ~ (Holds(r.destination_memory, a) \/ Full(r.destination_memory))
  <2>. DEFINE i == FirstZero(r.destination_memory)
  <2>1. DOMAIN r.destination_memory = Dst
    BY DEF RecordType
  <2>2. /\ i \in Dst
        /\ r.destination_memory[i] = 0
        /\ \A j \in Dst : j < i => r.destination_memory[j] # 0
    BY <1>2, <2>1, FirstZeroDst
  <2>3. AddStore(r, a, v) = [r EXCEPT !.destination_memory[i] = a, !.d_valid[i] = 1, !.d_value[i] = v]
    BY <1>2 DEF AddStore
  <2>. HIDE DEF i
  <2>4. Stored(r, AddStore(r, a, v), i, a, v)
    BY <1>2, <2>2, <2>3 DEF Stored, RecordType
  <2>5. QED
    BY <2>2, <2>4
<1>3. QED
  BY <1>1, <1>2

-----------------------------------------------------------------------------
(* Branches.                                                               *)

\* The register tables of the branch helpers name bytes.
LEMMA TableTypes ==
  ASSUME NEW jk \in JumpKind
  PROVE  /\ DirectDst(jk) \in [Dst -> UInt8] /\ IndirectDst(jk) \in [Dst -> UInt8]
         /\ DirectSrc(jk) \in [Src -> UInt8] /\ IndirectSrc(jk) \in [Src -> UInt8]
         /\ <<REG_PC, 0>> \in [Dst -> UInt8]
         /\ <<REG_PC, REG_FLAGS, 0, 0>> \in [Src -> UInt8]
<1>1. /\ REG_PC \in UInt8 /\ REG_FLAGS \in UInt8 /\ REG_SP \in UInt8
      /\ REG_X30 \in UInt8 /\ REG_RAX \in UInt8 /\ 0 \in UInt8
  BY DEF UInt8, REG_PC, REG_FLAGS, REG_SP, REG_X30, REG_RAX
<1>2. \A x, y \in UInt8 : <<x, y>> \in [Dst -> UInt8]
  BY DEF Dst, NUM_INSTR_DESTINATIONS
<1>3. \A x, y, z, u \in UInt8 : <<x, y, z, u>> \in [Src -> UInt8]
  BY DEF Src, NUM_INSTR_SOURCES
<1>4. CASE jk = "Call"
  BY <1>1, <1>2, <1>3, <1>4 DEF DirectDst, DirectSrc, IndirectDst, IndirectSrc
<1>5. CASE jk = "Ret"
  BY <1>1, <1>2, <1>3, <1>5 DEF DirectDst, DirectSrc, IndirectDst, IndirectSrc
<1>6. CASE jk = "Boring"
  BY <1>1, <1>2, <1>3, <1>6 DEF DirectDst, DirectSrc, IndirectDst, IndirectSrc
<1>7. QED
  BY <1>4, <1>5, <1>6 DEF JumpKind

\* A branch helper, whatever its tables, keeps the record well-formed.
LEMMA AssignType ==
  ASSUME NEW Addr, NEW Val, NEW r \in RecordType(Addr, Val),
         NEW dst \in [Dst -> UInt8], NEW src \in [Src -> UInt8],
         NEW taken \in {0, 1}
  PROVE  [r EXCEPT !.is_branch = 1,
                   !.branch_taken = taken,
                   !.destination_registers = Assign(@, dst),
                   !.source_registers = Assign(@, src)]
         \in RecordType(Addr, Val)
<1>1. Assign(r.destination_registers, dst) \in [Dst -> UInt8]
  BY DEF Assign, RecordType
<1>2. Assign(r.source_registers, src) \in [Src -> UInt8]
  BY DEF Assign, RecordType
<1>3. QED
  BY <1>1, <1>2 DEF RecordType

-----------------------------------------------------------------------------
(* Registers.                                                              *)

SameMemory(r, q) ==
  /\ q.source_memory = r.source_memory
  /\ q.s_valid = r.s_valid
  /\ q.s_value = r.s_value
  /\ q.destination_memory = r.destination_memory
  /\ q.d_valid = r.d_valid
  /\ q.d_value = r.d_value

\* A register number below 256 survives the cut to a byte.
LEMMA ByteMod == ASSUME NEW x \in 1 .. 255 PROVE x % 256 = x
OBVIOUS

\* The source registers s become t when trace_reg_read is given reg.
ReadSlots(s, t, reg) ==
  \/ t = s /\ (Holds(s, reg) \/ Full(s))
  \/ \E i \in Src : s[i] = 0 /\ t = [s EXCEPT ![i] = reg]

\* What trace_reg_read does to the source registers; the rest stays.
LEMMA RegReadEffect ==
  ASSUME NEW Addr, NEW Val, NEW r \in RecordType(Addr, Val), NEW reg \in 1 .. 255
  PROVE  /\ SameMemory(r, AddRegRead(r, reg))
         /\ AddRegRead(r, reg).destination_registers = r.destination_registers
         /\ ReadSlots(r.source_registers, AddRegRead(r, reg).source_registers, reg)
<1>. DEFINE s == r.source_registers
<1>0. reg % 256 = reg
  BY ByteMod
<1>1. CASE Holds(s, reg) \/ Full(s)
  BY <1>0, <1>1 DEF AddRegRead, SameMemory, ReadSlots
<1>2. CASE ~ (Holds(s, reg) \/ Full(s))
  <2>. DEFINE i == FirstZero(s)
  <2>1. DOMAIN s = Src
    BY DEF RecordType
  <2>2. i \in Src /\ s[i] = 0
    BY <1>2, <2>1, FirstZeroSrc
  <2>3. AddRegRead(r, reg) = [r EXCEPT !.source_registers[i] = reg]
    BY <1>0, <1>2 DEF AddRegRead
  <2>. HIDE DEF i
  <2>4. QED
    BY <2>2, <2>3 DEF SameMemory, RecordType, ReadSlots
<1>3. QED
  BY <1>1, <1>2

\* The destination registers d become c, and the source registers s become t,
\* when trace_reg_write is given reg.
WriteSlots(d, s, c, t, reg) ==
  \/ c = d /\ t = s /\ Holds(d, reg)
  \/ c = d /\ t = s /\ Full(d) /\ ~ Holds(d, reg)
  \/ /\ t = s /\ ~ Holds(d, reg)
     /\ \E i \in Dst : c = [d EXCEPT ![i] = reg] /\ (d[i] = 0 \/ Full(d))
  \/ /\ c = d /\ Full(d) /\ ~ Holds(d, reg)
     /\ \E i \in Src : t = [s EXCEPT ![i] = reg] /\ s[i] = 0

\* What trace_reg_write does to the two arrays of registers; the rest stays.
LEMMA RegWriteEffect ==
  ASSUME NEW Addr, NEW Val, NEW r \in RecordType(Addr, Val), NEW reg \in 1 .. 255,
         NEW q \in AddRegWrite(r, reg)
  PROVE  /\ SameMemory(r, q)
         /\ WriteSlots(r.destination_registers, r.source_registers,
                       q.destination_registers, q.source_registers, reg)
<1>. DEFINE d == r.destination_registers
            s == r.source_registers
<1>0. reg % 256 = reg /\ reg \in Nat
  BY ByteMod
<1>1. CASE q = r /\ (Holds(d, reg) \/ (Full(d) /\ ~ Holds(d, reg)))
  BY <1>1 DEF SameMemory, WriteSlots
<1>2. ASSUME NEW i \in Dst, q = [r EXCEPT !.destination_registers[i] = reg],
             ~ Holds(d, reg), d[i] = 0 \/ Full(d)
      PROVE  /\ SameMemory(r, q) /\ q.source_registers = s
             /\ q.destination_registers = [d EXCEPT ![i] = reg]
  BY <1>2 DEF SameMemory, RecordType
<1>3. ASSUME NEW i \in Src, q = [r EXCEPT !.source_registers[i] = reg], s[i] = 0,
             Full(d), ~ Holds(d, reg)
      PROVE  /\ SameMemory(r, q) /\ q.destination_registers = d
             /\ q.source_registers = [s EXCEPT ![i] = reg]
  BY <1>3 DEF SameMemory, RecordType
<1>4. \/ q = r /\ (Holds(d, reg) \/ (Full(d) /\ ~ Holds(d, reg)))
      \/ \E i \in Dst : /\ q = [r EXCEPT !.destination_registers[i] = reg]
                        /\ ~ Holds(d, reg) /\ (d[i] = 0 \/ Full(d))
      \/ \E i \in Src : /\ q = [r EXCEPT !.source_registers[i] = reg]
                        /\ s[i] = 0 /\ Full(d) /\ ~ Holds(d, reg)
  BY <1>0, AddRegWriteEffect
<1>5. QED
  BY <1>1, <1>2, <1>3, <1>4 DEF WriteSlots

-----------------------------------------------------------------------------
(* Types.                                                                  *)

\* The cache line of an address of the guest is a line of the model.
LEMMA LineType == \A a \in Addrs : LineOf(a) \in Lines
BY DEF Lines

\* The history entry of a new instruction is well-formed.
LEMMA EntryType ==
  ASSUME TypeOK, NEW t \in Threads, NEW ip \in Ips
  PROVE  NewEntry(t, ip) \in Entry
<1>1. {<<l, mem[l]>> : l \in Lines} \subseteq Lines \X (Vals \cup {0})
  BY DEF TypeOK
<1>2. QED
  BY <1>1 DEF NewEntry, Entry

\* While a thread is in the body of a superblock an instruction has started,
\* so the events that ct_instrument attributes to it have an entry.
BodyHasEntry == phase = "body" => Len(log) >= 1

\* The initial state: a zeroed record, an open file, nothing executed.
LEMMA InitType == Init => TypeOK /\ BodyHasEntry
<1>. SUFFICES ASSUME Init PROVE TypeOK /\ BodyHasEntry
  OBVIOUS
<1>1. inst \in Record
  BY ZeroInstType DEF Init, Record
<1>2. instructions \in 0 .. ULLONG_MOD - 1
  BY TracerAssumption DEF Init
<1>3. file \in Seq([n : Nat, rec : Record, whole : BOOLEAN]) /\ log \in Seq(Entry)
  BY DEF Init
<1>4. QED
  BY <1>1, <1>2, <1>3 DEF Init, TypeOK, BodyHasEntry

\* The calls before an IMark (inc_inst, write_inst_to_file, zero_inst and
\* trace_instr) keep the types.
LEMMA IMarkType ==
  ASSUME TypeOK, NEW ip \in Ips, IMark(ip)
  PROVE  TypeOK' /\ BodyHasEntry'
<1>1. log' \in Seq(Entry) /\ Len(log') = Len(log) + 1
  <2>1. NewEntry(running, ip) \in Entry
    BY EntryType DEF TypeOK
  <2>2. QED
    BY <2>1, AppendProperties DEF IMark, TypeOK
<1>2. instructions' \in 0 .. ULLONG_MOD - 1
  <2>1. instructions' = (instructions + 1) % ULLONG_MOD
    BY DEF IMark, inc_inst, NextCount
  <2>2. instructions + 1 \in Nat /\ ULLONG_MOD \in Nat /\ ULLONG_MOD > 0
    BY TracerAssumption DEF TypeOK
  <2>3. QED
    BY <2>1, <2>2
<1>3. inst' \in Record
  <2>1. ZeroInst \in Record
    BY ZeroInstType DEF Record
  <2>2. ip \in Nat
    BY TracerAssumption
  <2>3. [ZeroInst EXCEPT !.ip = ip] \in Record
    BY <2>1, <2>2 DEF Record, RecordType
  <2>4. QED
    BY <2>3 DEF IMark, zero_and_trace_instr, TypeOK
<1>4. file' \in Seq([n : Nat, rec : Record, whole : BOOLEAN])
  <2>1. Len(log) \in Nat
    BY LenProperties DEF TypeOK
  <2>2. \A w \in WriteOutcomes :
          [n |-> Len(log), rec |-> inst, whole |-> (w = "whole")]
            \in [n : Nat, rec : Record, whole : BOOLEAN]
    BY <2>1 DEF TypeOK
  <2>3. \A w \in WriteOutcomes :
          Append(file, [n |-> Len(log), rec |-> inst, whole |-> (w = "whole")])
            \in Seq([n : Nat, rec : Record, whole : BOOLEAN])
    BY <2>2, AppendProperties DEF TypeOK
  <2>4. QED
    BY <2>3 DEF IMark, write_inst_to_file, TypeOK
<1>5. tracing' \in BOOLEAN /\ tracing_done' \in BOOLEAN
  BY DEF IMark, inc_inst, TracingAfter, Ends, Starts, TypeOK
<1>6. fd' \in {"open", "closed"} /\ closes' \in Nat
  BY DEF IMark, inc_inst, TypeOK
<1>7. BodyHasEntry'
  BY <1>1, LenProperties DEF BodyHasEntry, TypeOK
<1>8. QED
  BY <1>1, <1>2, <1>3, <1>4, <1>5, <1>6, <1>7 DEF IMark, TypeOK, options

-----------------------------------------------------------------------------
(* The events of an instruction.                                           *)

\* What no helper between two IMarks changes: everything but inst, mem, phase
\* and the last entry of log, of which the address stays.
EventFrame ==
  /\ UNCHANGED <<options, tracing, tracing_done, instructions, file, fd,
                 running, status, closes>>
  /\ Len(log') = Len(log)
  /\ \A i \in 1 .. Len(log) : log'[i].ip = log[i].ip
  /\ \A i \in 1 .. Len(log) - 1 : log'[i] = log[i]
  /\ inst'.ip = inst.ip

\* Noting an event replaces the last entry of log, and only that.
LEMMA NoteEffect ==
  ASSUME TypeOK, BodyHasEntry, phase = "body", NEW STATE e, e \in Entry, Note(e)
  PROVE  /\ Len(log) \in 1 .. Len(log)
         /\ log' \in Seq(Entry)
         /\ Len(log') = Len(log)
         /\ \A i \in 1 .. Len(log) - 1 : log'[i] = log[i]
         /\ log'[Len(log)] = IF tracing THEN e ELSE Last
<1>1. log \in Seq(Entry) /\ Len(log) >= 1
  BY DEF TypeOK, BodyHasEntry
<1>2. Len(log) \in Nat /\ DOMAIN log = 1 .. Len(log)
  BY <1>1, LenProperties
<1>3. Len(log) \in 1 .. Len(log)
  BY <1>1, <1>2
<1>4. CASE tracing
  <2>1. log' = [log EXCEPT ![Len(log)] = e]
    BY <1>4 DEF Note
  <2>2. log' \in Seq(Entry) /\ Len(log') = Len(log)
    BY <1>1, <1>3, <2>1, ExceptSeq
  <2>3. log'[Len(log)] = e
    BY <1>2, <1>3, <2>1
  <2>4. \A i \in 1 .. Len(log) - 1 : i \in 1 .. Len(log) /\ i # Len(log)
    <3>1. Len(log) \in Nat
      BY <1>2
    <3>2. QED
      BY <3>1
  <2>5. \A i \in 1 .. Len(log) - 1 : log'[i] = log[i]
    BY <1>2, <2>1, <2>4
  <2>6. QED
    BY <1>3, <1>4, <2>2, <2>3, <2>5
<1>5. CASE ~ tracing
  BY <1>1, <1>3, <1>5 DEF Note, Last
<1>6. QED
  BY <1>4, <1>5

\* The last entry of log, when there is one.
LEMMA LastType ==
  ASSUME TypeOK, BodyHasEntry, phase = "body"
  PROVE  Last \in Entry
<1>1. log \in Seq(Entry) /\ Len(log) >= 1
  BY DEF TypeOK, BodyHasEntry
<1>2. Len(log) \in 1 .. Len(log)
  BY <1>1, LenProperties
<1>3. QED
  BY <1>1, <1>2, ElementOfSeq DEF Last

\* An event keeps the types and the frame when its record, its memory and its
\* entry are well-formed.
LEMMA EventStep ==
  ASSUME TypeOK, BodyHasEntry, Event, NEW STATE e, e \in Entry, Note(e), e.ip = Last.ip,
         inst' \in Record, inst'.ip = inst.ip,
         mem' \in [Lines -> Vals \cup {0}], phase' \in {"idle", "body"}
  PROVE  TypeOK' /\ BodyHasEntry' /\ EventFrame
<1>0. phase = "body"
  BY DEF Event
<1>1. /\ log' \in Seq(Entry) /\ Len(log') = Len(log)
      /\ \A i \in 1 .. Len(log) - 1 : log'[i] = log[i]
      /\ log'[Len(log)] = IF tracing THEN e ELSE Last
  BY <1>0, NoteEffect
<1>2. \A i \in 1 .. Len(log) : i = Len(log) \/ i \in 1 .. Len(log) - 1
  BY LenProperties DEF TypeOK
<1>3. \A i \in 1 .. Len(log) : log'[i].ip = log[i].ip
  BY <1>1, <1>2 DEF Last
<1>4. TypeOK' /\ BodyHasEntry'
  BY <1>1 DEF Event, TypeOK, BodyHasEntry, options
<1>5. EventFrame
  BY <1>1, <1>3 DEF Event, EventFrame
<1>6. QED
  BY <1>4, <1>5

\* Loads, stores and writes from outside the guest.
LEMMA MemoryStep ==
  ASSUME TypeOK, BodyHasEntry, Memory
  PROVE  TypeOK' /\ BodyHasEntry' /\ EventFrame
<1>0. phase = "body" /\ Event
  BY DEF Memory, trace_load, trace_store, MemoryWrite, Event
<1>1. Last \in Entry
  BY <1>0, LastType
<1>2. ASSUME NEW a \in Addrs, trace_load(a)
      PROVE  TypeOK' /\ BodyHasEntry' /\ EventFrame
  <2>. DEFINE e == [Last EXCEPT !.loads = @ \cup {a}]
  <2>1. mem[LineOf(a)] \in Vals \cup {0}
    BY LineType DEF TypeOK
  <2>2. inst' \in Record /\ inst'.ip = inst.ip
    BY <1>2, <2>1, AddLoadType DEF trace_load, TypeOK, Record
  <2>3. e \in Entry /\ e.ip = Last.ip
    BY <1>1 DEF Entry
  <2>4. Note(e) /\ mem' = mem /\ phase' = phase
    BY <1>2 DEF trace_load
  <2>. HIDE DEF e
  <2>5. QED
    BY <1>0, <2>2, <2>3, <2>4, EventStep DEF TypeOK
<1>3. ASSUME NEW a \in Addrs, trace_store(a)
      PROVE  TypeOK' /\ BodyHasEntry' /\ EventFrame
  <2>. DEFINE e == [Last EXCEPT !.stores = @ \cup {a}]
  <2>1. mem[LineOf(a)] \in Vals \cup {0}
    BY LineType DEF TypeOK
  <2>2. inst' \in Record /\ inst'.ip = inst.ip
    BY <1>3, <2>1, AddStoreType DEF trace_store, TypeOK, Record
  <2>3. e \in Entry /\ e.ip = Last.ip
    BY <1>1 DEF Entry
  <2>4. Note(e) /\ mem' = mem /\ phase' = phase
    BY <1>3 DEF trace_store
  <2>. HIDE DEF e
  <2>5. QED
    BY <1>0, <2>2, <2>3, <2>4, EventStep DEF TypeOK
<1>4. ASSUME NEW l \in Lines, NEW v \in Vals, MemoryWrite(l, v)
      PROVE  TypeOK' /\ BodyHasEntry' /\ EventFrame
  <2>. DEFINE e == [Last EXCEPT !.held = @ \cup {<<l, v>>}]
  <2>1. mem' \in [Lines -> Vals \cup {0}]
    BY <1>4 DEF MemoryWrite, TypeOK
  <2>2. e \in Entry /\ e.ip = Last.ip
    BY <1>1 DEF Entry
  <2>3. Note(e) /\ inst' = inst /\ phase' = phase
    BY <1>4 DEF MemoryWrite
  <2>. HIDE DEF e
  <2>4. QED
    BY <1>0, <2>1, <2>2, <2>3, EventStep DEF TypeOK
<1>5. QED
  BY <1>2, <1>3, <1>4 DEF Memory

\* Register reads and writes.
LEMMA RegistersStep ==
  ASSUME TypeOK, BodyHasEntry, Registers
  PROVE  TypeOK' /\ BodyHasEntry' /\ EventFrame
<1>0. phase = "body" /\ Event
  BY DEF Registers, trace_reg_read, trace_reg_write, Event
<1>1. Last \in Entry
  BY <1>0, LastType
<1>2. Regs \subseteq Nat
  BY TracerAssumption
<1>3. ASSUME NEW r \in Regs, trace_reg_read(r)
      PROVE  TypeOK' /\ BodyHasEntry' /\ EventFrame
  <2>. DEFINE e == [Last EXCEPT !.reads = @ \cup {r}]
  <2>1. inst' \in Record /\ inst'.ip = inst.ip
    BY <1>2, <1>3, AddRegReadType DEF trace_reg_read, TypeOK, Record
  <2>2. e \in Entry /\ e.ip = Last.ip
    BY <1>1 DEF Entry
  <2>3. Note(e) /\ mem' = mem /\ phase' = phase
    BY <1>3 DEF trace_reg_read
  <2>. HIDE DEF e
  <2>4. QED
    BY <1>0, <2>1, <2>2, <2>3, EventStep DEF TypeOK
<1>4. ASSUME NEW r \in Regs, trace_reg_write(r)
      PROVE  TypeOK' /\ BodyHasEntry' /\ EventFrame
  <2>. DEFINE e == [Last EXCEPT !.writes = @ \cup {r}]
  <2>1. inst' \in Record /\ inst'.ip = inst.ip
    BY <1>2, <1>4, AddRegWriteType DEF trace_reg_write, TypeOK, Record
  <2>2. e \in Entry /\ e.ip = Last.ip
    BY <1>1 DEF Entry
  <2>3. Note(e) /\ mem' = mem /\ phase' = phase
    BY <1>4 DEF trace_reg_write
  <2>. HIDE DEF e
  <2>4. QED
    BY <1>0, <2>1, <2>2, <2>3, EventStep DEF TypeOK
<1>5. QED
  BY <1>3, <1>4 DEF Registers

\* A branch helper: it sets is_branch, branch_taken and the registers of its
\* tables dst and src.
LEMMA BranchStep ==
  ASSUME TypeOK, BodyHasEntry, Event,
         NEW dst \in [Dst -> UInt8], NEW src \in [Src -> UInt8], NEW taken \in {0, 1},
         inst' = IF tracing
                 THEN [inst EXCEPT !.is_branch = 1,
                                   !.branch_taken = taken,
                                   !.destination_registers = Assign(@, dst),
                                   !.source_registers = Assign(@, src)]
                 ELSE inst,
         NoteBranch(dst, src), mem' = mem, phase' \in {"idle", "body"}
  PROVE  TypeOK' /\ BodyHasEntry' /\ EventFrame
<1>. DEFINE e == [Last EXCEPT !.setDst = @ \cup NonZero(dst),
                              !.setSrc = @ \cup NonZero(src)]
<1>1. Last \in Entry
  BY LastType DEF Event
<1>2. NonZero(dst) \subseteq UInt8 /\ NonZero(src) \subseteq UInt8
  BY DEF NonZero
<1>3. e \in Entry /\ e.ip = Last.ip
  BY <1>1, <1>2 DEF Entry
<1>4. Note(e)
  BY DEF NoteBranch
<1>. HIDE DEF e
<1>5. inst \in RecordType(Addrs, Vals \cup {0})
  BY DEF TypeOK, Record
<1>6. inst' \in Record
  BY <1>5, AssignType DEF Record
<1>7. inst'.ip = inst.ip
  BY <1>5 DEF RecordType
<1>8. QED
  BY <1>3, <1>4, <1>6, <1>7, EventStep DEF TypeOK

\* Side exits and the ends of superblocks.
LEMMA BranchesStep ==
  ASSUME TypeOK, BodyHasEntry, Branches
  PROVE  TypeOK' /\ BodyHasEntry' /\ EventFrame
<1>1. ASSUME NEW ci \in BOOLEAN, NEW guard \in BOOLEAN,
             trace_branch_conditional(ci, guard)
      PROVE  TypeOK' /\ BodyHasEntry' /\ EventFrame
  <2>1. <<REG_PC, 0>> \in [Dst -> UInt8] /\ <<REG_PC, REG_FLAGS, 0, 0>> \in [Src -> UInt8]
    BY TableTypes DEF JumpKind
  <2>2. (IF guard = ci THEN 0 ELSE 1) \in {0, 1}
    OBVIOUS
  <2>3. Event /\ mem' = mem /\ phase' \in {"idle", "body"}
    BY <1>1 DEF trace_branch_conditional, Event
  <2>4. QED
    BY <1>1, <2>1, <2>2, <2>3, BranchStep DEF trace_branch_conditional, BranchConditional
<1>2. ASSUME NEW jk \in JumpKind, trace_branch_direct(jk)
      PROVE  TypeOK' /\ BodyHasEntry' /\ EventFrame
  BY <1>2, TableTypes, BranchStep DEF trace_branch_direct, BranchDirect
<1>3. ASSUME NEW jk \in JumpKind, trace_branch_indirect(jk)
      PROVE  TypeOK' /\ BodyHasEntry' /\ EventFrame
  BY <1>3, TableTypes, BranchStep DEF trace_branch_indirect, BranchIndirect
<1>4. QED
  BY <1>1, <1>2, <1>3 DEF Branches

\* Every event of an instruction.
LEMMA EventsStep ==
  ASSUME TypeOK, BodyHasEntry, Memory \/ Registers \/ Branches
  PROVE  TypeOK' /\ BodyHasEntry' /\ EventFrame
BY MemoryStep, RegistersStep, BranchesStep

-----------------------------------------------------------------------------

\* Every step keeps the types.
LEMMA NextType == TypeOK /\ BodyHasEntry /\ [Next]_vars => TypeOK' /\ BodyHasEntry'
<1>. SUFFICES ASSUME TypeOK, BodyHasEntry, [Next]_vars PROVE TypeOK' /\ BodyHasEntry'
  OBVIOUS
<1>1. ASSUME NEW t \in Threads, EnterSB(t) PROVE TypeOK' /\ BodyHasEntry'
  BY <1>1 DEF EnterSB, TypeOK, BodyHasEntry, options, tool, history
<1>2. ASSUME NEW ip \in Ips, IMark(ip) PROVE TypeOK' /\ BodyHasEntry'
  BY <1>2, IMarkType
<1>3. CASE Memory \/ Registers \/ Branches
  BY <1>3, EventsStep
<1>6. CASE LeaveSB
  BY <1>6 DEF LeaveSB, TypeOK, BodyHasEntry, options, tool, history
<1>7. CASE ct_fini
  BY <1>7 DEF ct_fini, TypeOK, BodyHasEntry, options
<1>8. CASE Kill
  BY <1>8 DEF Kill, TypeOK, BodyHasEntry, options, tool, history
<1>9. CASE UNCHANGED vars
  BY <1>9 DEF vars, TypeOK, BodyHasEntry, options, tool, guest, history
<1>10. QED
  BY <1>1, <1>2, <1>3, <1>6, <1>7, <1>8, <1>9 DEF Next

\* The types of the tool's state, the guest's and the history are invariant.
THEOREM TypeCorrect == Spec => [](TypeOK /\ BodyHasEntry)
BY InitType, NextType, PTL DEF Spec

=============================================================================
