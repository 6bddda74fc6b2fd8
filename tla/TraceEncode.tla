---------------------------- MODULE TraceEncode ----------------------------
(***************************************************************************)
(* The encoding of one record in the trace file, write_inst_to_file of     *)
(* ct_main.c up to its call of VG_(write).  The file holds, per record, a  *)
(* 2-byte key, the 8-byte ip and then only the slots in use.  The key does *)
(* not say which slots these were: each mask moves on only when a slot is  *)
(* present, so the key counts the slots of each kind in unary.             *)
(***************************************************************************)
EXTENDS InstRecord, Sequences, FiniteSets

INST_IS_BRANCH_MASK == 8192
INST_BRANCH_TAKEN_MASK == 4096
\* Mutant of DEST_REG_MASK: its second bit is the taken bit.
DEST_REG_MASK_high == 2048
DEST_REG_MASK == 1024
DEST_MEM_MASK == 256
SOURCE_REG_MASK == 16
SOURCE_MEM_MASK == 1

\* The slot numbers of a kind that are in use, in ascending order.
DestRegSlots(r) ==
  SelectSeq(<<1, 2>>, LAMBDA i : r.destination_registers[i] # 0)
DestMemSlots(r) ==
  SelectSeq(<<1, 2>>, LAMBDA i : r.d_valid[i] # 0)
SourceRegSlots(r) ==
  SelectSeq(<<1, 2, 3, 4>>, LAMBDA i : r.source_registers[i] # 0)
SourceMemSlots(r) ==
  SelectSeq(<<1, 2, 3, 4>>, LAMBDA i : r.s_valid[i] # 0)

\* n present slots set n consecutive bits, starting at mask.
Unary(mask, n) == mask * (2 ^ n - 1)

EncodeKey(r) ==
    r.is_branch * INST_IS_BRANCH_MASK
  + r.branch_taken * INST_BRANCH_TAKEN_MASK
  + Unary(DEST_REG_MASK, Len(DestRegSlots(r)))
  + Unary(DEST_MEM_MASK, Len(DestMemSlots(r)))
  + Unary(SOURCE_REG_MASK, Len(SourceRegSlots(r)))
  + Unary(SOURCE_MEM_MASK, Len(SourceMemSlots(r)))

\* memcpy(buffer + index, &registers[i], 4) copies four bytes of the struct
\* from a one-byte element: the register and the three bytes that follow it.
\* destination_registers and source_registers are adjacent, and
\* destination_memory (little endian) comes next.
Bytes(r) ==
  LET low == r.destination_memory[1]
  IN  r.destination_registers \o r.source_registers
      \o <<low % 256, (low \div 256) % 256, (low \div 65536) % 256>>

RegisterField(r, byte) == SubSeq(Bytes(r), byte, byte + 3)

\* The buffer handed to VG_(write), as the sequence of its fields.
WriteInst(r) ==
  LET dregs == DestRegSlots(r)
      dmems == DestMemSlots(r)
      sregs == SourceRegSlots(r)
      smems == SourceMemSlots(r)
  IN  <<EncodeKey(r), r.ip>>
      \o [k \in 1 .. Len(dregs) |-> RegisterField(r, dregs[k])]
      \o [k \in 1 .. Len(dmems) |-> <<r.destination_memory[dmems[k]],
                                      r.d_value[dmems[k]]>>]
      \o [k \in 1 .. Len(sregs) |->
            RegisterField(r, NUM_INSTR_DESTINATIONS + sregs[k])]
      \o [k \in 1 .. Len(smems) |-> <<r.source_memory[smems[k]],
                                      r.s_value[smems[k]]>>]

\* Mutant of BufferSize: room for the addresses but not for the lines.
BufferSize_noLines == 128
BufferSize == 1152

\* index at the call of VG_(write): the number of bytes written.
WrittenBytes(r) ==
  2 + 8 + 4 * (Len(DestRegSlots(r)) + Len(SourceRegSlots(r)))
        + (8 + CACHE_LINE_SIZE) * (Len(DestMemSlots(r)) + Len(SourceMemSlots(r)))

-----------------------------------------------------------------------------
(* A reader of the trace.  The repository has none (ChampSim reads the     *)
(* file): this is what a reader can learn, from the key alone, about where *)
(* a record's fields are and where the next record starts.                 *)

BitsSet(key, mask, max) ==
  Cardinality({b \in 0 .. max - 1 : (key \div (mask * 2 ^ b)) % 2 = 1})

DestRegCount(key) == BitsSet(key, DEST_REG_MASK, NUM_INSTR_DESTINATIONS)
DestMemCount(key) == BitsSet(key, DEST_MEM_MASK, NUM_INSTR_DESTINATIONS)
SourceRegCount(key) == BitsSet(key, SOURCE_REG_MASK, NUM_INSTR_SOURCES)
SourceMemCount(key) == BitsSet(key, SOURCE_MEM_MASK, NUM_INSTR_SOURCES)

FieldCount(key) ==
  2 + DestRegCount(key) + DestMemCount(key)
    + SourceRegCount(key) + SourceMemCount(key)

ReadRecord(fields) ==
  LET key == fields[1]
      dm == 2 + DestRegCount(key)
      sr == dm + DestMemCount(key)
      sm == sr + SourceRegCount(key)
  IN  [ip |-> fields[2],
       is_branch |-> (key \div INST_IS_BRANCH_MASK) % 2,
       branch_taken |-> (key \div INST_BRANCH_TAKEN_MASK) % 2,
       dregs |-> [k \in 1 .. DestRegCount(key) |-> fields[2 + k][1]],
       dmems |-> [k \in 1 .. DestMemCount(key) |-> fields[dm + k]],
       sregs |-> [k \in 1 .. SourceRegCount(key) |-> fields[sr + k][1]],
       smems |-> [k \in 1 .. SourceMemCount(key) |-> fields[sm + k]]]

\* The records of a file that holds n of them, one after the other.
ReadFile(fields, n) ==
  LET start[k \in 1 .. n + 1] ==
        IF k = 1 THEN 1
        ELSE start[k - 1] + FieldCount(fields[start[k - 1]])
  IN  [k \in 1 .. n |-> ReadRecord(SubSeq(fields, start[k], Len(fields)))]

\* What the record says: its slots in use, in slot order, without the gaps.
InUse(slots, used(_)) ==
  LET index == SelectSeq([i \in 1 .. Len(slots) |-> i], used)
  IN  [k \in 1 .. Len(index) |-> slots[index[k]]]

Said(r) ==
  LET pair(addrs, values) == [i \in DOMAIN addrs |-> <<addrs[i], values[i]>>]
  IN  [ip |-> r.ip,
       is_branch |-> r.is_branch,
       branch_taken |-> r.branch_taken,
       dregs |-> InUse(r.destination_registers,
                       LAMBDA i : r.destination_registers[i] # 0),
       dmems |-> InUse(pair(r.destination_memory, r.d_value),
                       LAMBDA i : r.destination_memory[i] # 0),
       sregs |-> InUse(r.source_registers,
                       LAMBDA i : r.source_registers[i] # 0),
       smems |-> InUse(pair(r.source_memory, r.s_value),
                       LAMBDA i : r.source_memory[i] # 0)]

=============================================================================
