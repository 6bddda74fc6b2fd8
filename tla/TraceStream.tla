---------------------------- MODULE TraceStream ----------------------------
(***************************************************************************)
(* The trace file as a stream: records are encoded one after the other     *)
(* (write_inst_to_file) and nothing but the keys separates them.  Records  *)
(* range over every combination of slots in use that the helpers can       *)
(* leave: any register slots (branch helpers leave gaps), memory slots     *)
(* from the first on, a taken flag only on a branch.                       *)
(***************************************************************************)
EXTENDS TraceEncode

LOCAL INSTANCE SequencesExt

CONSTANT
  MaxRecords       \* bound: records in the file

VARIABLE
  stream           \* the records written so far; the file is their encoding

\* Slot i of an array in use holds a value of its own, so that a field read
\* back from the wrong place shows.
Slots(n, base) ==
  {[i \in 1 .. n |-> IF i \in used THEN base + i ELSE 0] : used \in SUBSET (1 .. n)}

Prefix(n, used, base) == [i \in 1 .. n |-> IF i <= used THEN base + i ELSE 0]

Valid(n, used) == [i \in 1 .. n |-> IF i <= used THEN 1 ELSE 0]

Records ==
  {[ip |-> 4, is_branch |-> b[1], branch_taken |-> b[2],
    destination_registers |-> dregs, source_registers |-> sregs,
    destination_memory |-> Prefix(2, d, 70000), d_valid |-> Valid(2, d),
    d_value |-> Prefix(2, d, 40),
    source_memory |-> Prefix(4, s, 80000), s_valid |-> Valid(4, s),
    s_value |-> Prefix(4, s, 50)] :
   b \in {<<0, 0>>, <<1, 0>>, <<1, 1>>},
   dregs \in Slots(2, 10), sregs \in Slots(4, 20), d \in 0 .. 2, s \in 0 .. 4}

\* The records that follow the first one: none of the slots, all, or some.
Following ==
  {r \in Records :
    /\ r.is_branch = r.branch_taken
    /\ r.destination_registers \in {<<0, 0>>, <<11, 12>>}
    /\ r.source_registers \in {<<0, 0, 0, 0>>, <<0, 0, 23, 0>>}
    /\ r.destination_memory[2] # 0
    /\ r.source_memory[1] = 0}

Init == stream = <<>>

write_inst_to_file ==
  /\ Len(stream) < MaxRecords
  /\ \E r \in IF stream = <<>> THEN Records ELSE Following :
       stream' = Append(stream, r)

Spec == Init /\ [][write_inst_to_file]_stream

-----------------------------------------------------------------------------

Fields == FlattenSeq([k \in 1 .. Len(stream) |-> WriteInst(stream[k])])

\* Reading the file of write_inst_to_file field by field, with nothing but
\* the keys to tell where a record ends, gives back what every record said.
FileReadsBack ==
  ReadFile(Fields, Len(stream)) = [k \in 1 .. Len(stream) |-> Said(stream[k])]

\* write_inst_to_file's assertion (ct_main.c:546): the key fits 16 bits; and
\* the encoded record fits the buffer it is put together in (ct_main.c:491).
KeyAndBufferFit ==
  \A k \in 1 .. Len(stream) :
    /\ EncodeKey(stream[k]) \in 0 .. 65535
    /\ WrittenBytes(stream[k]) <= BufferSize

=============================================================================
