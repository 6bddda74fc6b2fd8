---------------------------- MODULE CtSuperblock ----------------------------
(***************************************************************************)
(* Instrumented superblocks at run time: ct_instrument's output executed   *)
(* step by step, the helpers of CsTracer called where ct_instrument put    *)
(* them.  Every step here is a step of CsTracer or leaves its state alone. *)
(* Only the guest's own statements change memory; CsTracer has the other   *)
(* writers.                                                                *)
(***************************************************************************)
EXTENDS CsTracer, CtInstrument

CONSTANTS
  Superblocks,     \* the guest's code: IR of superblocks [stmts, next, jk]
  Temps            \* temporaries that guards test

\* The guest's addresses and registers are those its code names.
IsStmt(st) ==
  /\ st.tag \in Tags
  /\ st.tag = "IMark" => st.addr \in Ips
  /\ st.tag = "LLSC" => st.sc \in BOOLEAN
  /\ Loads(st) \/ Stores(st) => st.addr \in Addrs
  /\ st.tag \in {"Get", "Put"} =>
       offset_to_register(st.offset) \in Regs \cup {Untraced, REG_PC, Asserts}

IsSuperblock(sb) ==
  /\ sb.stmts \in Seq({sb.stmts[i] : i \in DOMAIN sb.stmts})
  /\ \A i \in 1 .. Len(sb.stmts) : IsStmt(sb.stmts[i])

ASSUME SuperblockAssumption ==
  /\ \A sb \in Superblocks : IsSuperblock(sb)
  /\ Jumps = JumpKind \cup {"Cond"}

VARIABLES
  code,        \* instrumented code of the block being run
  pc,          \* next step of it
  temps,       \* values of the temporaries
  did          \* history: per instruction, the accesses it made or attempted

block == <<code, pc, temps, did>>

Held(g) == \A c \in g : temps[c[1]] = c[2]

SBInit ==
  /\ Init
  /\ code = << >>
  /\ pc = 1
  /\ temps = [t \in Temps |-> FALSE]
  /\ did = << >>

\* VG_(translate) and the dispatch of the translation.
Enter(sb, values) ==
  /\ \E t \in Threads : EnterSB(t)
  /\ ~ Aborts(sb)
  /\ code' = ct_instrument(sb)
  /\ pc' = 1
  /\ temps' = values
  /\ UNCHANGED did

\* The assertion ends the process: no ct_fini, the file is left as it is.
AbortTranslation(sb) ==
  /\ status = "running" /\ phase = "idle"
  /\ Aborts(sb)
  /\ status' = "killed"
  /\ UNCHANGED <<options, tool, mem, running, phase, history, block>>

-----------------------------------------------------------------------------

At(f) == pc <= Len(code) /\ code[pc].do = f
StmtAt(tags) == At("stmt") /\ code[pc].st.tag \in tags

Advance == pc' = pc + 1 /\ UNCHANGED <<code, temps>>

Still == UNCHANGED vars

\* History: an access of the current instruction, with the line as read or as
\* left; made, or not because of its guard or because it failed.
Access(kind, a, line, made) == [kind |-> kind, addr |-> a, line |-> line, made |-> made]
Did(accesses) == did' = IF phase = "body" THEN [did EXCEPT ![Len(did)] = @ \o accesses] ELSE did

Instruction ==
  /\ At("instruction")
  /\ IMark(code[pc].ip)
  /\ did' = Append(did, << >>)
  /\ Advance

Helper ==
  /\ phase \in {"preamble", "body"}
  /\ Advance
  /\ UNCHANGED did
  /\ \/ At("trace_load") /\ trace_load(code[pc].addr)
     \/ At("trace_store") /\ Held(code[pc].guard) /\ trace_store(code[pc].addr)
     \/ At("trace_store") /\ ~ Held(code[pc].guard) /\ Still
     \/ At("trace_reg_read") /\ trace_reg_read(code[pc].reg)
     \/ At("trace_reg_write") /\ trace_reg_write(code[pc].reg)
     \/ /\ At("trace_branch_conditional")
        /\ trace_branch_conditional(code[pc].ci, Held(code[pc].guard))
     \/ At("trace_branch_direct") /\ trace_branch_direct(code[pc].jk)
     \/ At("trace_branch_indirect") /\ trace_branch_indirect(code[pc].jk)

Guarded(st) == st.tag \in {"LoadG", "StoreG", "Dirty"} => Held(st.guard)

\* A compare-and-swap or store-conditional stores or fails.
MayFail(st) == st.tag = "CAS" \/ (st.tag = "LLSC" /\ st.sc)

\* What is read by a statement that also stores is swapped.
ReadAccess(st, kind) ==
  IF Loads(st) THEN <<Access(kind, st.addr, mem[LineOf(st.addr)], Guarded(st))>> ELSE << >>

\* A store that does not take place and whose helper is called all the same.
FailedWrite(st) ==
  IF Stores(st) /\ st.tag # "StoreG"
  THEN <<Access("write", st.addr, mem[LineOf(st.addr)], FALSE)>> ELSE << >>

\* An original statement that stores.
GuestWrites ==
  /\ At("stmt")
  /\ LET st == code[pc].st
     IN  /\ Stores(st) /\ Guarded(st)
         /\ \E v \in Vals :
              /\ MemoryWrite(LineOf(st.addr), v)
              /\ Did(ReadAccess(st, "swap") \o <<Access("write", st.addr, v, TRUE)>>)
  /\ Advance

\* Any other original statement, but an Exit that is taken.
GuestOther ==
  /\ At("stmt") /\ phase \in {"preamble", "body"} /\ status = "running"
  /\ LET st == code[pc].st
     IN  /\ ~ Stores(st) \/ ~ Guarded(st) \/ MayFail(st)
         /\ st.tag = "Exit" => ~ Held(st.guard)
         /\ Did(ReadAccess(st, "read") \o FailedWrite(st))
  /\ Advance
  /\ Still

Leave ==
  /\ \/ StmtAt({"Exit"}) /\ Held(code[pc].st.guard)
     \/ pc > Len(code)
  /\ LeaveSB
  /\ UNCHANGED block

RunBlock == Instruction \/ Helper \/ GuestWrites \/ GuestOther \/ Leave

SBNext ==
  \/ \E sb \in Superblocks, values \in [Temps -> BOOLEAN] : Enter(sb, values)
  \/ \E sb \in Superblocks : AbortTranslation(sb)
  \/ RunBlock
  \/ (ct_fini \/ Kill) /\ UNCHANGED block

SBSpec == SBInit /\ [][SBNext]_<<vars, block>>

-----------------------------------------------------------------------------
(* Properties.                                                             *)

\* Instrumented superblocks implement the tool's run-time model: what CsTracer
\* says of arbitrary sequences of helper calls holds of the sequences
\* ct_instrument makes.
ImplementsCsTracer == Spec

ReadKinds == {"read", "swap"}

\* The first access of the given kinds to an address.
IsFirst(accesses, f, kinds, a) ==
  /\ accesses[f].kind \in kinds /\ accesses[f].addr = a
  /\ \A i \in 1 .. f - 1 : accesses[i].addr = a => accesses[i].kind \notin kinds

\* An output address in a record comes with "data in cache block to which
\* store took place" (ct_main.c:195-197) as the instruction's first store to it
\* left it, also when that failed: the helper runs behind the store and before
\* the guest's next one.
StoredLineIsRecorded ==
  \A k \in 1 .. Len(file) : \A i \in Dst :
    LET r == file[k].rec
        accesses == did[file[k].n]
    IN  r.destination_memory[i] # 0 =>
          \E f \in 1 .. Len(accesses) :
            /\ IsFirst(accesses, f, {"write"}, r.destination_memory[i])
            /\ r.d_value[i] = accesses[f].line

\* Every access is in its instruction's record unless all slots hold other
\* addresses; the guard of a conditional store is the guard of the helper's
\* call.
AccessesAreRecorded ==
  \A k \in 1 .. Len(file) :
    LET r == file[k].rec
        accesses == did[file[k].n]
    IN  \A i \in 1 .. Len(accesses) :
          LET slots == IF accesses[i].kind = "write" THEN r.destination_memory
                       ELSE r.source_memory
          IN  Holds(slots, accesses[i].addr) \/ Full(slots)

\* An input address comes with the line that the instruction's first load of it
\* read, unless a store in the same statement has replaced it by the time the
\* helper runs.
ReadLineIsRecorded ==
  \A k \in 1 .. Len(file) : \A i \in Src :
    LET r == file[k].rec
        accesses == did[file[k].n]
    IN  r.source_memory[i] # 0 =>
          \E f \in 1 .. Len(accesses) :
            /\ IsFirst(accesses, f, ReadKinds, r.source_memory[i])
            /\ accesses[f].kind = "read" => r.s_value[i] = accesses[f].line

\* A compare-and-swap is "a (normal) read followed by a (normal) write"
\* (ct_main.c:1163-1167): its line, too, is the one that was read.
SwappedLineIsRecorded ==
  \A k \in 1 .. Len(file) : \A i \in Src :
    \A f \in 1 .. Len(did[file[k].n]) :
      IsFirst(did[file[k].n], f, ReadKinds, file[k].rec.source_memory[i])
        => file[k].rec.s_value[i] = did[file[k].n][f].line

\* An output address in a record stands for a store that took place: its line
\* is "data in cache block to which store took place" (ct_main.c:195-197).
RecordedStoresTookPlace ==
  \A k \in 1 .. Len(file) : \A i \in Dst :
    LET a == file[k].rec.destination_memory[i]
        accesses == did[file[k].n]
    IN  a # 0 => \E f \in 1 .. Len(accesses) :
                   accesses[f].kind = "write" /\ accesses[f].addr = a /\ accesses[f].made

=============================================================================
