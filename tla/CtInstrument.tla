---------------------------- MODULE CtInstrument ----------------------------
(***************************************************************************)
(* ct_instrument of ct_main.c: from the IR of a superblock to its          *)
(* instrumented code, a sequence of steps.  A step is a statement of the   *)
(* original block (do = "stmt") or a call of a helper.  The four calls and *)
(* the IMark of an instruction are one step, as in CsTracer.               *)
(*                                                                         *)
(* A statement is a record with the fields its tag calls for: addr (of     *)
(* memory, or of an IMark's instruction), len, offset (into the guest      *)
(* state), guard, mFx, sc (a store-conditional), dst and jk.  A WrTmp is    *)
(* tagged Load, Get or GetI if that is what it writes to the temporary.    *)
(***************************************************************************)
EXTENDS RegisterMap

LOCAL INSTANCE SequencesExt

Tags ==
  {"NoOp", "AbiHint", "PutI", "MBE", "IMark", "Put", "Get", "GetI", "WrTmp", "Load",
   "LoadG", "Store", "StoreG", "Dirty", "CAS", "LLSC", "Exit"}

\* A statement that loads, and one that stores, whether or not it comes to it.
Loads(st) ==
  \/ st.tag \in {"Load", "LoadG", "CAS"}
  \/ st.tag = "LLSC" /\ ~ st.sc
  \/ st.tag = "Dirty" /\ st.mFx \in {"Read", "Modify"}

Stores(st) ==
  \/ st.tag \in {"Store", "StoreG", "CAS"}
  \/ st.tag = "LLSC" /\ st.sc
  \/ st.tag = "Dirty" /\ st.mFx \in {"Write", "Modify"}

Always == {}      \* the guard that holds

Stmt(st) == <<[do |-> "stmt", st |-> st]>>

instrument_instruction(st) == <<[do |-> "instruction", ip |-> st.addr, st |-> st]>>

\* The guard is commented out: every load is traced.
instrument_load(addr) == <<[do |-> "trace_load", addr |-> addr]>>

instrument_store(addr, guard) ==
  <<[do |-> "trace_store", addr |-> addr, guard |-> guard]>>

\* Mutant of RegisterCall: the program counter is not left out.
RegisterCall_all(helper, offset) ==
  LET p == offset_to_register(offset)
  IN  IF p = Untraced THEN << >> ELSE <<[do |-> helper, reg |-> p]>>

RegisterCall(helper, offset) ==
  LET p == offset_to_register(offset)
  IN  IF p \in {Untraced, REG_PC} THEN << >> ELSE <<[do |-> helper, reg |-> p]>>

instrument_reg_read(offset) == RegisterCall("trace_reg_read", offset)

instrument_reg_write(offset) == RegisterCall("trace_reg_write", offset)

instrument_branch_conditional(ci, guard) ==
  <<[do |-> "trace_branch_conditional", ci |-> ci, guard |-> guard]>>

BranchJumpKinds == {"Boring", "Call", "Ret"}

\* Mutant of DirtyCalls: only helpers that modify are traced as stores.
DirtyCalls_modify(st) ==
    (IF st.mFx \in {"Read", "Modify"} THEN instrument_load(st.addr) ELSE << >>)
    \o (IF st.mFx = "Modify" THEN instrument_store(st.addr, Always) ELSE << >>)

\* The accesses a dirty helper of the guest's own declares (mFx).
DirtyCalls(st) ==
    (IF st.mFx \in {"Read", "Modify"} THEN instrument_load(st.addr) ELSE << >>)
    \o (IF st.mFx \in {"Write", "Modify"} THEN instrument_store(st.addr, Always)
        ELSE << >>)

\* Mutant of StoreThenCall: the helper is called before the store.
StoreThenCall_early(st, guard) == instrument_store(st.addr, guard) \o Stmt(st)

StoreThenCall(st, guard) == Stmt(st) \o instrument_store(st.addr, guard)

\* Mutant of ConditionInverted: the end of the instruction is not its length
\* away.
ConditionInverted_start(st, at) == st.dst = at.addr

ConditionInverted(st, at) == st.dst = at.addr + at.len

\* One statement; at is the IMark it belongs to.
InstrumentStmt(st, at) ==
  CASE st.tag = "NoOp" -> << >>
    [] st.tag \in {"AbiHint", "PutI", "MBE"} -> Stmt(st)
    [] st.tag = "IMark" -> instrument_instruction(st)
    [] st.tag = "Put" -> instrument_reg_write(st.offset) \o Stmt(st)
    [] st.tag = "Get" -> Stmt(st) \o instrument_reg_read(st.offset)
    [] st.tag \in {"GetI", "WrTmp"} -> Stmt(st)
    [] st.tag \in {"Load", "LoadG"} -> Stmt(st) \o instrument_load(st.addr)
    [] st.tag = "Store" -> StoreThenCall(st, Always)
    [] st.tag = "StoreG" -> StoreThenCall(st, st.guard)
    [] st.tag = "Dirty" -> Stmt(st) \o DirtyCalls(st)
    [] st.tag = "CAS" ->
         Stmt(st) \o instrument_load(st.addr) \o instrument_store(st.addr, Always)
    [] st.tag = "LLSC" -> IF st.sc THEN StoreThenCall(st, Always)
                          ELSE Stmt(st) \o instrument_load(st.addr)
    [] st.tag = "Exit" ->
         (IF st.jk \in BranchJumpKinds
          THEN instrument_branch_conditional(ConditionInverted(st, at), st.guard)
          ELSE << >>)
         \o Stmt(st)

\* The end of the block: next is an address, or 0 for a temporary.
InstrumentEnd(sb) ==
  CASE sb.jk \notin BranchJumpKinds -> << >>
    [] sb.jk \in BranchJumpKinds /\ sb.next # 0 ->
         <<[do |-> "trace_branch_direct", jk |-> sb.jk]>>
    [] sb.jk \in BranchJumpKinds /\ sb.next = 0 ->
         <<[do |-> "trace_branch_indirect", jk |-> sb.jk]>>

IMarks(stmts, n) == {i \in 1 .. n : stmts[i].tag = "IMark"}

Latest(S) == CHOOSE i \in S : \A j \in S : j <= i

\* ct_instrument: the preamble before the first IMark is copied verbatim.
ct_instrument(sb) ==
  LET code(i) == IF IMarks(sb.stmts, i) = {} THEN Stmt(sb.stmts[i])
                 ELSE InstrumentStmt(sb.stmts[i], sb.stmts[Latest(IMarks(sb.stmts, i))])
  IN  FlattenSeq([i \in 1 .. Len(sb.stmts) |-> code(i)]) \o InstrumentEnd(sb)

\* offset_to_arm64_register's assertion fails while the block is translated.
Aborts(sb) ==
  \E i \in 1 .. Len(sb.stmts) :
    /\ sb.stmts[i].tag \in {"Get", "Put"}
    /\ IMarks(sb.stmts, i) # {}
    /\ offset_to_register(sb.stmts[i].offset) = Asserts

=============================================================================
