----------------------------- MODULE CtLiteBlock -----------------------------
(***************************************************************************)
(* cl_instrument of cl_main.c and its instrumented superblocks at run      *)
(* time, ctlite's helpers called where it put them.  cl_instrument is      *)
(* ct_instrument without the calls for registers and for the end of a      *)
(* superblock, so the statements are CtInstrument's.                       *)
(***************************************************************************)
EXTENDS CtLite, CtInstrument, FiniteSets

LOCAL INSTANCE Functions
LOCAL INSTANCE SequencesExt

CONSTANTS
  Superblocks,     \* the guest's code: IR of superblocks [stmts, next]
  Temps            \* temporaries that guards test

VARIABLES
  code,            \* instrumented code of the block being run, or << >>
  pc,              \* next step of it
  next,            \* where the end of the block goes
  temps,           \* values of the temporaries
  \* history: per bucket the accesses that took place and those that were
  \* guarded off or failed; conditional jumps by where they went
  performed, skipped, took, fell

block == <<code, pc, next, temps>>
guest == <<performed, skipped, took, fell>>

\* Registers are not instrumented.
ClStmt(st, at) ==
  IF st.tag \in {"Put", "Get"} THEN Stmt(st) ELSE InstrumentStmt(st, at)

cl_instrument(sb) ==
  LET instrumented(i) ==
        IF IMarks(sb.stmts, i) = {} THEN Stmt(sb.stmts[i])
        ELSE ClStmt(sb.stmts[i], sb.stmts[Latest(IMarks(sb.stmts, i))])
  IN  FlattenSeq([i \in 1 .. Len(sb.stmts) |-> instrumented(i)])

LiteInit ==
  /\ Init
  /\ code = << >> /\ pc = 1 /\ next = 0
  /\ temps = [t \in Temps |-> FALSE]
  /\ performed = [b \in MBuckets |-> 0]
  /\ skipped = [b \in MBuckets |-> 0]
  /\ took = 0 /\ fell = 0

Enter(sb, values) ==
  /\ fd = "open" /\ code = << >>
  /\ code' = cl_instrument(sb)
  /\ pc' = 1
  /\ next' = sb.next
  /\ temps' = values
  /\ UNCHANGED <<vars, guest>>

-----------------------------------------------------------------------------

Held(g) == \A c \in g : temps[c[1]] = c[2]

At(f) == pc <= Len(code) /\ code[pc].do = f

Advance == pc' = pc + 1 /\ UNCHANGED <<code, next, temps>>

Leave == code' = << >> /\ pc' = 1 /\ UNCHANGED <<next, temps>>

Helper ==
  /\ Advance
  /\ UNCHANGED guest
  /\ \/ At("instruction") /\ trace_instr(code[pc].ip)
     \/ At("trace_load") /\ trace_access(code[pc].addr)
     \/ At("trace_store") /\ Held(code[pc].guard) /\ trace_access(code[pc].addr)
     \/ At("trace_store") /\ ~ Held(code[pc].guard) /\ UNCHANGED vars
     \/ /\ At("trace_branch_conditional")
        /\ trace_branch_conditional(code[pc].ci, Held(code[pc].guard))

\* Accesses [done, not] of a statement, as the set of its possible outcomes.
\* The guard of a dirty helper of the guest's is not passed to ctlite's.
Accesses(st) ==
  LET guarded(n) == IF Held(st.guard) THEN {<<n, 0>>} ELSE {<<0, n>>}
  IN  CASE st.tag \in {"Load", "Store"} -> {<<1, 0>>}
        [] st.tag \in {"LoadG", "StoreG"} -> guarded(1)
        [] st.tag = "CAS" -> {<<2, 0>>, <<1, 1>>}
        [] st.tag = "LLSC" -> IF st.sc THEN {<<1, 0>>, <<0, 1>>} ELSE {<<1, 0>>}
        [] st.tag = "Dirty" -> guarded(CASE st.mFx = "None" -> 0
                                         [] st.mFx = "Modify" -> 2
                                         [] OTHER -> 1)
        [] OTHER -> {<<0, 0>>}

GuestAccess ==
  /\ At("stmt") /\ code[pc].st.tag # "Exit"
  /\ LET st == code[pc].st
     IN  \E x \in Accesses(st) :
           IF x = <<0, 0>> THEN UNCHANGED <<performed, skipped>>
           ELSE /\ performed' = [performed EXCEPT ![MBucket(st.addr)] = @ + x[1]]
                /\ skipped' = [skipped EXCEPT ![MBucket(st.addr)] = @ + x[2]]
  /\ UNCHANGED <<took, fell, vars>>
  /\ Advance

\* The instruction a step of the code belongs to.
Marked(p) ==
  LET marks_ == {i \in 1 .. p : code[i].do = "instruction"}
  IN  code[Latest(marks_)].st

\* Where control goes at the Exit at pc when its guard fails: the next
\* instruction of the block, or its end.
Onward ==
  LET ahead == {i \in pc .. Len(code) : code[i].do = "instruction"}
  IN  IF ahead = {} THEN next ELSE code[CHOOSE i \in ahead : \A j \in ahead : i <= j].ip

\* A branch, or the retry of a locked instruction: taken in the guest's terms
\* if control does not go to the instruction behind it.
GuestBranch ==
  /\ At("stmt") /\ code[pc].st.tag = "Exit"
  /\ LET st == code[pc].st
         to == IF Held(st.guard) THEN st.dst ELSE Onward
         behind == Marked(pc).addr + Marked(pc).len
     IN  /\ IF st.jk \notin BranchJumpKinds THEN UNCHANGED <<took, fell>>
            ELSE IF to = behind THEN fell' = fell + 1 /\ UNCHANGED took
            ELSE took' = took + 1 /\ UNCHANGED fell
         /\ IF Held(st.guard) THEN Leave ELSE Advance
  /\ UNCHANGED <<performed, skipped, vars>>

EndOfBlock ==
  /\ code # << >> /\ pc > Len(code)
  /\ Leave
  /\ UNCHANGED <<vars, guest>>

LiteNext ==
  \/ \E sb \in Superblocks, values \in [Temps -> BOOLEAN] : Enter(sb, values)
  \/ Helper
  \/ GuestAccess
  \/ GuestBranch
  \/ EndOfBlock
  \/ cl_fini /\ UNCHANGED <<block, guest>>

LiteSpec == LiteInit /\ [][LiteNext]_<<vars, block, guest>>

-----------------------------------------------------------------------------
(* Properties.                                                             *)

\* A counter's value over the whole run, as far as a UInt tells: what the
\* snapshots hold of it, and what it has reached since.
OverRun(now, in(_)) ==
  (now + FoldFunction(+, 0, [k \in 1 .. Len(file) |-> in(file[k].snap)])) % UINT_MOD

\* Between superblocks each access that took place has been counted once, in
\* the bucket of its address; on top of these only accesses whose guard failed
\* (loads, and helpers of the guest's such as xsave's) or that failed
\* (compare-and-swap, store-conditional).  Counters that wrapped are right
\* modulo their width.
AccessesAreCounted ==
  code = << >> =>
    \A b \in MBuckets :
      LET in(s) == s.Mmap[b]
      IN  \E extra \in 0 .. skipped[b] :
            OverRun(Mmap[b], in) = (performed[b] + extra) % UINT_MOD

\* Between superblocks the two counters of branches are, modulo their width,
\* the numbers of conditional jumps that went elsewhere and to the instruction
\* behind, whichever of the two VEX made the Exit's destination.  These are the
\* jumps that have an Exit: one that VEX merged into a later one (the && idiom)
\* has none, and is not counted.
BranchesAreCounted ==
  code = << >> =>
    LET inT(s) == s.TBranches
        inU(s) == s.UBranches
    IN  /\ OverRun(TBranches, inT) = took % UINT_MOD
        /\ OverRun(UBranches, inU) = fell % UINT_MOD

=============================================================================
