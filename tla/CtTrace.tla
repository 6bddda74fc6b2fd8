------------------------------ MODULE CtTrace ------------------------------
(***************************************************************************)
(* From guest code to trace: the guest runs from superblock to superblock, *)
(* each is formed by VexBlock, instrumented by CtInstrument and run as in  *)
(* CtSuperblock.  This is where the records of a trace can be compared     *)
(* with the instructions the guest executed and the branches it took.      *)
(***************************************************************************)
EXTENDS CtSuperblock, VexBlock

LOCAL S == INSTANCE SequencesExt

CONSTANT
  Runnable      \* bound: the programs that are run, not only translated

VARIABLE
  ran      \* history: per instruction counted, whether the guest executed it
           \* and the value of its condition

allvars == <<vars, block, bbvars, ran>>

\* The window is CsTracer's concern: here it is open from the start.
CtInit ==
  /\ SBInit /\ skip = 0 /\ trace_instrs # 0 /\ ~ exit_after_tracing
  /\ BBInit
  /\ ran = << >>

-----------------------------------------------------------------------------

\* The IR of an instruction in the form ct_instrument sees it.  Effects other
\* than control are not told apart here.
AsIR(e) ==
  <<[tag |-> "IMark", addr |-> e.addr, len |-> 1, when |-> e.when, k |-> e.k]>>
    \o (IF e.exits
        THEN <<[tag |-> "Exit", dst |-> e.dst, jk |-> "Boring", guard |-> e.guard]>>
        ELSE << >>)
    \o (IF e.work # "none" THEN <<[tag |-> "WrTmp"]>> ELSE << >>)

AsSB(bb) == [stmts |-> S!FlattenSeq([i \in 1 .. Len(bb.insns) |-> AsIR(bb.insns[i])]),
             next |-> bb.next, jk |-> bb.jk]

FormBlock ==
  /\ status = "running" /\ phase = "idle"
  /\ BBNext
  /\ UNCHANGED <<vars, block, ran>>

\* Bound: of the programs that are run, those whose jumps may all be chased.
EnterBlock ==
  /\ forming = "done"
  /\ prog \in Runnable /\ nochase = {}
  /\ \E values \in [Temps -> BOOLEAN] :
       /\ \A t \in Temps : t > irsb.conds => ~ values[t]
       /\ Enter(AsSB(irsb), values)
  /\ UNCHANGED <<bbvars, ran>>

\* The next block starts where this one leaves to; an address that is not
\* known beforehand may be any.
Goes(a) ==
  /\ start' \in IF a = 0 THEN Code ELSE {a}
  /\ irsb' = NoBlock
  /\ vge' = << >>
  /\ avail' = guest_max_insns
  /\ verbose' = FALSE
  /\ forming' = "start"
  /\ UNCHANGED <<prog, nochase>>

RunInstruction ==
  /\ Instruction
  /\ LET st == code[pc].st
     IN  ran' = Append(ran, [executed |-> Held(st.when),
                             cond |-> st.k # 0 /\ temps[st.k]])
  /\ UNCHANGED bbvars

RunStep ==
  /\ Helper \/ GuestOther
  /\ IF phase' = "idle" THEN Goes(irsb.next) ELSE UNCHANGED bbvars
  /\ UNCHANGED ran

LeaveBlock ==
  /\ Leave
  /\ Goes(IF pc > Len(code) THEN irsb.next ELSE code[pc].st.dst)
  /\ UNCHANGED ran

\* A process ends by what it executes.
Exit == log # << >> /\ ct_fini /\ UNCHANGED <<block, bbvars, ran>>

CtNext ==
  \/ FormBlock
  \/ EnterBlock
  \/ RunInstruction
  \/ RunStep
  \/ LeaveBlock
  \/ Exit

CtSpec == CtInit /\ [][CtNext]_allvars

-----------------------------------------------------------------------------
(* Properties.                                                             *)

OpOf(n) == InsnAt(log[n].ip).op

ConditionalOps == {"cond", "icond"}
BranchOps == ConditionalOps \cup {"jmp", "call", "ret", "ijmp"}

Taken(n) == GuestNext(log[n].ip, ran[n].cond) # log[n].ip + 1

\* The instructions counted by inc_inst, without those the guest did not
\* execute, are the guest's execution: each is where the one before it goes,
\* within a superblock and from one to the next.
CountedFollowGuest ==
  \A m, n \in 1 .. Len(log) :
    /\ m < n /\ ran[m].executed /\ ran[n].executed
    /\ \A i \in m + 1 .. n - 1 : ~ ran[i].executed
    => GuestNext(log[m].ip, ran[m].cond) \in {0, log[n].ip}

\* A branch recorded as not taken was not taken: the direction VEX gave the
\* side exit is undone by condition_inverted, also behind the && idiom.
NotTakenWasNotTaken ==
  \A k \in 1 .. Len(file) :
    LET n == file[k].n
    IN  ran[n].executed /\ file[k].rec.is_branch = 1 /\ file[k].rec.branch_taken = 0
          => OpOf(n) \in Conditional /\ ~ Taken(n)

\* "is this branch // if so, is this taken" (ct_main.c:184-185): a branch
\* recorded as taken was taken.
TakenWasTaken ==
  \A k \in 1 .. Len(file) :
    LET n == file[k].n
    IN  ran[n].executed /\ OpOf(n) \in ConditionalOps /\ file[k].rec.branch_taken = 1
          => Taken(n)

\* "is this branch" (ct_main.c:184): what is recorded as a branch is one.
MarkedIsBranch ==
  \A k \in 1 .. Len(file) : file[k].rec.is_branch = 1 => OpOf(file[k].n) \in BranchOps

\* "is this branch" (ct_main.c:184): a branch is recorded as one.
BranchIsMarked ==
  \A k \in 1 .. Len(file) :
    ran[file[k].n].executed /\ OpOf(file[k].n) \in BranchOps => file[k].rec.is_branch = 1

\* "instruction pointer (program counter) value" (ct_main.c:182): a record in
\* the trace is of an instruction that the guest's program counter reached.
RecordedWasExecuted == \A k \in 1 .. Len(file) : ran[file[k].n].executed

=============================================================================
