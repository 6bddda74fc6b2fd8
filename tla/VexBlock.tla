------------------------------ MODULE VexBlock ------------------------------
(***************************************************************************)
(* How VEX forms the superblock that a tool instruments: bb_to_IR of       *)
(* VEX/priv/guest_generic_bb_to_IR.c.  A basic block of guest code is      *)
(* disassembled; if there is room it is extended, either by following an   *)
(* unconditional branch, or by recognising that two conditional branches   *)
(* test "A && B" and guarding the second block on A.                       *)
(*                                                                         *)
(* An instruction occupies one address.  Its IR is its IMark, an Exit if   *)
(* it branches on a condition, and one Work statement for all its effects  *)
(* but control, in this order; a block is a sequence of such instructions. *)
(* A guard is a set of pairs <<k, b>>: the condition of the k-th           *)
(* conditional instruction of the block equals b.                          *)
(***************************************************************************)
EXTENDS Integers, Sequences

CONSTANTS
  Code,               \* guest addresses that are not the end of the program
  Programs,           \* the guest's code: functions from Code to instructions
  guest_max_insns,    \* vex_control: instructions in a superblock
  guest_chase         \* vex_control: whether blocks are extended

Plain == {"alu", "mem", "verbose"}
Conditional == {"cond", "icond", "rep"}

\* An instruction is what it does and where it jumps to, 0 if that is not known
\* when the block is formed.
Insns ==
  [op : Plain \cup Conditional \cup {"jmp", "call", "ret", "ijmp", "sys"}, to : Nat]

ASSUME VexAssumption ==
  /\ Code \subseteq Nat \ {0}
  /\ \A p \in Programs : p \in [Code -> Insns]
  /\ guest_max_insns \in 1 .. 100
  /\ guest_chase \in BOOLEAN

VARIABLES
  prog,        \* the guest's code
  nochase,     \* addresses that chase_into_ok refuses
  start,       \* guest_IP_sbstart
  irsb,        \* the superblock
  vge,         \* its extents: sequence of <<base, len>>
  avail,       \* instrs_avail
  verbose,     \* verbose_mode
  forming      \* "start", "extend" or "done"

bbvars == <<prog, nochase, start, irsb, vge, avail, verbose, forming>>

InsnAt(a) == IF a \in Code THEN prog[a] ELSE [op |-> "ret", to |-> 0]

-----------------------------------------------------------------------------
(* The IR of an instruction.  when (its guard, which the IR leaves out of  *)
(* the IMark) and k (number of its condition, 0 if none) are history.      *)

\* Effects that may be made conditional, and effects that may not: loads,
\* stores, calls.
WorkOf(a) ==
  IF InsnAt(a).op \in {"alu", "verbose"} THEN "guardable"
  ELSE IF InsnAt(a).op \in {"mem", "call", "rep"} THEN "effect" ELSE "none"

\* dis_instr_fn.  An inverted condition leaves to the next instruction (the
\* amd64 front end picks the cheaper test); a repeated string instruction
\* leaves when its count is zero and jumps to itself otherwise.
Translate(a) ==
  LET exits == InsnAt(a).op \in Conditional
  IN  [addr |-> a, when |-> {}, k |-> IF exits THEN 1 ELSE 0,
       exits |-> exits,
       guard |-> IF exits THEN {<<1, InsnAt(a).op # "icond">>} ELSE {},
       dst |-> IF ~ exits THEN 0
               ELSE IF InsnAt(a).op = "cond" THEN InsnAt(a).to ELSE a + 1,
       work |-> WorkOf(a)]

\* Where a block goes that ends with the instruction at a, and how.
NextOf(a) ==
  IF InsnAt(a).op \in Plain \cup {"cond", "sys"} THEN a + 1
  ELSE IF InsnAt(a).op = "rep" THEN a ELSE InsnAt(a).to

JumpKindOf(a) ==
  IF InsnAt(a).op = "call" THEN "Call"
  ELSE IF InsnAt(a).op = "ret" THEN "Ret"
  ELSE IF InsnAt(a).op = "sys" THEN "Sys_syscall" ELSE "Boring"

-----------------------------------------------------------------------------
(* disassemble_basic_block_till_stop                                       *)

\* A verbose instruction halves what is left, but never below two.
Halved(n) == IF n > 2 THEN (n - 2) \div 2 + 2 ELSE n

VerboseSeen(a, n) == \E i \in 0 .. n - 1 : InsnAt(a + i).op = "verbose"

\* The block ends after its n-th instruction.
Stops(a, allowed, n) ==
  \/ InsnAt(a + n - 1).op \notin Plain
  \/ n >= IF VerboseSeen(a, n) THEN Halved(allowed) ELSE allowed

Used(a, allowed) ==
  CHOOSE n \in 1 .. allowed :
    Stops(a, allowed, n) /\ \A m \in 1 .. n - 1 : ~ Stops(a, allowed, m)

Disassemble(a, allowed) ==
  LET used == Used(a, allowed)
      last == a + used - 1
  IN  [insns |-> [i \in 1 .. used |-> Translate(a + i - 1)],
       next |-> NextOf(last),
       jk |-> JumpKindOf(last),
       conds |-> IF InsnAt(last).op \in Conditional THEN 1 ELSE 0,
       base |-> a, used |-> used, verbose |-> VerboseSeen(a, used)]

-----------------------------------------------------------------------------
(* analyse_block_end                                                       *)

chase_into_ok(a) == a \notin nochase

LastOf(bb) == bb.insns[Len(bb.insns)]

\* insn_has_no_other_exits_or_PUTs_to_PC: the only Exit of the last instruction
\* is the one looked at, if any.
NoOtherExits(bb) == ~ LastOf(bb).exits

\* The last statement is an Exit, and both ways on are known and may be chased
\* into.
EndsCond(bb) ==
  /\ bb.jk = "Boring" /\ LastOf(bb).exits /\ LastOf(bb).work = "none" /\ bb.next # 0
  /\ chase_into_ok(LastOf(bb).dst) /\ chase_into_ok(bb.next)

EndsUncond(bb) ==
  /\ bb.jk \in {"Boring", "Call"} /\ bb.next # 0
  /\ NoOtherExits(bb)
  /\ chase_into_ok(bb.next)

BlockEnd(bb) ==
  IF EndsCond(bb) THEN [tag |-> "Cond", sx |-> LastOf(bb).dst, ft |-> bb.next]
  ELSE [tag |-> IF EndsUncond(bb) THEN "Uncond" ELSE "Other", sx |-> 0, ft |-> bb.next]

definitely_does_not_jump_to(be, a) ==
  \/ be.tag = "Uncond" /\ be.ft # a
  \/ be.tag = "Cond" /\ be.sx # a /\ be.ft # a

-----------------------------------------------------------------------------
(* The && idiom                                                            *)

\* swap_sx_and_ft: the last Exit is taken on the opposite condition.
Negated(g) == {<<c[1], ~ c[2]>> : c \in g}

EndedBy(bb, last, next) ==
  [insns |-> [bb.insns EXCEPT ![Len(bb.insns)] = last],
   next |-> next, jk |-> bb.jk, conds |-> bb.conds]

\* Mutant of SwapSxFt: the guard is kept.
SwapSxFt_kept(bb) ==
  EndedBy(bb, [LastOf(bb) EXCEPT !.dst = bb.next], LastOf(bb).dst)

SwapSxFt(bb) ==
  LET e == LastOf(bb)
  IN  EndedBy(bb, [e EXCEPT !.guard = Negated(e.guard), !.dst = bb.next], e.dst)

\* Mutant of MayBeIdiom: the two arms may jump to each other.
MayBeIdiom_loop(be, sx, ft) ==
  /\ sx.tag = "Cond" \/ ft.tag = "Cond"
  /\ be.sx # be.ft
  /\ sx.tag = "Cond" => sx.sx # sx.ft
  /\ ft.tag = "Cond" => ft.sx # ft.ft

\* One arm ends with a conditional branch, the arms do not form a loop, and no
\* branch has the same target twice.
MayBeIdiom(be, sx, ft) ==
  /\ sx.tag = "Cond" \/ ft.tag = "Cond"
  /\ definitely_does_not_jump_to(sx, be.ft) \/ definitely_does_not_jump_to(ft, be.sx)
  /\ be.sx # be.ft
  /\ sx.tag = "Cond" => sx.sx # sx.ft
  /\ ft.tag = "Cond" => ft.sx # ft.ft

NoIdiom == 4

Iom1(be, sx) ==
  IF sx.tag # "Cond" THEN NoIdiom
  ELSE IF sx.ft = be.ft THEN 0 ELSE IF sx.sx = be.ft THEN 1 ELSE NoIdiom

Iom2(be, ft) ==
  IF ft.tag # "Cond" THEN NoIdiom
  ELSE IF ft.ft = be.sx THEN 2 ELSE IF ft.sx = be.sx THEN 3 ELSE NoIdiom

Idiom(be, sx, ft) ==
  IF ~ MayBeIdiom(be, sx, ft) THEN NoIdiom
  ELSE IF Iom1(be, sx) # NoIdiom THEN Iom1(be, sx) ELSE Iom2(be, ft)

\* Mutant of Guardable: loads, stores and calls are not looked at.
Guardable_any(bb) == TRUE

\* block_is_guardable: every statement but the final Exit.
Guardable(bb) ==
  \A i \in 1 .. Len(bb.insns) :
    bb.insns[i].work # "effect" /\ (i < Len(bb.insns) => ~ bb.insns[i].exits)

\* deltaIRStmt: conditions are numbered after those of the block so far.
Shift(g, d) == {<<c[1] + d, c[2]>> : c \in g}

Shifted(e, d) ==
  [e EXCEPT !.when = Shift(e.when, d), !.guard = Shift(e.guard, d),
            !.k = IF e.k = 0 THEN 0 ELSE e.k + d]

\* add_guarded_stmt_to_end_of: the IMark is added as it is (its guard is
\* history), effects are guarded, and the guard of an Exit is conjoined.
AddGuarded(e, g) ==
  [e EXCEPT !.when = e.when \cup g, !.guard = IF e.exits THEN e.guard \cup g ELSE {}]

\* concatenate_irsbs
Concatenate(bb1, bb2) ==
  [insns |-> bb1.insns
               \o [i \in 1 .. Len(bb2.insns) |-> Shifted(bb2.insns[i], bb1.conds)],
   next |-> bb2.next, jk |-> bb2.jk, conds |-> bb1.conds + bb2.conds]

\* The transformation proper: irsb's last Exit goes, and the block it left to
\* follows, guarded by that Exit's guard.
AndTransform(bb, sx) ==
  LET last == [LastOf(bb) EXCEPT !.exits = FALSE, !.guard = {}, !.dst = 0]
      added(i) == AddGuarded(Shifted(sx.insns[i], bb.conds), LastOf(bb).guard)
  IN  [insns |-> [bb.insns EXCEPT ![Len(bb.insns)] = last]
                   \o [i \in 1 .. Len(sx.insns) |-> added(i)],
       next |-> bb.next, jk |-> bb.jk, conds |-> bb.conds + sx.conds]

-----------------------------------------------------------------------------
(* Extents and budget                                                      *)

NExtentSlots == 3

\* Mutant of AddExtent: only the start of the new extent is compared.
AddExtent_merge(exts, base, len) ==
  LET n == Len(exts)
  IN  IF n > 0 /\ exts[n][1] <= base
      THEN [exts EXCEPT ![n] = <<exts[n][1], exts[n][2] + len>>]
      ELSE Append(exts, <<base, len>>)

\* add_extent
AddExtent(exts, base, len) ==
  LET n == Len(exts)
  IN  IF n > 0 /\ exts[n][1] + exts[n][2] = base
      THEN [exts EXCEPT ![n] = <<exts[n][1], exts[n][2] + len>>]
      ELSE Append(exts, <<base, len>>)

\* Mutant of Budget: what the block used is not subtracted.
Budget_unspent(bb) == avail

\* update_instr_budget
Budget(bb) ==
  LET half == guest_max_insns \div 2
      before == IF ~ (bb.verbose /\ ~ verbose) THEN avail
                ELSE IF bb.used > half THEN 0 ELSE half
  IN  IF bb.used > before THEN 0 ELSE before - bb.used

Account(bb) ==
  /\ vge' = AddExtent(vge, bb.base, bb.used)
  /\ avail' = Budget(bb)
  /\ verbose' = (verbose \/ bb.verbose)

-----------------------------------------------------------------------------
(* bb_to_IR                                                                *)

NoBlock == [insns |-> << >>, next |-> 0, jk |-> "Boring", conds |-> 0]

Block(bb) == [insns |-> bb.insns, next |-> bb.next, jk |-> bb.jk, conds |-> bb.conds]

BBInit ==
  /\ prog \in Programs
  /\ nochase \in {{}} \cup {{a} : a \in Code}
  /\ start \in Code
  /\ irsb = NoBlock
  /\ vge = << >>
  /\ avail = guest_max_insns
  /\ verbose = FALSE
  /\ forming = "start"

InitialBlock ==
  /\ forming = "start"
  /\ LET bb == Disassemble(start, avail)
     IN  irsb' = Block(bb) /\ Account(bb)
  /\ forming' = "extend"
  /\ UNCHANGED <<prog, nochase, start>>

GiveUp == ~ guest_chase \/ Len(vge) = NExtentSlots \/ avail < 3

\* The block is extended once: the break for a block that is not conditional is
\* reached after an unconditional branch was followed, too.
FollowUncond ==
  /\ forming = "extend" /\ ~ GiveUp
  /\ BlockEnd(irsb).tag = "Uncond"
  /\ LET bb == Disassemble(BlockEnd(irsb).ft, avail)
     IN  irsb' = Concatenate(irsb, bb) /\ Account(bb)
  /\ forming' = "done"
  /\ UNCHANGED <<prog, nochase, start>>

\* irsb or one of its arms, with the sense of its branch swapped if it has to be.
Oriented(bb, inverted) == IF inverted THEN SwapSxFt(bb) ELSE bb

\* Both arms are disassembled; one of them is appended if it completes an &&
\* idiom and can be guarded, and otherwise the block ends with its own branch,
\* perhaps left inverted.
FollowCond ==
  /\ forming = "extend" /\ ~ GiveUp
  /\ LET be == BlockEnd(irsb)
         sxbb == Disassemble(be.sx, 3)
         ftbb == Disassemble(be.ft, 3)
         idiom == Idiom(be, BlockEnd(sxbb), BlockEnd(ftbb))
         bb == Oriented(irsb, idiom \in {2, 3})
         arm == IF idiom \in {2, 3} THEN ftbb ELSE sxbb
         sx == Oriented(arm, idiom \in {1, 3})
     IN  /\ be.tag = "Cond"
         /\ IF idiom # NoIdiom /\ Guardable(sx)
            THEN irsb' = AndTransform(bb, sx) /\ Account(arm)
            ELSE irsb' = bb /\ UNCHANGED <<vge, avail, verbose>>
  /\ forming' = "done"
  /\ UNCHANGED <<prog, nochase, start>>

Finish ==
  /\ forming = "extend"
  /\ GiveUp \/ BlockEnd(irsb).tag = "Other"
  /\ forming' = "done"
  /\ UNCHANGED <<prog, nochase, start, irsb, vge, avail, verbose>>

BBNext == InitialBlock \/ FollowUncond \/ FollowCond \/ Finish

BBSpec == BBInit /\ [][BBNext]_bbvars

-----------------------------------------------------------------------------
(* What running a block does, for a valuation v of its conditions          *)

Satisfied(g, v) == \A c \in g : v[c[1]] = c[2]

Valuations(bb) == [1 .. bb.conds -> BOOLEAN]

Leaves(bb, i, v) == bb.insns[i].exits /\ Satisfied(bb.insns[i].guard, v)

\* No instruction before the i-th leaves the block.
Reached(bb, i, v) == \A j \in 1 .. i - 1 : ~ Leaves(bb, j, v)

\* The instructions the guest executes.
Executed(bb, i, v) == Reached(bb, i, v) /\ Satisfied(bb.insns[i].when, v)

\* The instructions whose effects take place.  Effects that cannot be guarded
\* take place whenever they are reached.
Acts(bb, i, v) ==
  /\ bb.insns[i].work # "none"
  /\ Reached(bb, i + 1, v)
  /\ bb.insns[i].work = "guardable" => Satisfied(bb.insns[i].when, v)

CondOf(bb, i, v) == bb.insns[i].k # 0 /\ v[bb.insns[i].k]

\* The guest itself: where it goes from the instruction at a whose condition
\* is c, and whether that instruction does anything but branch.
GuestNext(a, c) ==
  IF InsnAt(a).op \in {"cond", "icond"} THEN (IF c THEN InsnAt(a).to ELSE a + 1)
  ELSE IF InsnAt(a).op = "rep" THEN (IF c THEN a + 1 ELSE a)
  ELSE IF InsnAt(a).op \in Plain \cup {"sys"} THEN a + 1
  ELSE InsnAt(a).to

GuestActs(a, c) ==
  InsnAt(a).op \in Plain \cup {"call"} \/ (InsnAt(a).op = "rep" /\ ~ c)

\* Where the guest goes from the i-th instruction of the block.
Onward(bb, i, v) == GuestNext(bb.insns[i].addr, CondOf(bb, i, v))

\* The i-th instruction is executed and the j-th is the next one executed.
Successive(bb, i, j, v) ==
  /\ i < j /\ Executed(bb, i, v) /\ Executed(bb, j, v)
  /\ \A m \in i + 1 .. j - 1 : ~ Executed(bb, m, v)

LastExecuted(bb, i, v) ==
  Executed(bb, i, v) /\ \A m \in i + 1 .. Len(bb.insns) : ~ Executed(bb, m, v)

Follows(bb, v) ==
  LET Here == 1 .. Len(bb.insns)
  IN  /\ 1 \in Here /\ Executed(bb, 1, v) /\ bb.insns[1].addr = start
      /\ \A i, j \in Here : Successive(bb, i, j, v) =>
           bb.insns[j].addr = Onward(bb, i, v) /\ InsnAt(bb.insns[i].addr).op # "sys"
      /\ \A i \in Here : LastExecuted(bb, i, v) =>
           /\ \A j \in Here : Reached(bb, j, v) /\ Leaves(bb, j, v) =>
                bb.insns[j].dst = Onward(bb, i, v)
           /\ Reached(bb, Len(bb.insns) + 1, v) =>
                bb.next = Onward(bb, i, v) /\ bb.jk = JumpKindOf(bb.insns[i].addr)
      /\ \A i \in Here :
           Acts(bb, i, v) <=> /\ Executed(bb, i, v)
                             /\ GuestActs(bb.insns[i].addr, CondOf(bb, i, v))

\* A superblock under formation or finished does what the guest's code does,
\* whatever its conditions turn out to be: the instructions it executes follow
\* each other in the guest's control flow from the start address, their
\* effects and no others take place, and it leaves to where the last of them
\* goes, in the way that one does.  (The && idiom of bb_to_IR drops an Exit and
\* executes statements speculatively under a guard.)
FollowsGuest == forming # "start" => \A v \in Valuations(irsb) : Follows(irsb, v)

Marked == {irsb.insns[i].addr : i \in 1 .. Len(irsb.insns)}

\* The extents name the guest code the block was made from, no more than the
\* three that vge has room for: code outside them could be overwritten or
\* unmapped without the translation being discarded.
ExtentsAreTheCode ==
  /\ Len(vge) <= NExtentSlots
  /\ Marked = UNION {vge[i][1] .. vge[i][1] + vge[i][2] - 1 : i \in 1 .. Len(vge)}

\* "We should only have identified at most one of the four idioms", and the
\* assertion behind it: not both arms match.
IdiomIsUnique ==
  forming = "extend" /\ ~ GiveUp /\ BlockEnd(irsb).tag = "Cond" =>
    LET be == BlockEnd(irsb)
        sx == BlockEnd(Disassemble(be.sx, 3))
        ft == BlockEnd(Disassemble(be.ft, 3))
    IN  MayBeIdiom(be, sx, ft) => Iom1(be, sx) = NoIdiom \/ Iom2(be, ft) = NoIdiom

NumberOfInstructions == Len(irsb.insns)

\* No superblock has more instructions than vex_control.guest_max_insns, whatever
\* update_instr_budget makes of verbose instructions.
WithinBudget == NumberOfInstructions <= guest_max_insns

\* "Adjust *instrs_avail so that, when it becomes zero, we haven't used more
\* than 50% of vex_control.guest_max_instrs" (update_instr_budget), give or
\* take the one instruction that Halved rounds up by.
VerboseHalves ==
  verbose /\ avail = 0 => NumberOfInstructions <= guest_max_insns \div 2 + 1
=============================================================================
