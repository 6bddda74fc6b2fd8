----------------------------- MODULE CtTraceMC -----------------------------
(***************************************************************************)
(* Instances of CtTrace: programs of a few instructions.                   *)
(***************************************************************************)
EXTENDS CtTrace

Insn(op, to) == [op |-> op, to |-> to]

MCCode == 1 .. 4

\* Branches forward, backward and to the address behind the program, in both
\* senses, with arms that can be guarded and arms that cannot; the other
\* instructions that end a block; and verbose ones.
Mixed ==
  {Insn(op, 0) : op \in {"alu", "mem", "verbose", "ijmp", "rep", "sys"}}
    \cup {Insn("cond", a) : a \in {1, 4, 5}}
    \cup {Insn("icond", 4), Insn("call", 3), Insn("jmp", 1)}

\* Three instructions, and a return to any address.
Returning(insns) == {p \in [MCCode -> insns \cup {Insn("ret", 0)}] :
                     \A a \in MCCode : p[a].op = "ret" <=> a = 4}

MCRunnable ==
  Returning({Insn("alu", 0), Insn("rep", 0), Insn("jmp", 3), Insn("cond", 1), Insn("cond", 3),
             Insn("cond", 4), Insn("icond", 4)})

MCPrograms == [MCCode -> Mixed] \cup MCRunnable

\* A conditional branch and nothing else that ends a block.
Branching == Returning({Insn("alu", 0), Insn("cond", 3)})

=============================================================================
