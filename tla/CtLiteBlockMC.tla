---------------------------- MODULE CtLiteBlockMC ----------------------------
(***************************************************************************)
(* Superblocks for CtLiteBlock.  Addresses 0 and 2 are in different        *)
(* buckets.                                                                *)
(***************************************************************************)
EXTENDS CtLiteBlock

At0(a) == [tag |-> "IMark", addr |-> a, len |-> 4]
Mem(tag, a) == [tag |-> tag, addr |-> a, guard |-> {<<1, TRUE>>}]
Dirty(mFx, a) == [tag |-> "Dirty", mFx |-> mFx, addr |-> a, guard |-> {<<2, TRUE>>}]
LLSC(a, sc) == [tag |-> "LLSC", addr |-> a, sc |-> sc]
Only(tag) == [tag |-> tag, offset |-> 16]
Branch(t, to, jk) == [tag |-> "Exit", dst |-> to, jk |-> jk, guard |-> {<<t, TRUE>>}]
Block(stmts, to) == [stmts |-> stmts, next |-> to]

Blocks ==
  { \* a store and a load; a branch to 0, else to 12
    Block(<<At0(0), Only("Get"), Mem("Load", 0), Only("Put"), Mem("Store", 2), At0(8),
            Branch(1, 0, "Boring")>>, 12),
    \* the same branch inverted: its Exit goes to the instruction behind it
    Block(<<At0(4), Mem("LoadG", 0), Mem("StoreG", 2), Branch(1, 8, "Boring")>>, 0),
    \* lock cmpxchg; a trap that may be taken; stxr
    Block(<<At0(4), Mem("CAS", 0), At0(8), Branch(2, 8, "SigTRAP"), LLSC(2, TRUE)>>, 12),
    \* helpers of the guest's that write, modify or do not touch memory; ldxr
    Block(<<At0(8), Dirty("Write", 0), Dirty("Modify", 2), Dirty("None", 0), LLSC(0, FALSE)>>, 12) }

\* A snapshot is written, not at all, or in part.
MayFail == {Fields, Fields \ {"Imap"}, {}}

=============================================================================
