--------------------------- MODULE VexBlockProofs ---------------------------
(***************************************************************************)
(* Proofs about VexBlock, for all code, all limits and all choices of what *)
(* may be chased into: a superblock does what the guest's code does        *)
(* (FollowsGuest), its extents are its code, it has no more instructions   *)
(* than allowed, and at most one of the four idioms is found.              *)
(***************************************************************************)
EXTENDS VexBlock, WellFoundedInduction, TLAPS

-----------------------------------------------------------------------------
(* Numbers and lists.                                                      *)

Below == {p \in Nat \X Nat : p[1] < p[2]}

\* A set of natural numbers has a least element.
LEMMA Least ==
  ASSUME NEW T \in SUBSET Nat, T # {}
  PROVE  \E n \in T : \A m \in T : n <= m
<1>1. IsWellFoundedOn(Below, Nat)
  BY NatLessThanWellFounded DEF OpToRel, Below
<1>2. PICK x \in T : \A y \in T : ~ (<<y, x>> \in Below)
  BY <1>1, WFMin, Zenon
<1>3. ASSUME NEW y \in T PROVE x <= y
  <2>1. <<y, x>> \in Nat \X Nat
    OBVIOUS
  <2>2. ~ (y < x)
    BY <1>2, <2>1 DEF Below
  <2> QED BY <2>2
<1> QED BY <1>3

\* A sequence, of whatever elements.
IsList(s) == Len(s) \in Nat /\ s = [i \in 1 .. Len(s) |-> s[i]]

\* A function on 1 .. n is a sequence of length n.
LEMMA ListOf ==
  ASSUME NEW n \in Nat, NEW f, f = [i \in 1 .. n |-> f[i]]
  PROVE  Len(f) = n /\ IsList(f)
<1> DEFINE S == {f[i] : i \in 1 .. n}
<1>1. f \in [1 .. n -> S]
  OBVIOUS
<1>2. f \in Seq(S)
  BY <1>1
<1>3. Len(f) = n
  BY <1>1, <1>2
<1> QED BY <1>3 DEF IsList

\* So is an element of Seq(S).
LEMMA SeqIsList ==
  ASSUME NEW S, NEW s \in Seq(S)
  PROVE  IsList(s)
<1>1. Len(s) \in Nat
  OBVIOUS
<1>2. s = [i \in 1 .. Len(s) |-> s[i]]
  OBVIOUS
<1> QED BY <1>1, <1>2, Zenon DEF IsList

\* What concatenation does, element by element.
AreJoined(s, t) ==
  /\ IsList(s \o t)
  /\ Len(s \o t) = Len(s) + Len(t)
  /\ \A i \in 1 .. Len(s) : (s \o t)[i] = s[i]
  /\ \A i \in 1 .. Len(t) : (s \o t)[Len(s) + i] = t[i]

\* Sequences are joined so.
LEMMA Joined ==
  ASSUME NEW s, NEW t, IsList(s), IsList(t)
  PROVE  AreJoined(s, t)
<1> DEFINE S == {s[i] : i \in 1 .. Len(s)} \cup {t[i] : i \in 1 .. Len(t)}
<1>1. s \in [1 .. Len(s) -> S] /\ t \in [1 .. Len(t) -> S]
  BY DEF IsList
<1>2. Len(s) \in Nat /\ Len(t) \in Nat
  BY DEF IsList
<1> HIDE DEF S
<1>3. s \in Seq(S) /\ t \in Seq(S)
  BY <1>1, <1>2
<1>4. s \o t \in Seq(S)
  BY <1>3
<1>5. IsList(s \o t)
  BY <1>4, SeqIsList, Zenon
<1>6. Len(s \o t) = Len(s) + Len(t)
  BY <1>3
<1>7. \A i \in 1 .. Len(s) : (s \o t)[i] = s[i]
  BY <1>3
<1>8. \A i \in 1 .. Len(t) : (s \o t)[Len(s) + i] = t[i]
  BY <1>3
<1> QED BY <1>5, <1>6, <1>7, <1>8, Zenon DEF AreJoined

-----------------------------------------------------------------------------
(* The guest's code.                                                       *)

Ops == Plain \cup Conditional \cup {"jmp", "call", "ret", "ijmp", "sys"}

\* Every address has an instruction, which goes to an address.
LEMMA InsnIs ==
  ASSUME prog \in Programs, NEW a
  PROVE  InsnAt(a).op \in Ops /\ InsnAt(a).to \in Nat
<1>1. prog \in [Code -> Insns]
  BY VexAssumption
<1> QED BY <1>1 DEF InsnAt, Insns, Ops

\* Where a block goes is an address.
LEMMA NextIs ==
  ASSUME prog \in Programs, NEW a \in Nat, NEW c \in BOOLEAN
  PROVE  NextOf(a) \in Nat /\ GuestNext(a, c) \in Nat
BY InsnIs DEF NextOf, GuestNext

\* What is not a branch on a condition goes one way.
LEMMA OneWay ==
  ASSUME NEW a, NEW c, NEW d, InsnAt(a).op \notin Conditional
  PROVE  GuestNext(a, c) = GuestNext(a, d) /\ NextOf(a) = GuestNext(a, c)
BY DEF NextOf, GuestNext, Conditional, Plain

-----------------------------------------------------------------------------
(* Blocks.                                                                 *)

\* The instructions of a block from s on follow each other without a branch on
\* a condition or a system call before the last.
Chain(bb, s) ==
  LET n == Len(bb.insns)
  IN  /\ IsList(bb.insns) /\ n >= 1
      /\ bb.insns[1].addr = s
      /\ \A i \in 1 .. n : bb.insns[i].addr \in Nat
      /\ \A i \in 1 .. n - 1 :
           /\ bb.insns[i] = Translate(bb.insns[i].addr)
           /\ InsnAt(bb.insns[i].addr).op \notin Conditional \cup {"sys"}
           /\ bb.insns[i + 1].addr = NextOf(bb.insns[i].addr)

\* Its last instruction, at a, leaves it if its condition is b.
EndAt(a, b) ==
  LET branches == InsnAt(a).op \in Conditional
  IN  [addr |-> a, when |-> {}, k |-> IF branches THEN 1 ELSE 0,
       exits |-> branches,
       guard |-> IF branches THEN {<<1, b>>} ELSE {},
       dst |-> IF branches THEN GuestNext(a, b) ELSE 0,
       work |-> WorkOf(a)]

\* A block that bb_to_IR extends, and each arm it looks at, in either sense.
Faithful(bb, s, b) ==
  LET a == LastOf(bb).addr
  IN  /\ Chain(bb, s)
      /\ LastOf(bb) = EndAt(a, b)
      /\ bb.next = GuestNext(a, ~ b)
      /\ bb.jk = JumpKindOf(a)
      /\ bb.conds = IF InsnAt(a).op \in Conditional THEN 1 ELSE 0
      /\ b \in BOOLEAN
      /\ InsnAt(a).op = "rep" => b

\* The parts of an end, for citing.
LEMMA EndIs ==
  ASSUME NEW a, NEW b
  PROVE  LET e == EndAt(a, b)
             branches == InsnAt(a).op \in Conditional
         IN  /\ e.addr = a /\ e.when = {} /\ e.work = WorkOf(a)
             /\ e.exits <=> branches
             /\ branches => e.k = 1 /\ e.guard = {<<1, b>>} /\ e.dst = GuestNext(a, b)
             /\ ~ branches => e.k = 0
BY Zenon DEF EndAt

IsEnd(e, a, b) ==
  /\ e.addr = a /\ e.when = {} /\ e.work = WorkOf(a)
  /\ e.exits <=> InsnAt(a).op \in Conditional
  /\ InsnAt(a).op \in Conditional =>
       e.k = 1 /\ e.guard = {<<1, b>>} /\ e.dst = GuestNext(a, b)

\* The same as one fact.
LEMMA EndHas ==
  ASSUME NEW a, NEW b
  PROVE  IsEnd(EndAt(a, b), a, b)
BY Zenon DEF EndAt, IsEnd

\* What is translated is such an end, in the sense of its instruction.
LEMMA TranslateIs ==
  ASSUME NEW a
  PROVE  /\ Translate(a).addr = a
         /\ Translate(a) = EndAt(a, InsnAt(a).op # "icond")
         /\ NextOf(a) = GuestNext(a, ~ (InsnAt(a).op # "icond"))
<1>0. Translate(a).addr = a
  BY DEF Translate
<1>1. CASE InsnAt(a).op \in Conditional
  BY <1>1 DEF Translate, EndAt, GuestNext, NextOf, Conditional, Plain
<1>2. CASE InsnAt(a).op \notin Conditional
  BY <1>2, OneWay DEF Translate, EndAt
<1> QED BY <1>0, <1>1, <1>2

\* The loop of disassemble_basic_block_till_stop ends within what is allowed.
LEMMA UsedIs ==
  ASSUME NEW a \in Nat, NEW allowed \in Nat \ {0}
  PROVE  /\ Used(a, allowed) \in 1 .. allowed
         /\ \A m \in 1 .. Used(a, allowed) - 1 : ~ Stops(a, allowed, m)
<1> DEFINE T == {n \in 1 .. allowed : Stops(a, allowed, n)}
<1>1. Halved(allowed) <= allowed /\ Halved(allowed) \in Int
  <2>1. \A n \in Nat : n \div 2 <= n /\ n \div 2 \in Int
    OBVIOUS
  <2>2. CASE allowed > 2
    <3>1. allowed - 2 \in Nat
      BY <2>2
    <3>2. (allowed - 2) \div 2 <= allowed - 2 /\ (allowed - 2) \div 2 \in Int
      BY <2>1, <3>1
    <3> QED BY <2>2, <3>2 DEF Halved
  <2> QED BY <2>2 DEF Halved
<1>2. allowed \in T
  <2>1. Stops(a, allowed, allowed)
    BY <1>1 DEF Stops
  <2> QED BY <2>1
<1>3. PICK n \in T : \A m \in T : n <= m
  <2>1. T \in SUBSET Nat /\ T # {}
    BY <1>2
  <2> HIDE DEF T
  <2> QED BY <2>1, Least
<1>4. /\ n \in 1 .. allowed /\ Stops(a, allowed, n)
      /\ \A m \in 1 .. n - 1 : ~ Stops(a, allowed, m)
  BY <1>3
<1> QED BY <1>4 DEF Used

\* disassemble_basic_block_till_stop
IsStretch(bb, a, allowed) ==
  /\ \E b \in BOOLEAN : Faithful(bb, a, b)
  /\ bb.base = a /\ bb.used = Len(bb.insns) /\ bb.used \in 1 .. allowed
  /\ \A i \in 1 .. bb.used : bb.insns[i].addr = a + i - 1

\* That is what is disassembled.
LEMMA DisassembleIs ==
  ASSUME prog \in Programs, NEW a \in Nat, NEW allowed \in Nat \ {0}
  PROVE  IsStretch(Disassemble(a, allowed), a, allowed)
<1> DEFINE bb == Disassemble(a, allowed)
           n == Used(a, allowed)
           l == a + n - 1
           b == InsnAt(l).op # "icond"
<1>1. n \in 1 .. allowed /\ \A m \in 1 .. n - 1 : ~ Stops(a, allowed, m)
  BY UsedIs
<1>2. /\ bb.insns = [i \in 1 .. n |-> Translate(a + i - 1)]
      /\ bb.next = NextOf(l) /\ bb.jk = JumpKindOf(l)
      /\ bb.conds = IF InsnAt(l).op \in Conditional THEN 1 ELSE 0
      /\ bb.base = a /\ bb.used = n
  BY DEF Disassemble
<1> HIDE DEF bb, n
<1>3. Len(bb.insns) = n /\ IsList(bb.insns)
  BY <1>1, <1>2, ListOf
<1>4. ASSUME NEW i \in 1 .. n
      PROVE  bb.insns[i] = Translate(a + i - 1)
  BY <1>2, Zenon
<1>5. \A i \in 1 .. n : bb.insns[i].addr = a + i - 1
  BY <1>4, TranslateIs
<1>6. ASSUME NEW i \in 1 .. n - 1
      PROVE  InsnAt(a + i - 1).op \in Plain /\ NextOf(a + i - 1) = a + i
  <2>1. ~ Stops(a, allowed, i)
    BY <1>1
  <2>2. InsnAt(a + i - 1).op \in Plain
    BY <2>1 DEF Stops
  <2> QED BY <1>1, <2>2 DEF NextOf
<1>7. Chain(bb, a)
  <2>1. n >= 1 /\ bb.insns[1].addr = a /\ \A i \in 1 .. n : bb.insns[i].addr \in Nat
    BY <1>1, <1>5
  <2>2. ASSUME NEW i \in 1 .. n - 1
        PROVE  /\ bb.insns[i] = Translate(bb.insns[i].addr)
               /\ InsnAt(bb.insns[i].addr).op \notin Conditional \cup {"sys"}
               /\ bb.insns[i + 1].addr = NextOf(bb.insns[i].addr)
    <3>1. i \in 1 .. n /\ i + 1 \in 1 .. n /\ a + (i + 1) - 1 = a + i
      BY <1>1
    <3>2. bb.insns[i].addr = a + i - 1 /\ bb.insns[i + 1].addr = a + i
      BY <1>5, <3>1
    <3> QED BY <1>4, <1>6, <3>1, <3>2 DEF Plain, Conditional
  <2> QED BY <1>3, <2>1, <2>2 DEF Chain
<1>8. LastOf(bb) = Translate(l) /\ LastOf(bb).addr = l
  BY <1>1, <1>3, <1>4, <1>5 DEF LastOf
<1>9. Faithful(bb, a, b)
  <2> HIDE DEF l
  <2> QED BY <1>2, <1>7, <1>8, TranslateIs DEF Faithful
<1>10. IsStretch(bb, a, allowed)
  BY <1>1, <1>2, <1>3, <1>5, <1>9, Zenon DEF IsStretch
<1> QED BY <1>10 DEF bb

\* The parts of a chain, for citing.
LEMMA ChainIs ==
  ASSUME NEW bb, NEW s, Chain(bb, s)
  PROVE  LET n == Len(bb.insns)
         IN  /\ IsList(bb.insns) /\ n \in Nat /\ n >= 1 /\ n \in 1 .. n
             /\ bb.insns[1].addr = s
             /\ \A i \in 1 .. n : bb.insns[i].addr \in Nat
             /\ LastOf(bb).addr \in Nat
BY DEF Chain, IsList, LastOf

\* Renumbering from zero changes nothing.
LEMMA ShiftedByNone ==
  ASSUME NEW a, NEW b
  PROVE  Shifted(EndAt(a, b), 0) = EndAt(a, b)
<1> DEFINE e == EndAt(a, b)
<1>1. Shift({}, 0) = {} /\ Shift({<<1, b>>}, 0) = {<<1, b>>}
  BY DEF Shift
<1>2. Shift(e.when, 0) = e.when /\ Shift(e.guard, 0) = e.guard
  BY <1>1 DEF EndAt
<1>3. (IF e.k = 0 THEN 0 ELSE e.k + 0) = e.k
  BY DEF EndAt
<1>4. Shifted(e, 0) = [e EXCEPT !.when = e.when, !.guard = e.guard, !.k = e.k]
  BY <1>2, <1>3, Zenon DEF Shifted
<1>5. e = [e EXCEPT !.when = e.when, !.guard = e.guard, !.k = e.k]
  BY Zenon DEF EndAt
<1> QED BY <1>4, <1>5

\* Every instruction of such a block has the form of a last one.
LEMMA AllEnds ==
  ASSUME NEW bb, NEW s, NEW b, Faithful(bb, s, b), NEW i \in 1 .. Len(bb.insns)
  PROVE  \E c \in BOOLEAN : bb.insns[i] = EndAt(bb.insns[i].addr, c)
<1>1. CASE i = Len(bb.insns)
  BY <1>1 DEF Faithful, LastOf
<1>2. CASE i # Len(bb.insns)
  <2>1. i \in 1 .. Len(bb.insns) - 1
    BY <1>2, ChainIs DEF Faithful
  <2>2. bb.insns[i] = Translate(bb.insns[i].addr)
    BY <2>1 DEF Faithful, Chain
  <2> QED BY <2>2, TranslateIs, Zenon
<1> QED BY <1>1, <1>2

\* Two blocks one after the other, as far as their code goes.
IsBoth(bb, bb1, bb2) ==
  /\ Len(bb.insns) = Len(bb1.insns) + Len(bb2.insns)
  /\ \A i \in 1 .. Len(bb1.insns) : bb.insns[i].addr = bb1.insns[i].addr
  /\ \A i \in 1 .. Len(bb2.insns) : bb.insns[Len(bb1.insns) + i].addr = bb2.insns[i].addr

\* concatenate_irsbs, where the first block ends with an unconditional branch.
LEMMA ConcatenateIs ==
  ASSUME prog \in Programs, NEW bb1, NEW bb2, NEW s, NEW b, NEW c,
         Faithful(bb1, s, b), EndsUncond(bb1), Faithful(bb2, bb1.next, c)
  PROVE  /\ Faithful(Concatenate(bb1, bb2), s, c)
         /\ IsBoth(Concatenate(bb1, bb2), bb1, bb2)
<1> DEFINE bb == Concatenate(bb1, bb2)
           m == Len(bb1.insns)
           n == Len(bb2.insns)
           l == LastOf(bb1).addr
<1>1. m \in Nat /\ m >= 1 /\ IsList(bb1.insns) /\ n \in Nat /\ n >= 1 /\ IsList(bb2.insns)
  BY ChainIs DEF Faithful
<1>2. InsnAt(l).op \notin Conditional \cup {"sys"}
  <2>1. InsnAt(l).op \notin Conditional
    BY EndIs DEF Faithful, EndsUncond, NoOtherExits
  <2>2. JumpKindOf(l) \in {"Boring", "Call"}
    BY DEF Faithful, EndsUncond
  <2> QED BY <2>1, <2>2 DEF JumpKindOf
<1>3. bb1.conds = 0
  BY <1>2 DEF Faithful
<1>4. ASSUME NEW i \in 1 .. n
      PROVE  Shifted(bb2.insns[i], bb1.conds) = bb2.insns[i]
  BY <1>3, AllEnds, ShiftedByNone
<1>5. [i \in 1 .. n |-> Shifted(bb2.insns[i], bb1.conds)] = bb2.insns
  BY <1>1, <1>4 DEF IsList
<1>6. /\ bb.insns = bb1.insns \o bb2.insns
      /\ bb.next = bb2.next /\ bb.jk = bb2.jk /\ bb.conds = bb2.conds
  <2>1. bb2.conds \in Nat
    BY DEF Faithful
  <2>2. bb.conds = bb1.conds + bb2.conds
    BY DEF Concatenate
  <2>3. bb.insns = bb1.insns \o [i \in 1 .. n |-> Shifted(bb2.insns[i], bb1.conds)]
    BY DEF Concatenate
  <2>4. bb.next = bb2.next /\ bb.jk = bb2.jk
    BY DEF Concatenate
  <2> HIDE DEF bb
  <2>5. bb.conds = bb2.conds
    BY <1>3, <2>1, <2>2
  <2>6. bb.insns = bb1.insns \o bb2.insns
    BY <1>5, <2>3, Zenon
  <2> QED BY <2>4, <2>5, <2>6
<1>60. Len(bb1.insns) = m /\ Len(bb2.insns) = n
  OBVIOUS
<1> HIDE DEF bb, m, n
<1>70. AreJoined(bb1.insns, bb2.insns)
  BY <1>1, Joined
<1>71. IsList(bb.insns) /\ Len(bb.insns) = m + n
  BY <1>6, <1>60, <1>70 DEF AreJoined
<1>72. \A i \in 1 .. m : bb.insns[i] = bb1.insns[i]
  BY <1>6, <1>60, <1>70, Zenon DEF AreJoined
<1>73. \A i \in 1 .. n : bb.insns[m + i] = bb2.insns[i]
  BY <1>6, <1>60, <1>70, Zenon DEF AreJoined
<1>74. ASSUME NEW i \in 1 .. m + n, i > m
       PROVE  \E j \in 1 .. n : i = m + j /\ bb.insns[i] = bb2.insns[j]
  <2>1. i - m \in 1 .. n /\ i = m + (i - m)
    BY <1>1, <1>74
  <2> QED BY <1>73, <2>1
<1>8. LastOf(bb) = LastOf(bb2)
  BY <1>1, <1>60, <1>71, <1>73 DEF LastOf
<1>9. bb2.insns[1].addr = NextOf(l)
  BY <1>2, OneWay DEF Faithful, Chain
<1>10. Chain(bb, s)
  <2>1. bb.insns[1].addr = s /\ \A i \in 1 .. m + n : bb.insns[i].addr \in Nat
    <3>1. \A i \in 1 .. m : bb1.insns[i].addr \in Nat
      BY <1>60, ChainIs DEF Faithful
    <3>2. \A i \in 1 .. n : bb2.insns[i].addr \in Nat
      BY <1>60, ChainIs DEF Faithful
    <3>3. bb1.insns[1].addr = s
      BY ChainIs DEF Faithful
    <3>4. ASSUME NEW i \in 1 .. m + n PROVE bb.insns[i].addr \in Nat
      <4>1. CASE i <= m
        BY <1>1, <1>72, <3>1, <4>1
      <4>2. CASE i > m
        BY <1>74, <3>2, <4>2
      <4> QED BY <1>1, <4>1, <4>2
    <3> QED BY <1>1, <1>72, <3>3, <3>4
  <2>2. ASSUME NEW i \in 1 .. m + n - 1
        PROVE  /\ bb.insns[i] = Translate(bb.insns[i].addr)
               /\ InsnAt(bb.insns[i].addr).op \notin Conditional \cup {"sys"}
               /\ bb.insns[i + 1].addr = NextOf(bb.insns[i].addr)
    <3>1. CASE i < m
      <4>1. i \in 1 .. m - 1 /\ bb.insns[i] = bb1.insns[i] /\ bb.insns[i + 1] = bb1.insns[i + 1]
        BY <1>1, <1>72, <3>1
      <4> QED BY <1>60, <4>1 DEF Faithful, Chain
    <3>2. CASE i = m
      <4>1. bb.insns[i] = LastOf(bb1) /\ bb.insns[i + 1] = bb2.insns[1]
        BY <1>1, <1>60, <1>72, <1>73, <3>2 DEF LastOf
      <4>2. LastOf(bb1) = Translate(l)
        BY <1>2, TranslateIs, Zenon DEF Faithful, EndAt
      <4> QED BY <1>2, <1>9, <4>1, <4>2
    <3>3. CASE i > m
      <4>1. PICK j \in 1 .. n : i = m + j /\ bb.insns[i] = bb2.insns[j]
        BY <1>1, <1>74, <3>3
      <4>2. j \in 1 .. n - 1 /\ j + 1 \in 1 .. n /\ i + 1 = m + (j + 1)
        BY <1>1, <4>1
      <4>3. bb.insns[i + 1] = bb2.insns[j + 1]
        BY <1>73, <4>2
      <4> QED BY <1>60, <4>1, <4>2, <4>3 DEF Faithful, Chain
    <3> QED BY <1>1, <3>1, <3>2, <3>3
  <2> QED BY <1>1, <1>71, <2>1, <2>2 DEF Chain
<1>11. Faithful(bb, s, c)
  BY <1>6, <1>8, <1>10 DEF Faithful
<1>12. IsBoth(bb, bb1, bb2)
  BY <1>71, <1>72, <1>73 DEF IsBoth, m, n
<1> QED BY <1>11, <1>12 DEF bb

\* A branch in one sense and in the other.
LEMMA OtherSense ==
  ASSUME NEW a, NEW b, InsnAt(a).op \in Conditional
  PROVE  [EndAt(a, b) EXCEPT !.guard = {<<1, ~ b>>}, !.dst = GuestNext(a, ~ b)]
           = EndAt(a, ~ b)
<1> DEFINE x == InsnAt(a).op \in Conditional
           g == {<<1, b>>}
           h == {<<1, ~ b>>}
           d == GuestNext(a, b)
           e == GuestNext(a, ~ b)
           w == WorkOf(a)
           E(gg, dd) == [addr |-> a, when |-> {}, k |-> 1, exits |-> x,
                         guard |-> gg, dst |-> dd, work |-> w]
<1>1. EndAt(a, b) = E(g, d) /\ EndAt(a, ~ b) = E(h, e)
  BY DEF EndAt
<1> HIDE DEF x, g, h, d, e, w
<1>2. [E(g, d) EXCEPT !.guard = h] = E(h, d)
  OBVIOUS
<1>3. [E(h, d) EXCEPT !.dst = e] = E(h, e)
  OBVIOUS
<1> HIDE DEF E
<1>4. [EndAt(a, b) EXCEPT !.guard = h, !.dst = e] = EndAt(a, ~ b)
  BY <1>1, <1>2, <1>3, Zenon
<1> QED BY <1>4 DEF h, e

\* swap_sx_and_ft
LEMMA SwapIs ==
  ASSUME NEW bb, NEW s, NEW b, Faithful(bb, s, b), LastOf(bb).exits, LastOf(bb).work = "none"
  PROVE  /\ Faithful(SwapSxFt(bb), s, ~ b)
         /\ SwapSxFt(bb).next = LastOf(bb).dst
         /\ LastOf(SwapSxFt(bb)) = EndAt(LastOf(bb).addr, ~ b)
         /\ LastOf(SwapSxFt(bb)).dst = bb.next
         /\ Len(SwapSxFt(bb).insns) = Len(bb.insns)
         /\ \A i \in 1 .. Len(bb.insns) : SwapSxFt(bb).insns[i].addr = bb.insns[i].addr
<1> DEFINE n == Len(bb.insns)
           a == LastOf(bb).addr
           e == LastOf(bb)
           f == [e EXCEPT !.guard = Negated(e.guard), !.dst = bb.next]
           sw == SwapSxFt(bb)
<1>1. n \in Nat /\ n >= 1 /\ IsList(bb.insns)
  BY ChainIs DEF Faithful
<1>2. /\ e = EndAt(a, b) /\ b \in BOOLEAN /\ bb.next = GuestNext(a, ~ b)
      /\ InsnAt(a).op \in {"cond", "icond"}
  <2>1. e = EndAt(a, b) /\ b \in BOOLEAN /\ bb.next = GuestNext(a, ~ b)
    BY DEF Faithful
  <2>2. InsnAt(a).op \in Conditional /\ WorkOf(a) = "none"
    BY <2>1, EndIs
  <2> QED BY <2>1, <2>2 DEF Conditional, WorkOf
<1>3. f = EndAt(a, ~ b)
  <2>1. Negated({<<1, b>>}) = {<<1, ~ b>>}
    BY DEF Negated
  <2>2. InsnAt(a).op \in Conditional
    BY <1>2 DEF Conditional
  <2>3. e.guard = {<<1, b>>}
    BY <1>2, <2>2, EndIs
  <2>4. f = [EndAt(a, b) EXCEPT !.guard = {<<1, ~ b>>}, !.dst = GuestNext(a, ~ b)]
    BY <1>2, <2>1, <2>3, Zenon
  <2> QED BY <2>2, <2>4, OtherSense, Zenon
<1>4. /\ sw.insns = [bb.insns EXCEPT ![n] = f]
      /\ sw.next = e.dst /\ sw.jk = bb.jk /\ sw.conds = bb.conds
  BY DEF SwapSxFt, EndedBy
<1> HIDE DEF sw, f
<1>5. /\ IsList(sw.insns) /\ Len(sw.insns) = n
      /\ sw.insns[n] = f
      /\ \A i \in 1 .. n - 1 : sw.insns[i] = bb.insns[i]
  <2>1. sw.insns = [i \in 1 .. n |-> sw.insns[i]]
    BY <1>1, <1>4 DEF IsList
  <2>2. IsList(sw.insns) /\ Len(sw.insns) = n
    BY <1>1, <2>1, ListOf
  <2> QED BY <1>1, <1>4, <2>2 DEF IsList
<1>6. LastOf(sw) = EndAt(a, ~ b) /\ LastOf(sw).addr = a
  BY <1>3, <1>5, EndIs DEF LastOf
<1>7. \A i \in 1 .. n : sw.insns[i].addr = bb.insns[i].addr
  BY <1>1, <1>5, <1>6 DEF LastOf
<1>8. Chain(sw, s)
  <2>1. sw.insns[1].addr = s /\ \A i \in 1 .. n : sw.insns[i].addr \in Nat
    BY <1>1, <1>7 DEF Faithful, Chain
  <2>2. ASSUME NEW i \in 1 .. n - 1
        PROVE  /\ sw.insns[i] = Translate(sw.insns[i].addr)
               /\ InsnAt(sw.insns[i].addr).op \notin Conditional \cup {"sys"}
               /\ sw.insns[i + 1].addr = NextOf(sw.insns[i].addr)
    <3>1. i + 1 \in 1 .. n /\ sw.insns[i] = bb.insns[i]
      BY <1>1, <1>5
    <3> QED BY <1>7, <3>1 DEF Faithful, Chain
  <2> QED BY <1>1, <1>5, <2>1, <2>2 DEF Chain
<1>9. e.dst = GuestNext(a, b) /\ LastOf(sw).dst = GuestNext(a, ~ b)
  BY <1>2, <1>6, EndIs DEF Conditional
<1>10. Faithful(sw, s, ~ b)
  <2>1. sw.next = GuestNext(a, ~ ~ b)
    BY <1>2, <1>4, <1>9
  <2> QED BY <1>2, <1>4, <1>6, <1>8, <2>1 DEF Faithful
<1> QED BY <1>2, <1>4, <1>5, <1>6, <1>7, <1>9, <1>10 DEF sw

-----------------------------------------------------------------------------
(* What running such blocks does.                                          *)

\* When a guard of no or one condition holds.
LEMMA Guards ==
  ASSUME NEW v, NEW k, NEW b
  PROVE  Satisfied({}, v) /\ (Satisfied({<<k, b>>}, v) <=> v[k] = b)
<1>1. <<k, b>>[1] = k /\ <<k, b>>[2] = b
  OBVIOUS
<1> QED BY <1>1 DEF Satisfied

\* A number up to n leaves room for 1.
LEMMA FirstIn ==
  ASSUME NEW n \in Nat, NEW k \in 1 .. n
  PROVE  1 \in 1 .. n /\ 1 <= k
OBVIOUS

\* If what is executed is the first k instructions, there is no more to show
\* than how each goes on to the next, and how the block is left from the k-th.
LEMMA PrefixFollows ==
  ASSUME NEW bb, NEW v, Len(bb.insns) \in Nat, NEW k \in 1 .. Len(bb.insns),
         bb.insns[1].addr = start,
         \A i \in 1 .. Len(bb.insns) : Executed(bb, i, v) <=> i <= k,
         \A i \in 1 .. k - 1 :
           bb.insns[i + 1].addr = Onward(bb, i, v) /\ InsnAt(bb.insns[i].addr).op # "sys",
         \A j \in 1 .. Len(bb.insns) : Leaves(bb, j, v) => bb.insns[j].dst = Onward(bb, k, v),
         Reached(bb, Len(bb.insns) + 1, v) =>
           bb.next = Onward(bb, k, v) /\ bb.jk = JumpKindOf(bb.insns[k].addr),
         \A i \in 1 .. Len(bb.insns) :
           Acts(bb, i, v) <=> i <= k /\ GuestActs(bb.insns[i].addr, CondOf(bb, i, v))
  PROVE  Follows(bb, v)
<1> DEFINE n == Len(bb.insns)
<1>1. 1 \in 1 .. n /\ Executed(bb, 1, v)
  <2>1. 1 \in 1 .. n /\ 1 <= k
    BY FirstIn, Zenon
  <2> QED BY <2>1, Zenon
<1>2. ASSUME NEW i \in 1 .. n, NEW j \in 1 .. n, Successive(bb, i, j, v)
      PROVE  bb.insns[j].addr = Onward(bb, i, v) /\ InsnAt(bb.insns[i].addr).op # "sys"
  <2>1. i < j /\ i <= k /\ j <= k /\ \A m \in i + 1 .. j - 1 : ~ Executed(bb, m, v)
    BY <1>2 DEF Successive
  <2>2. CASE j = i + 1
    BY <2>1, <2>2
  <2>3. CASE j # i + 1
    <3>1. i + 1 \in i + 1 .. j - 1 /\ i + 1 \in 1 .. n /\ i + 1 <= k
      BY <2>1, <2>3
    <3> QED BY <2>1, <3>1
  <2> QED BY <2>2, <2>3
<1>3. ASSUME NEW i \in 1 .. n, LastExecuted(bb, i, v)
      PROVE  i = k
  <2>1. i <= k /\ \A m \in i + 1 .. n : ~ Executed(bb, m, v)
    BY <1>3 DEF LastExecuted
  <2>2. CASE i < k
    <3>1. k \in i + 1 .. n /\ k \in 1 .. n /\ k <= k
      BY <2>2
    <3> QED BY <2>1, <3>1
  <2> QED BY <2>1, <2>2
<1>4. ASSUME NEW i \in 1 .. n
      PROVE  Acts(bb, i, v) <=> /\ Executed(bb, i, v)
                               /\ GuestActs(bb.insns[i].addr, CondOf(bb, i, v))
  OBVIOUS
<1> QED BY <1>1, <1>2, <1>3, <1>4 DEF Follows

\* An instruction before the last never leaves its block and acts as the guest's
\* does.
IsInner(bb, i) ==
  LET e == bb.insns[i]
  IN  /\ e.when = {} /\ e.k = 0 /\ ~ e.exits /\ e.work = WorkOf(e.addr)
      /\ InsnAt(e.addr).op \notin Conditional \cup {"sys"}
      /\ \A c : bb.insns[i + 1].addr = GuestNext(e.addr, c)
      /\ \A c : WorkOf(e.addr) # "none" <=> GuestActs(e.addr, c)

\* Every instruction of a chain but its last is one.
LEMMA InnerIs ==
  ASSUME NEW bb, NEW s, Chain(bb, s), NEW i \in 1 .. Len(bb.insns) - 1
  PROVE  IsInner(bb, i)
<1> DEFINE e == bb.insns[i]
<1>1. /\ e = Translate(e.addr)
      /\ InsnAt(e.addr).op \notin Conditional \cup {"sys"}
      /\ bb.insns[i + 1].addr = NextOf(e.addr)
  BY DEF Chain
<1>2. e.when = {} /\ e.k = 0 /\ ~ e.exits /\ e.work = WorkOf(e.addr)
  BY <1>1, TranslateIs, EndIs
<1>3. ASSUME NEW c PROVE WorkOf(e.addr) # "none" <=> GuestActs(e.addr, c)
  BY <1>1 DEF WorkOf, GuestActs, Conditional, Plain
<1>4. ASSUME NEW c PROVE bb.insns[i + 1].addr = GuestNext(e.addr, c)
  BY <1>1, OneWay
<1> QED BY <1>1, <1>2, <1>3, <1>4 DEF IsInner

\* A block without the && idiom.
LEMMA FaithfulFollows ==
  ASSUME NEW bb, NEW b, Faithful(bb, start, b), NEW v \in Valuations(bb)
  PROVE  Follows(bb, v)
<1> DEFINE n == Len(bb.insns)
           a == LastOf(bb).addr
           branches == InsnAt(a).op \in Conditional
<1>1. /\ n \in Nat /\ n >= 1 /\ n \in 1 .. n
      /\ bb.insns[1].addr = start
      /\ Chain(bb, start)
  BY ChainIs DEF Faithful
<1>2. /\ bb.insns[n] = EndAt(a, b) /\ bb.insns[n].addr = a
      /\ bb.next = GuestNext(a, ~ b) /\ bb.jk = JumpKindOf(a)
      /\ b \in BOOLEAN /\ (InsnAt(a).op = "rep" => b)
  BY DEF Faithful, LastOf
<1>3. branches => v[1] \in BOOLEAN
  BY DEF Faithful, Valuations
<1>30. \A i \in 1 .. n - 1 : IsInner(bb, i)
  BY <1>1, InnerIs
<1>20. IsEnd(bb.insns[n], a, b)
  BY <1>2, EndHas, Zenon
<1>4. \A i \in 1 .. n : bb.insns[i].when = {}
  <2>1. \A i \in 1 .. n : i \in 1 .. n - 1 \/ i = n
    BY <1>1
  <2> QED BY <1>20, <1>30, <2>1, Zenon DEF IsEnd, IsInner
<1>5. \A i \in 1 .. n - 1 : ~ Leaves(bb, i, v)
  BY <1>30 DEF Leaves, IsInner
<1>6. \A i \in 1 .. n : Reached(bb, i, v)
  BY <1>1, <1>5 DEF Reached
<1>7. \A i \in 1 .. n : Executed(bb, i, v)
  BY <1>4, <1>6 DEF Executed, Satisfied
<1>8. Leaves(bb, n, v) <=> branches /\ v[1] = b
  <2>1. bb.insns[n].exits <=> branches
    BY <1>2, EndIs
  <2>2. branches => bb.insns[n].guard = {<<1, b>>}
    BY <1>2, EndIs
  <2>3. Satisfied({<<1, b>>}, v) <=> v[1] = b
    BY Guards, Zenon
  <2> QED BY <2>1, <2>2, <2>3, Zenon DEF Leaves
<1>9. CondOf(bb, n, v) <=> branches /\ v[1]
  <2>1. CASE branches
    <3>1. bb.insns[n].k = 1
      BY <1>2, <2>1, EndIs
    <3> QED BY <2>1, <3>1 DEF CondOf
  <2>2. CASE ~ branches
    <3>1. bb.insns[n].k = 0
      BY <1>2, <2>2, EndIs
    <3> QED BY <2>2, <3>1 DEF CondOf
  <2> QED BY <2>1, <2>2
<1>10. ASSUME NEW j \in 1 .. n, Leaves(bb, j, v)
       PROVE  bb.insns[j].dst = Onward(bb, n, v)
  <2>1. j = n
    BY <1>1, <1>5, <1>10
  <2>2. branches /\ v[1] = b
    BY <1>8, <1>10, <2>1
  <2>3. bb.insns[n].dst = GuestNext(a, b)
    BY <1>2, <2>2, EndIs
  <2>4. GuestNext(a, CondOf(bb, n, v)) = GuestNext(a, b)
    BY <1>2, <1>9, <2>2 DEF GuestNext, Conditional
  <2> QED BY <1>2, <2>1, <2>3, <2>4 DEF Onward
<1>11. ASSUME Reached(bb, n + 1, v)
       PROVE  bb.next = Onward(bb, n, v) /\ bb.jk = JumpKindOf(bb.insns[n].addr)
  <2>1. ~ (branches /\ v[1] = b)
    BY <1>1, <1>8, <1>11 DEF Reached
  <2>2. GuestNext(a, CondOf(bb, n, v)) = GuestNext(a, ~ b)
    BY <1>2, <1>3, <1>9, <2>1 DEF GuestNext, Conditional
  <2> QED BY <1>2, <2>2 DEF Onward
<1>12. ASSUME NEW i \in 1 .. n
       PROVE  Acts(bb, i, v) <=> i <= n /\ GuestActs(bb.insns[i].addr, CondOf(bb, i, v))
  <2>0. bb.insns[i].when = {}
    BY <1>4
  <2>1. CASE i # n
    <3>1. i \in 1 .. n - 1 /\ i + 1 \in 1 .. n
      BY <1>1, <2>1
    <3>2. Reached(bb, i + 1, v)
      BY <1>6, <3>1
    <3>3. Acts(bb, i, v) <=> WorkOf(bb.insns[i].addr) # "none"
      BY <1>30, <2>0, <3>1, <3>2 DEF Acts, Satisfied, IsInner
    <3>4. WorkOf(bb.insns[i].addr) # "none" <=> GuestActs(bb.insns[i].addr, CondOf(bb, i, v))
      BY <1>30, <3>1, Zenon DEF IsInner
    <3> QED BY <1>1, <3>3, <3>4
  <2>2. CASE i = n
    <3>1. Reached(bb, n + 1, v) <=> ~ (branches /\ v[1] = b)
      BY <1>1, <1>5, <1>8 DEF Reached
    <3>2. Acts(bb, n, v) <=> WorkOf(a) # "none" /\ ~ (branches /\ v[1] = b)
      <4>1. bb.insns[n].work = WorkOf(a) /\ Satisfied(bb.insns[n].when, v)
        <5>1. Satisfied({}, v)
          BY DEF Satisfied
        <5> QED BY <1>20, <5>1, Zenon DEF IsEnd
      <4> QED BY <3>1, <4>1, Zenon DEF Acts
    <3>3. WorkOf(a) # "none" /\ ~ (branches /\ v[1] = b) <=> GuestActs(a, CondOf(bb, n, v))
      <4>1. CASE branches
        <5>1. CondOf(bb, n, v) <=> v[1]
          BY <1>9, <4>1, Zenon
        <5>2. InsnAt(a).op = "rep" => b
          BY <1>2
        <5> HIDE DEF a
        <5> QED BY <1>3, <4>1, <5>1, <5>2 DEF WorkOf, GuestActs, Conditional, Plain
      <4>2. CASE ~ branches
        <5> HIDE DEF a
        <5> QED BY <4>2 DEF WorkOf, GuestActs, Conditional, Plain
      <4> QED BY <4>1, <4>2, Zenon
    <3> QED BY <1>1, <1>2, <2>2, <3>2, <3>3
  <2> QED BY <2>1, <2>2
<1>13. ASSUME NEW i \in 1 .. n - 1
       PROVE  bb.insns[i + 1].addr = Onward(bb, i, v) /\ InsnAt(bb.insns[i].addr).op # "sys"
  <2>1. \A c : bb.insns[i + 1].addr = GuestNext(bb.insns[i].addr, c)
    BY <1>30, Zenon DEF IsInner
  <2>2. InsnAt(bb.insns[i].addr).op # "sys"
    BY <1>30 DEF IsInner
  <2> QED BY <2>1, <2>2 DEF Onward
<1>14. \A i \in 1 .. n : Executed(bb, i, v) <=> i <= n
  BY <1>1, <1>7
<1> HIDE DEF a
<1> QED BY <1>1, <1>10, <1>11, <1>12, <1>13, <1>14, PrefixFollows, Zenon

-----------------------------------------------------------------------------
(* The && idiom.                                                           *)

\* What add_guarded_stmt_to_end_of and deltaIRStmt make of an instruction, where
\* the guard is that of one branch, the first of the block.
IsAdded(g, a, c, b) ==
  LET branches == InsnAt(a).op \in Conditional
  IN  /\ g.addr = a /\ g.when = {<<1, b>>} /\ g.work = WorkOf(a)
      /\ g.exits <=> branches
      /\ branches => /\ g.k = 2 /\ g.dst = GuestNext(a, c)
                     /\ g.guard = {<<2, c>>} \cup {<<1, b>>}
      /\ ~ branches => g.k = 0

\* What is appended is such an instruction.
LEMMA AddedIs ==
  ASSUME NEW a, NEW c, NEW b
  PROVE  IsAdded(AddGuarded(Shifted(EndAt(a, c), 1), {<<1, b>>}), a, c, b)
<1> DEFINE e == EndAt(a, c)
           sh == Shifted(e, 1)
           g == AddGuarded(sh, {<<1, b>>})
           branches == InsnAt(a).op \in Conditional
<1>1. Shift({}, 1) = {} /\ Shift({<<1, c>>}, 1) = {<<2, c>>}
  BY DEF Shift
<1>2. e.addr = a /\ e.when = {} /\ e.work = WorkOf(a) /\ e.dst = EndAt(a, c).dst
  BY EndIs
<1>3. /\ sh.addr = e.addr /\ sh.work = e.work /\ sh.dst = e.dst /\ sh.exits = e.exits
      /\ sh.when = Shift(e.when, 1)
      /\ sh.guard = Shift(e.guard, 1)
      /\ sh.k = IF e.k = 0 THEN 0 ELSE e.k + 1
  BY DEF Shifted, EndAt
<1>4. /\ g.addr = sh.addr /\ g.work = sh.work /\ g.dst = sh.dst /\ g.exits = sh.exits
      /\ g.k = sh.k
      /\ g.when = sh.when \cup {<<1, b>>}
      /\ sh.exits => g.guard = sh.guard \cup {<<1, b>>}
  <2>1. g.addr = sh.addr /\ g.work = sh.work /\ g.dst = sh.dst /\ g.exits = sh.exits
    BY DEF AddGuarded, Shifted, EndAt
  <2>2. g.k = sh.k
    BY DEF AddGuarded, Shifted, EndAt
  <2>3. g.when = sh.when \cup {<<1, b>>}
    BY DEF AddGuarded, Shifted, EndAt
  <2>4. sh.exits => g.guard = sh.guard \cup {<<1, b>>}
    BY DEF AddGuarded, Shifted, EndAt
  <2> QED BY <2>1, <2>2, <2>3, <2>4, Zenon
<1>5. e.exits <=> branches
  BY EndIs
<1>6. branches => e.k = 1 /\ e.guard = {<<1, c>>} /\ e.dst = GuestNext(a, c)
  BY EndIs
<1>7. ~ branches => e.k = 0
  BY EndIs
<1> HIDE DEF e, sh, g, branches
<1>8. g.addr = a /\ g.work = WorkOf(a)
  BY <1>2, <1>3, <1>4
<1>9. g.when = {<<1, b>>}
  <2>1. sh.when = {}
    BY <1>1, <1>2, <1>3
  <2> QED BY <1>4, <2>1
<1>10. g.exits <=> branches
  BY <1>3, <1>4, <1>5
<1>11. ASSUME branches
       PROVE  g.k = 2 /\ g.dst = GuestNext(a, c) /\ g.guard = {<<2, c>>} \cup {<<1, b>>}
  <2>1. g.k = 2 /\ g.dst = GuestNext(a, c)
    BY <1>3, <1>4, <1>6, <1>11
  <2>2. sh.guard = {<<2, c>>} /\ sh.exits
    BY <1>1, <1>3, <1>5, <1>6, <1>11
  <2> QED BY <1>4, <2>1, <2>2
<1>12. ~ branches => g.k = 0
  BY <1>3, <1>4, <1>7
<1>13. IsAdded(g, a, c, b)
  BY <1>8, <1>9, <1>10, <1>11, <1>12 DEF IsAdded, branches
<1> QED BY <1>13 DEF e, sh, g

\* The first block keeps its instructions, and loses its Exit; those of the
\* second follow, guarded.
IsAnd(and, bb, sx, b) ==
  LET m == Len(bb.insns)
      n == Len(sx.insns)
  IN  /\ IsList(and.insns) /\ Len(and.insns) = m + n
      /\ \A i \in 1 .. m - 1 : and.insns[i] = bb.insns[i]
      /\ and.insns[m] = [LastOf(bb) EXCEPT !.exits = FALSE, !.guard = {}, !.dst = 0]
      /\ \A i \in 1 .. n :
           and.insns[m + i] = AddGuarded(Shifted(sx.insns[i], 1), {<<1, b>>})
      /\ and.next = bb.next /\ and.jk = bb.jk /\ and.conds = 2

\* That is what the transformation makes.
LEMMA AndIs ==
  ASSUME NEW bb, NEW sx, NEW s, NEW t, NEW b, NEW c,
         Faithful(bb, s, b), Faithful(sx, t, c),
         InsnAt(LastOf(bb).addr).op \in Conditional,
         InsnAt(LastOf(sx).addr).op \in Conditional
  PROVE  IsAnd(AndTransform(bb, sx), bb, sx, b)
<1> DEFINE and == AndTransform(bb, sx)
           m == Len(bb.insns)
           n == Len(sx.insns)
           last == [LastOf(bb) EXCEPT !.exits = FALSE, !.guard = {}, !.dst = 0]
           f == [bb.insns EXCEPT ![m] = last]
           g == [i \in 1 .. n |-> AddGuarded(Shifted(sx.insns[i], bb.conds), LastOf(bb).guard)]
<1>1. m \in Nat /\ m >= 1 /\ IsList(bb.insns) /\ n \in Nat /\ n >= 1
  BY ChainIs DEF Faithful
<1>2. bb.conds = 1 /\ sx.conds = 1 /\ LastOf(bb).guard = {<<1, b>>}
  <2>1. LastOf(bb) = EndAt(LastOf(bb).addr, b) /\ bb.conds = 1 /\ sx.conds = 1
    BY DEF Faithful
  <2>2. IsEnd(LastOf(bb), LastOf(bb).addr, b)
    BY <2>1, EndHas, Zenon
  <2> QED BY <2>1, <2>2, Zenon DEF IsEnd
<1>3. and.insns = f \o g /\ and.next = bb.next /\ and.jk = bb.jk /\ and.conds = 2
  <2>1. and.insns = f \o g /\ and.next = bb.next /\ and.jk = bb.jk
    BY DEF AndTransform
  <2>2. and.conds = bb.conds + sx.conds
    BY DEF AndTransform
  <2> HIDE DEF and, f, g
  <2> QED BY <1>2, <2>1, <2>2
<1>4. \A i \in 1 .. n : g[i] = AddGuarded(Shifted(sx.insns[i], 1), {<<1, b>>})
  BY <1>2
<1>5. g = [i \in 1 .. n |-> g[i]]
  OBVIOUS
<1> HIDE DEF and, g, last
<1>6. f = [i \in 1 .. m |-> f[i]] /\ f[m] = last /\ \A i \in 1 .. m - 1 : f[i] = bb.insns[i]
  BY <1>1 DEF IsList
<1> HIDE DEF f, m, n
<1>7. IsList(f) /\ Len(f) = m /\ IsList(g) /\ Len(g) = n
  BY <1>1, <1>5, <1>6, ListOf
<1>8. AreJoined(f, g)
  BY <1>7, Joined
<1>9. IsList(and.insns) /\ Len(and.insns) = m + n
  BY <1>3, <1>7, <1>8 DEF AreJoined
<1>10. \A i \in 1 .. m : and.insns[i] = f[i]
  BY <1>3, <1>7, <1>8, Zenon DEF AreJoined
<1>11. \A i \in 1 .. n : and.insns[m + i] = g[i]
  BY <1>3, <1>7, <1>8, Zenon DEF AreJoined
<1>12. \A i \in 1 .. m - 1 : and.insns[i] = bb.insns[i]
  <2>1. \A i \in 1 .. m - 1 : i \in 1 .. m
    BY <1>1
  <2> QED BY <1>6, <1>10, <2>1, Zenon
<1>13. and.insns[m] = last
  BY <1>1, <1>6, <1>10
<1>14. \A i \in 1 .. n : and.insns[m + i] = AddGuarded(Shifted(sx.insns[i], 1), {<<1, b>>})
  BY <1>4, <1>11, Zenon
<1> QED BY <1>3, <1>9, <1>12, <1>13, <1>14, Zenon DEF IsAnd, and, m, n, last

\* Two blocks of which the second is where the first one's branch leaves to.
AreIdiom(bb, sx, b, c) ==
  /\ Faithful(bb, start, b) /\ Faithful(sx, LastOf(bb).dst, c)
  /\ InsnAt(LastOf(bb).addr).op \in {"cond", "icond"}
  /\ InsnAt(LastOf(sx).addr).op \in {"cond", "icond"}
  /\ sx.next = bb.next /\ Guardable(sx)

\* The transformed block.  If the first branch goes to the second block all its
\* instructions are executed, and otherwise those of the first block only.
LEMMA AndFollows ==
  ASSUME NEW bb, NEW sx, NEW b, NEW c, AreIdiom(bb, sx, b, c),
         NEW v \in Valuations(AndTransform(bb, sx))
  PROVE  Follows(AndTransform(bb, sx), v)
<1> DEFINE and == AndTransform(bb, sx)
           X == and.insns
           m == Len(bb.insns)
           n == Len(sx.insns)
           a == LastOf(bb).addr
           d == LastOf(sx).addr
           taken == v[1] = b
           k == IF taken THEN m + n ELSE m
<1>0. Faithful(bb, start, b) /\ Faithful(sx, LastOf(bb).dst, c)
  BY DEF AreIdiom
<1>1. m \in Nat /\ m >= 1 /\ n \in Nat /\ n >= 1
  BY <1>0, ChainIs, Zenon DEF Faithful
<1>100. /\ Chain(bb, start) /\ Chain(sx, LastOf(bb).dst)
      /\ bb.insns[1].addr = start /\ sx.insns[1].addr = LastOf(bb).dst
  BY <1>0, ChainIs, Zenon DEF Faithful
<1>2. /\ LastOf(bb) = EndAt(a, b) /\ bb.insns[m] = EndAt(a, b)
      /\ bb.next = GuestNext(a, ~ b) /\ bb.jk = JumpKindOf(a)
      /\ b \in BOOLEAN
  BY <1>0 DEF Faithful, LastOf
<1>3. /\ LastOf(sx) = EndAt(d, c) /\ sx.insns[n] = EndAt(d, c)
      /\ sx.next = GuestNext(d, ~ c) /\ c \in BOOLEAN
  BY <1>0 DEF Faithful, LastOf
<1>40. InsnAt(a).op \in {"cond", "icond"} /\ InsnAt(d).op \in {"cond", "icond"}
  BY DEF AreIdiom
<1>4. InsnAt(a).op \in Conditional /\ InsnAt(d).op \in Conditional
  BY <1>40 DEF Conditional
<1>5. LastOf(bb).dst = GuestNext(a, b)
  <2>1. IsEnd(LastOf(bb), a, b)
    BY <1>2, EndHas, Zenon
  <2> QED BY <1>4, <2>1, Zenon DEF IsEnd
<1>6. /\ Len(X) = m + n
      /\ \A i \in 1 .. m - 1 : X[i] = bb.insns[i]
      /\ X[m] = [LastOf(bb) EXCEPT !.exits = FALSE, !.guard = {}, !.dst = 0]
      /\ \A i \in 1 .. n : X[m + i] = AddGuarded(Shifted(sx.insns[i], 1), {<<1, b>>})
      /\ and.next = bb.next /\ and.jk = bb.jk /\ and.conds = 2
  <2>1. IsAnd(and, bb, sx, b)
    BY <1>0, <1>4, AndIs
  <2> HIDE DEF and
  <2> QED BY <2>1, Zenon DEF IsAnd
<1>7. v[1] \in BOOLEAN /\ v[2] \in BOOLEAN
  BY <1>6 DEF Valuations
<1>70. \A i \in 1 .. m - 1 : IsInner(bb, i)
  BY <1>100, InnerIs
<1>71. \A i \in 1 .. n - 1 : IsInner(sx, i)
  BY <1>100, InnerIs
<1>72. sx.next = bb.next /\ Guardable(sx)
  BY DEF AreIdiom
<1>73. /\ bb.insns[m].addr = a /\ sx.insns[n].addr = d
  BY DEF LastOf
<1>74. /\ \A i \in 1 .. n - 1 : sx.insns[i].work # "effect"
  BY <1>1, <1>72 DEF Guardable
<1>75. taken \in BOOLEAN /\ (taken => k = m + n) /\ (~ taken => k = m)
  BY Zenon
<1> HIDE DEF and, m, n, a, d, k, taken
<1>76. k \in Nat /\ m <= k /\ k <= m + n /\ \A i \in m + 1 .. m + n : i <= k <=> taken
  BY <1>1, <1>75
<1>77. /\ and.next = GuestNext(a, ~ b) /\ and.next = GuestNext(d, ~ c)
       /\ and.jk = JumpKindOf(a)
  BY <1>2, <1>3, <1>6, <1>72, Zenon
\* The instructions of the first block, and its last one.
<1>8. \A i \in 1 .. m - 1 :
        /\ X[i].when = {} /\ X[i].k = 0 /\ ~ X[i].exits
        /\ X[i].addr = bb.insns[i].addr /\ X[i].work = WorkOf(X[i].addr)
  BY <1>6, <1>70 DEF IsInner
<1>9. X[m].when = {} /\ X[m].k = 1 /\ ~ X[m].exits /\ X[m].addr = a /\ X[m].work = "none"
  <2>1. WorkOf(a) = "none"
    BY <1>40 DEF WorkOf
  <2>2. /\ X[m].when = LastOf(bb).when /\ X[m].k = LastOf(bb).k /\ ~ X[m].exits
        /\ X[m].addr = LastOf(bb).addr /\ X[m].work = LastOf(bb).work
    BY <1>2, <1>6 DEF EndAt
  <2>3. IsEnd(LastOf(bb), a, b)
    BY <1>2, EndHas, Zenon
  <2> QED BY <1>4, <2>1, <2>2, <2>3, Zenon DEF IsEnd
\* Those of the second, and its last one.
<1>10. ASSUME NEW j \in 1 .. n - 1
       PROVE  /\ X[m + j].when = {<<1, b>>} /\ X[m + j].k = 0 /\ ~ X[m + j].exits
              /\ X[m + j].addr = sx.insns[j].addr /\ X[m + j].work = WorkOf(X[m + j].addr)
              /\ X[m + j].work # "effect"
  <2>1. j \in 1 .. n /\ j # n
    BY <1>1
  <2>2. /\ sx.insns[j] = EndAt(sx.insns[j].addr, InsnAt(sx.insns[j].addr).op # "icond")
        /\ InsnAt(sx.insns[j].addr).op \notin Conditional
    BY <1>100, TranslateIs, Zenon DEF Chain, n
  <2>3. /\ X[m + j].when = {<<1, b>>} /\ X[m + j].k = 0 /\ ~ X[m + j].exits
        /\ X[m + j].addr = sx.insns[j].addr /\ X[m + j].work = WorkOf(sx.insns[j].addr)
    <3>1. X[m + j] = AddGuarded(Shifted(sx.insns[j], 1), {<<1, b>>})
      BY <1>6, <2>1, Zenon
    <3>2. IsAdded(X[m + j], sx.insns[j].addr, InsnAt(sx.insns[j].addr).op # "icond", b)
      BY <2>2, <3>1, AddedIs, Zenon
    <3> QED BY <2>2, <3>2, Zenon DEF IsAdded
  <2>4. WorkOf(sx.insns[j].addr) # "effect"
    <3>1. sx.insns[j].work = WorkOf(sx.insns[j].addr)
      <4>1. IsEnd(sx.insns[j], sx.insns[j].addr, InsnAt(sx.insns[j].addr).op # "icond")
        BY <2>2, EndHas, Zenon
      <4> QED BY <4>1, Zenon DEF IsEnd
    <3> QED BY <1>74, <3>1, Zenon
  <2> QED BY <2>3, <2>4
<1>11. /\ X[m + n].when = {<<1, b>>} /\ X[m + n].k = 2 /\ X[m + n].exits
       /\ X[m + n].guard = {<<2, c>>} \cup {<<1, b>>} /\ X[m + n].dst = GuestNext(d, c)
       /\ X[m + n].addr = d /\ X[m + n].work = "none"
  <2>1. n \in 1 .. n
    BY <1>1
  <2>2. WorkOf(d) = "none"
    BY <1>40 DEF WorkOf
  <2>3. X[m + n] = AddGuarded(Shifted(EndAt(d, c), 1), {<<1, b>>})
    BY <1>3, <1>6, <2>1, Zenon
  <2>4. IsAdded(X[m + n], d, c, b)
    BY <2>3, AddedIs, Zenon
  <2> QED BY <1>4, <2>2, <2>4 DEF IsAdded
<1>12. \A i \in 1 .. m + n : \/ i \in 1 .. m - 1 \/ i = m
                             \/ (\E j \in 1 .. n - 1 : i = m + j) \/ i = m + n
  <2>1. ASSUME NEW i \in 1 .. m + n, i > m, i # m + n
        PROVE  \E j \in 1 .. n - 1 : i = m + j
    <3>1. i - m \in 1 .. n - 1 /\ i = m + (i - m)
      BY <1>1, <2>1
    <3> QED BY <3>1
  <2> QED BY <1>1, <2>1
\* Which are reached and executed.
<1>13. \A i \in 1 .. m + n - 1 : ~ Leaves(and, i, v)
  <2>1. ASSUME NEW i \in 1 .. m + n - 1 PROVE ~ X[i].exits
    <3>1. i \in 1 .. m + n /\ i # m + n
      BY <1>1
    <3> QED BY <1>8, <1>9, <1>10, <1>12, <3>1
  <2> QED BY <2>1 DEF Leaves
<1>14. \A i \in 1 .. m + n : Reached(and, i, v)
  BY <1>1, <1>13 DEF Reached
<1>15. Leaves(and, m + n, v) <=> v[2] = c /\ taken
  <2>1. Satisfied({<<2, c>>} \cup {<<1, b>>}, v) <=> v[2] = c /\ v[1] = b
    <3>1. <<2, c>>[1] = 2 /\ <<2, c>>[2] = c /\ <<1, b>>[1] = 1 /\ <<1, b>>[2] = b
      OBVIOUS
    <3> QED BY <3>1 DEF Satisfied
  <2> QED BY <1>11, <2>1 DEF Leaves, taken
<1>16. Reached(and, m + n + 1, v) <=> ~ (v[2] = c /\ taken)
  BY <1>1, <1>13, <1>15 DEF Reached
<1>17. Satisfied({}, v) /\ (Satisfied({<<1, b>>}, v) <=> taken)
  BY Guards, Zenon DEF taken
<1>18. \A i \in 1 .. m + n : Executed(and, i, v) <=> i <= k
  <2>1. ASSUME NEW i \in 1 .. m + n
        PROVE  Satisfied(X[i].when, v) <=> i <= k
    <3>1. CASE i <= m
      <4>1. X[i].when = {}
        <5>1. i \in 1 .. m - 1 \/ i = m
          BY <1>1, <3>1
        <5> QED BY <1>8, <1>9, <5>1, Zenon
      <4>2. i <= k
        BY <1>1, <1>76, <3>1
      <4> QED BY <1>17, <4>1, <4>2, Zenon
    <3>2. CASE i > m
      <4>1. X[i].when = {<<1, b>>}
        <5>1. (\E j \in 1 .. n - 1 : i = m + j) \/ i = m + n
          <6>1. i \notin 1 .. m - 1 /\ i # m
            BY <1>1, <3>2
          <6> QED BY <1>12, <6>1, Zenon
        <5> QED BY <1>10, <1>11, <5>1, Zenon
      <4>2. i <= k <=> taken
        BY <1>1, <1>76, <3>2
      <4> QED BY <1>17, <4>1, <4>2, Zenon
    <3> QED BY <1>1, <3>1, <3>2
  <2> QED BY <1>14, <2>1 DEF Executed
<1>19. CondOf(and, m, v) = v[1] /\ CondOf(and, m + n, v) = v[2]
  <2>1. and.insns[m].k = 1 /\ and.insns[m + n].k = 2
    BY <1>9, <1>11, Zenon
  <2>2. CondOf(and, m, v) = v[1]
    BY <1>7, <2>1 DEF CondOf
  <2>3. CondOf(and, m + n, v) = v[2]
    BY <1>7, <2>1 DEF CondOf
  <2> QED BY <2>2, <2>3, Zenon
\* How they go on.
<1>20. ASSUME NEW i \in 1 .. k - 1
       PROVE  X[i + 1].addr = Onward(and, i, v) /\ InsnAt(X[i].addr).op # "sys"
  <2>1. CASE i < m
    <3>1. i \in 1 .. m - 1 /\ (i + 1 \in 1 .. m - 1 \/ i + 1 = m)
      BY <1>1, <2>1
    <3>2. X[i].addr = bb.insns[i].addr /\ X[i + 1].addr = bb.insns[i + 1].addr
      BY <1>8, <1>9, <1>73, <3>1, Zenon
    <3>3. /\ \A e : bb.insns[i + 1].addr = GuestNext(bb.insns[i].addr, e)
          /\ InsnAt(bb.insns[i].addr).op # "sys"
      BY <1>70, <3>1, Zenon DEF IsInner
    <3> QED BY <3>2, <3>3, Zenon DEF Onward
  <2>2. CASE i = m
    <3>1. taken
      BY <1>1, <1>75, <2>2
    <3>2. X[m + 1].addr = sx.insns[1].addr
      <4>1. CASE n = 1
        BY <1>11, <1>73, <4>1, Zenon
      <4>2. CASE n # 1
        <5>1. 1 \in 1 .. n - 1
          BY <1>1, <4>2
        <5> QED BY <1>10, <5>1
      <4> QED BY <4>1, <4>2
    <3>3. Onward(and, m, v) = GuestNext(a, b)
      BY <1>9, <1>19, <3>1, Zenon DEF Onward, taken
    <3>4. InsnAt(X[m].addr).op # "sys"
      BY <1>9, <1>40
    <3> QED BY <1>5, <1>100, <2>2, <3>2, <3>3, <3>4, Zenon
  <2>3. CASE i > m
    <3>1. i \in 1 .. m + n /\ i # m + n
      BY <1>1, <1>76, <2>3
    <3>2. PICK j \in 1 .. n - 1 : i = m + j
      <4>1. i \notin 1 .. m - 1 /\ i # m
        BY <1>1, <2>3
      <4> QED BY <1>12, <3>1, <4>1, Zenon
    <3>3. i + 1 = m + (j + 1) /\ (j + 1 \in 1 .. n - 1 \/ j + 1 = n)
      BY <1>1, <3>2
    <3>4. X[i].addr = sx.insns[j].addr
      BY <1>10, <3>2, Zenon
    <3>5. X[i + 1].addr = sx.insns[j + 1].addr
      <4>1. CASE j + 1 = n
        BY <1>11, <1>73, <3>3, <4>1, Zenon
      <4>2. CASE j + 1 \in 1 .. n - 1
        BY <1>10, <3>3, <4>2, Zenon
      <4> QED BY <3>3, <4>1, <4>2, Zenon
    <3>6. /\ \A e : sx.insns[j + 1].addr = GuestNext(sx.insns[j].addr, e)
          /\ InsnAt(sx.insns[j].addr).op # "sys"
      BY <1>71, <3>2, Zenon DEF IsInner
    <3> QED BY <3>4, <3>5, <3>6, Zenon DEF Onward
  <2>4. i < m \/ i = m \/ i > m
    BY <1>1, <1>76
  <2> QED BY <2>1, <2>2, <2>3, <2>4, Zenon
<1>21. ASSUME NEW j \in 1 .. m + n, Leaves(and, j, v)
       PROVE  X[j].dst = Onward(and, k, v)
  <2>1. j = m + n
    BY <1>1, <1>13, <1>21
  <2>2. v[2] = c /\ taken
    BY <1>15, <1>21, <2>1
  <2>3. Onward(and, m + n, v) = GuestNext(d, c)
    BY <1>11, <1>19, <2>2, Zenon DEF Onward
  <2> QED BY <1>11, <1>75, <2>1, <2>2, <2>3, Zenon
<1>22. ASSUME Reached(and, m + n + 1, v)
       PROVE  and.next = Onward(and, k, v) /\ and.jk = JumpKindOf(X[k].addr)
  <2>1. JumpKindOf(a) = "Boring" /\ JumpKindOf(d) = "Boring"
    BY <1>40 DEF JumpKindOf
  <2>2. CASE taken
    <3>1. v[2] = ~ c
      BY <1>3, <1>7, <1>16, <1>22, <2>2, Zenon
    <3>2. Onward(and, m + n, v) = GuestNext(d, ~ c)
      BY <1>11, <1>19, <3>1, Zenon DEF Onward
    <3> QED BY <1>11, <1>75, <1>77, <2>1, <2>2, <3>2, Zenon
  <2>3. CASE ~ taken
    <3>1. v[1] = ~ b
      BY <1>2, <1>7, <2>3 DEF taken
    <3>2. Onward(and, m, v) = GuestNext(a, ~ b)
      BY <1>9, <1>19, <3>1 DEF Onward
    <3> QED BY <1>9, <1>75, <1>77, <2>3, <3>2, Zenon
  <2> QED BY <2>2, <2>3, Zenon
\* And what takes effect.
<1>23. ASSUME NEW i \in 1 .. m + n
       PROVE  Acts(and, i, v) <=> i <= k /\ GuestActs(X[i].addr, CondOf(and, i, v))
  <2>1. CASE i \in 1 .. m - 1
    <3>1. i + 1 \in 1 .. m + n /\ i <= k
      BY <1>1, <1>76, <2>1
    <3>2. Acts(and, i, v) <=> WorkOf(X[i].addr) # "none"
      BY <1>8, <1>14, <1>17, <2>1, <3>1, Zenon DEF Acts
    <3>3. \A e : WorkOf(X[i].addr) # "none" <=> GuestActs(X[i].addr, e)
      BY <1>8, <1>70, <2>1, Zenon DEF IsInner
    <3> QED BY <3>1, <3>2, <3>3, Zenon
  <2>2. CASE i = m
    <3>1. ~ Acts(and, i, v)
      BY <1>9, <2>2 DEF Acts
    <3>2. ~ GuestActs(X[i].addr, CondOf(and, i, v))
      BY <1>9, <1>40, <2>2 DEF GuestActs, Plain
    <3> QED BY <3>1, <3>2, Zenon
  <2>3. ASSUME NEW j \in 1 .. n - 1, i = m + j
        PROVE  Acts(and, i, v) <=> i <= k /\ GuestActs(X[i].addr, CondOf(and, i, v))
    <3>1. i + 1 \in 1 .. m + n /\ (i <= k <=> taken)
      BY <1>1, <1>76, <2>3
    <3>2. X[i].addr = sx.insns[j].addr
      BY <1>10, <2>3, Zenon
    <3>3. X[i].work = "guardable" <=> WorkOf(X[i].addr) # "none"
      BY <1>10, <2>3 DEF WorkOf
    <3>4. X[i].when = {<<1, b>>} /\ X[i].work = WorkOf(X[i].addr)
      BY <1>10, <2>3, Zenon
    <3>5. Acts(and, i, v) <=> taken /\ WorkOf(X[i].addr) # "none"
      BY <1>14, <1>17, <3>1, <3>3, <3>4 DEF Acts
    <3>6. \A e : WorkOf(X[i].addr) # "none" <=> GuestActs(X[i].addr, e)
      BY <1>71, <2>3, <3>2, Zenon DEF IsInner
    <3> QED BY <3>1, <3>5, <3>6
  <2>4. CASE i = m + n
    <3>1. ~ Acts(and, i, v)
      BY <1>11, <2>4 DEF Acts
    <3>2. ~ GuestActs(X[i].addr, CondOf(and, i, v))
      BY <1>11, <1>40, <2>4 DEF GuestActs, Plain
    <3> QED BY <3>1, <3>2, Zenon
  <2> QED BY <1>12, <2>1, <2>2, <2>3, <2>4, Zenon
<1>24. X[1].addr = start
  <2>1. CASE m = 1
    BY <1>9, <1>73, <1>100, <2>1, Zenon
  <2>2. CASE m # 1
    <3>1. 1 \in 1 .. m - 1
      BY <1>1, <2>2
    <3> QED BY <1>8, <1>100, <3>1, Zenon
  <2> QED BY <2>1, <2>2, Zenon
<1>25. Len(X) \in Nat /\ Len(X) = m + n /\ k \in 1 .. Len(X)
  BY <1>1, <1>6, <1>76
<1> QED BY <1>18, <1>20, <1>21, <1>22, <1>23, <1>24, <1>25, PrefixFollows, Zenon DEF and

\* A block that ends with a branch on a condition, in either sense.
IsOriented(o, bb, inverted) ==
  /\ LastOf(o).dst = IF inverted THEN bb.next ELSE LastOf(bb).dst
  /\ o.next = IF inverted THEN LastOf(bb).dst ELSE bb.next
  /\ InsnAt(LastOf(o).addr).op \in {"cond", "icond"}
  /\ Len(o.insns) = Len(bb.insns)
  /\ \A i \in 1 .. Len(bb.insns) : o.insns[i].addr = bb.insns[i].addr

\* A block of one sense becomes one of the sense wanted.
LEMMA OrientedIs ==
  ASSUME NEW bb, NEW s, NEW b, Faithful(bb, s, b), LastOf(bb).exits, LastOf(bb).work = "none",
         NEW inverted \in BOOLEAN
  PROVE  /\ \E c \in BOOLEAN : Faithful(Oriented(bb, inverted), s, c)
         /\ IsOriented(Oriented(bb, inverted), bb, inverted)
<1>1. b \in BOOLEAN /\ LastOf(bb) = EndAt(LastOf(bb).addr, b)
  BY DEF Faithful
<1>2. InsnAt(LastOf(bb).addr).op \in {"cond", "icond"}
  <2>1. InsnAt(LastOf(bb).addr).op \in Conditional /\ WorkOf(LastOf(bb).addr) = "none"
    BY <1>1, EndIs
  <2> QED BY <2>1 DEF Conditional, WorkOf
<1>3. CASE inverted
  <2>1. Oriented(bb, inverted) = SwapSxFt(bb)
    BY <1>3 DEF Oriented
  <2>2. /\ Faithful(SwapSxFt(bb), s, ~ b)
        /\ SwapSxFt(bb).next = LastOf(bb).dst
        /\ LastOf(SwapSxFt(bb)) = EndAt(LastOf(bb).addr, ~ b)
        /\ LastOf(SwapSxFt(bb)).dst = bb.next
        /\ Len(SwapSxFt(bb).insns) = Len(bb.insns)
        /\ \A i \in 1 .. Len(bb.insns) : SwapSxFt(bb).insns[i].addr = bb.insns[i].addr
    BY SwapIs
  <2>3. LastOf(SwapSxFt(bb)).addr = LastOf(bb).addr
    <3>1. IsEnd(LastOf(SwapSxFt(bb)), LastOf(bb).addr, ~ b)
      BY <2>2, EndHas, Zenon
    <3> QED BY <3>1, Zenon DEF IsEnd
  <2>4. IsOriented(SwapSxFt(bb), bb, inverted)
    BY <1>2, <1>3, <2>2, <2>3, Zenon DEF IsOriented
  <2>5. (~ b) \in BOOLEAN
    BY <1>1
  <2> QED BY <2>1, <2>2, <2>4, <2>5, Zenon
<1>4. CASE ~ inverted
  <2>1. Oriented(bb, inverted) = bb
    BY <1>4 DEF Oriented
  <2>2. IsOriented(bb, bb, inverted)
    BY <1>2, <1>4 DEF IsOriented
  <2> QED BY <1>1, <2>1, <2>2
<1> QED BY <1>3, <1>4

\* analyse_block_end
LEMMA EndsWith ==
  ASSUME NEW bb, BlockEnd(bb).tag = "Cond"
  PROVE  /\ LastOf(bb).exits /\ LastOf(bb).work = "none"
         /\ BlockEnd(bb).sx = LastOf(bb).dst /\ BlockEnd(bb).ft = bb.next
<1>1. EndsCond(bb)
  BY DEF BlockEnd
<1> QED BY <1>1 DEF BlockEnd, EndsCond

\* The transformed block has the code of both.
LEMMA AndHasBoth ==
  ASSUME NEW bb, NEW sx, NEW s, NEW t, NEW b, NEW c,
         Faithful(bb, s, b), Faithful(sx, t, c),
         InsnAt(LastOf(bb).addr).op \in Conditional,
         InsnAt(LastOf(sx).addr).op \in Conditional
  PROVE  IsBoth(AndTransform(bb, sx), bb, sx)
<1> DEFINE and == AndTransform(bb, sx)
           m == Len(bb.insns)
           n == Len(sx.insns)
<1>1. IsAnd(and, bb, sx, b)
  BY AndIs
<1>2. m \in Nat /\ m >= 1 /\ LastOf(bb) = bb.insns[m] /\ LastOf(bb) = EndAt(LastOf(bb).addr, b)
  BY ChainIs DEF Faithful, LastOf
<1>3. \A j \in 1 .. n : \E e \in BOOLEAN : sx.insns[j] = EndAt(sx.insns[j].addr, e)
  BY AllEnds
<1> HIDE DEF and
<1>4. Len(and.insns) = m + n
  BY <1>1 DEF IsAnd
<1>5. and.insns[m].addr = bb.insns[m].addr
  <2>1. and.insns[m] = [LastOf(bb) EXCEPT !.exits = FALSE, !.guard = {}, !.dst = 0]
    BY <1>1, Zenon DEF IsAnd
  <2>2. and.insns[m].addr = LastOf(bb).addr
    BY <1>2, <2>1 DEF EndAt
  <2> QED BY <1>2, <2>2
<1>6. \A i \in 1 .. m - 1 : and.insns[i].addr = bb.insns[i].addr
  BY <1>1 DEF IsAnd
<1>7. \A i \in 1 .. m : and.insns[i].addr = bb.insns[i].addr
  <2> HIDE DEF m
  <2> QED BY <1>2, <1>5, <1>6
<1>8. ASSUME NEW j \in 1 .. n PROVE and.insns[m + j].addr = sx.insns[j].addr
  <2>1. PICK e \in BOOLEAN : sx.insns[j] = EndAt(sx.insns[j].addr, e)
    BY <1>3
  <2>2. and.insns[m + j] = AddGuarded(Shifted(sx.insns[j], 1), {<<1, b>>})
    BY <1>1, Zenon DEF IsAnd
  <2>3. IsAdded(and.insns[m + j], sx.insns[j].addr, e, b)
    BY <2>1, <2>2, AddedIs, Zenon
  <2> QED BY <2>3, Zenon DEF IsAdded
<1> QED BY <1>4, <1>7, <1>8 DEF IsBoth, and

\* Where an idiom was found, the branch it needs is there and its other way on
\* is that of the block.
LEMMA IdiomIs ==
  ASSUME NEW be, NEW sx, NEW ft, Idiom(be, sx, ft) # NoIdiom
  PROVE  LET idiom == Idiom(be, sx, ft)
         IN  \/ idiom = 0 /\ sx.tag = "Cond" /\ sx.ft = be.ft
             \/ idiom = 1 /\ sx.tag = "Cond" /\ sx.sx = be.ft
             \/ idiom = 2 /\ ft.tag = "Cond" /\ ft.ft = be.sx
             \/ idiom = 3 /\ ft.tag = "Cond" /\ ft.sx = be.sx
<1>1. CASE Iom1(be, sx) # NoIdiom
  <2>1. Idiom(be, sx, ft) = Iom1(be, sx)
    BY <1>1 DEF Idiom
  <2> QED BY <1>1, <2>1 DEF Iom1
<1>2. CASE Iom1(be, sx) = NoIdiom
  <2>1. Idiom(be, sx, ft) = Iom2(be, ft) /\ Iom2(be, ft) # NoIdiom
    BY <1>2 DEF Idiom
  <2> QED BY <2>1 DEF Iom2
<1> QED BY <1>1, <1>2

\* What FollowCond appends meets the conditions of AndFollows.
LEMMA IdiomArm ==
  ASSUME prog \in Programs, NEW b, Faithful(irsb, start, b), BlockEnd(irsb).tag = "Cond"
  PROVE  LET be == BlockEnd(irsb)
             sxbb == Disassemble(be.sx, 3)
             ftbb == Disassemble(be.ft, 3)
             idiom == Idiom(be, BlockEnd(sxbb), BlockEnd(ftbb))
             bb == Oriented(irsb, idiom \in {2, 3})
             arm == IF idiom \in {2, 3} THEN ftbb ELSE sxbb
             sx == Oriented(arm, idiom \in {1, 3})
         IN  /\ \E c \in BOOLEAN : Faithful(bb, start, c)
             /\ IsOriented(bb, irsb, idiom \in {2, 3})
             /\ idiom # NoIdiom =>
                  /\ \E c \in BOOLEAN : Faithful(sx, LastOf(bb).dst, c)
                  /\ IsOriented(sx, arm, idiom \in {1, 3})
                  /\ sx.next = bb.next
                  /\ \E a \in Nat : arm = Disassemble(a, 3)
<1> DEFINE be == BlockEnd(irsb)
           sxbb == Disassemble(be.sx, 3)
           ftbb == Disassemble(be.ft, 3)
           idiom == Idiom(be, BlockEnd(sxbb), BlockEnd(ftbb))
           swap == idiom \in {2, 3}
           flip == idiom \in {1, 3}
           bb == Oriented(irsb, swap)
           arm == IF swap THEN ftbb ELSE sxbb
           sx == Oriented(arm, flip)
<1>1. /\ LastOf(irsb).exits /\ LastOf(irsb).work = "none"
      /\ be.sx = LastOf(irsb).dst /\ be.ft = irsb.next
  BY EndsWith
<1>2. be.sx \in Nat /\ be.ft \in Nat
  <2>1. /\ LastOf(irsb).addr \in Nat /\ b \in BOOLEAN /\ (~ b) \in BOOLEAN
        /\ LastOf(irsb) = EndAt(LastOf(irsb).addr, b)
        /\ irsb.next = GuestNext(LastOf(irsb).addr, ~ b)
    BY ChainIs, Zenon DEF Faithful
  <2>2. LastOf(irsb).dst = GuestNext(LastOf(irsb).addr, b)
    <3>1. IsEnd(LastOf(irsb), LastOf(irsb).addr, b)
      BY <2>1, EndHas, Zenon
    <3> QED BY <1>1, <3>1, Zenon DEF IsEnd
  <2> QED BY <1>1, <2>1, <2>2, NextIs, Zenon
<1>3. /\ \E c \in BOOLEAN : Faithful(sxbb, be.sx, c)
      /\ \E c \in BOOLEAN : Faithful(ftbb, be.ft, c)
  <2>1. IsStretch(sxbb, be.sx, 3) /\ IsStretch(ftbb, be.ft, 3)
    BY <1>2, DisassembleIs
  <2> QED BY <2>1, Zenon DEF IsStretch
<1>4. swap \in BOOLEAN /\ flip \in BOOLEAN
  OBVIOUS
<1>5. (\E c \in BOOLEAN : Faithful(bb, start, c)) /\ IsOriented(bb, irsb, swap)
  BY <1>1, <1>4, OrientedIs, Zenon
<1>6. ASSUME idiom # NoIdiom
      PROVE  /\ \E c \in BOOLEAN : Faithful(sx, LastOf(bb).dst, c)
             /\ IsOriented(sx, arm, flip)
             /\ sx.next = bb.next
             /\ \E a \in Nat : arm = Disassemble(a, 3)
  <2>1. \/ idiom = 0 /\ BlockEnd(sxbb).tag = "Cond" /\ BlockEnd(sxbb).ft = be.ft
        \/ idiom = 1 /\ BlockEnd(sxbb).tag = "Cond" /\ BlockEnd(sxbb).sx = be.ft
        \/ idiom = 2 /\ BlockEnd(ftbb).tag = "Cond" /\ BlockEnd(ftbb).ft = be.sx
        \/ idiom = 3 /\ BlockEnd(ftbb).tag = "Cond" /\ BlockEnd(ftbb).sx = be.sx
    BY <1>6, IdiomIs, Zenon
  <2> HIDE DEF be, idiom, sxbb, ftbb
  <2>2. arm = sxbb \/ arm = ftbb
    OBVIOUS
  <2>3. BlockEnd(arm).tag = "Cond"
    BY <2>1
  <2>4. \E c \in BOOLEAN : Faithful(arm, IF swap THEN be.ft ELSE be.sx, c)
    BY <1>3
  <2>5. /\ LastOf(arm).exits /\ LastOf(arm).work = "none"
        /\ BlockEnd(arm).sx = LastOf(arm).dst /\ BlockEnd(arm).ft = arm.next
    BY <2>3, EndsWith
  <2>6. \E a \in Nat : arm = Disassemble(a, 3)
    BY <1>2, <2>2 DEF sxbb, ftbb
  <2>7. /\ LastOf(bb).dst = IF swap THEN be.ft ELSE be.sx
        /\ bb.next = IF swap THEN be.sx ELSE be.ft
    BY <1>1, <1>5, Zenon DEF IsOriented
  <2>8. (IF flip THEN LastOf(arm).dst ELSE arm.next) = IF swap THEN be.sx ELSE be.ft
    <3>1. CASE idiom = 0
      <4>1. ~ swap /\ ~ flip /\ arm = sxbb /\ BlockEnd(sxbb).ft = be.ft
        BY <2>1, <3>1
      <4> QED BY <2>5, <4>1, Zenon
    <3>2. CASE idiom = 1
      <4>1. ~ swap /\ flip /\ arm = sxbb /\ BlockEnd(sxbb).sx = be.ft
        BY <2>1, <3>2
      <4> QED BY <2>5, <4>1, Zenon
    <3>3. CASE idiom = 2
      <4>1. swap /\ ~ flip /\ arm = ftbb /\ BlockEnd(ftbb).ft = be.sx
        BY <2>1, <3>3
      <4> QED BY <2>5, <4>1, Zenon
    <3>4. CASE idiom = 3
      <4>1. swap /\ flip /\ arm = ftbb /\ BlockEnd(ftbb).sx = be.sx
        BY <2>1, <3>4
      <4> QED BY <2>5, <4>1, Zenon
    <3> QED BY <2>1, <3>1, <3>2, <3>3, <3>4, Zenon
  <2> HIDE DEF arm, swap, flip, bb
  <2>9. \E c \in BOOLEAN : Faithful(arm, LastOf(bb).dst, c)
    BY <2>4, <2>7
  <2>10. (\E c \in BOOLEAN : Faithful(sx, LastOf(bb).dst, c)) /\ IsOriented(sx, arm, flip)
    BY <1>4, <2>5, <2>9, OrientedIs
  <2>11. sx.next = IF flip THEN LastOf(arm).dst ELSE arm.next
    BY <2>10 DEF IsOriented
  <2> QED BY <2>6, <2>7, <2>8, <2>10, <2>11, Zenon
<1> HIDE DEF be
<1> QED BY <1>5, <1>6, Zenon DEF be

-----------------------------------------------------------------------------
(* Extents and budget.                                                     *)

AddressesOf(bb) == {bb.insns[i].addr : i \in 1 .. Len(bb.insns)}

CoveredBy(exts) == UNION {exts[i][1] .. exts[i][1] + exts[i][2] - 1 : i \in 1 .. Len(exts)}

\* What one extent covers.
LEMMA CoveredByOne ==
  ASSUME NEW p, NEW s, NEW m, p = <<s, m>>
  PROVE  CoveredBy(<<p>>) = s .. s + m - 1
<1>1. p[1] = s /\ p[2] = m
  OBVIOUS
<1>2. Len(<<p>>) = 1 /\ <<p>>[1] = p /\ 1 .. 1 = {1}
  OBVIOUS
<1> QED BY <1>1, <1>2, Zenon DEF CoveredBy

\* What two extents cover.
LEMMA CoveredByTwo ==
  ASSUME NEW exts, NEW p, NEW q, NEW s, NEW m, NEW t, NEW n, p = <<s, m>>, q = <<t, n>>,
         Len(exts) = 2, exts[1] = p, exts[2] = q
  PROVE  CoveredBy(exts) = (s .. s + m - 1) \cup (t .. t + n - 1)
<1>1. p[1] = s /\ p[2] = m /\ q[1] = t /\ q[2] = n
  OBVIOUS
<1>2. 1 .. 2 = {1, 2}
  OBVIOUS
<1> QED BY <1>1, <1>2, Zenon DEF CoveredBy

\* add_extent to one extent covers both, in at most two.
LEMMA ExtentAdded ==
  ASSUME NEW s \in Nat, NEW m \in Nat \ {0}, NEW t \in Nat, NEW n \in Nat \ {0}
  PROVE  LET exts == AddExtent(<<<<s, m>>>>, t, n)
         IN  /\ Len(exts) <= 2
             /\ CoveredBy(exts) = (s .. s + m - 1) \cup (t .. t + n - 1)
<1> DEFINE p == <<s, m>>
           q == <<t, n>>
           r == <<s, m + n>>
           exts == AddExtent(<<p>>, t, n)
<1>1. p[1] = s /\ p[2] = m
  OBVIOUS
<1>2. exts = IF p[1] + p[2] = t THEN [<<p>> EXCEPT ![1] = <<p[1], p[2] + n>>]
             ELSE Append(<<p>>, q)
  <2> HIDE DEF p, q
  <2>1. Len(<<p>>) = 1 /\ <<p>>[1] = p
    OBVIOUS
  <2> QED BY <2>1 DEF AddExtent, q
<1>3. <<p[1], p[2] + n>> = r
  BY <1>1
<1>4. p = <<s, m>> /\ q = <<t, n>> /\ r = <<s, m + n>>
  OBVIOUS
<1> HIDE DEF p, q, r, exts
<1>5. CASE s + m = t
  <2>1. [<<p>> EXCEPT ![1] = r] = <<r>>
    OBVIOUS
  <2>2. exts = <<r>>
    BY <1>1, <1>2, <1>3, <1>5, <2>1
  <2>3. CoveredBy(<<r>>) = s .. s + (m + n) - 1
    BY <1>4, CoveredByOne
  <2>4. (s .. s + m - 1) \cup (t .. t + n - 1) = s .. s + (m + n) - 1
    BY <1>5
  <2>5. Len(<<r>>) <= 2
    OBVIOUS
  <2> QED BY <2>2, <2>3, <2>4, <2>5, Zenon DEF exts, p
<1>6. CASE s + m # t
  <2>1. exts = Append(<<p>>, q)
    BY <1>1, <1>2, <1>6
  <2>2. <<p>> \in Seq({p, q}) /\ q \in {p, q} /\ Len(<<p>>) = 1 /\ <<p>>[1] = p
    OBVIOUS
  <2>3. Len(exts) = 2 /\ exts[1] = p /\ exts[2] = q
    BY <2>1, <2>2
  <2>4. CoveredBy(exts) = (s .. s + m - 1) \cup (t .. t + n - 1)
    BY <1>4, <2>3, CoveredByTwo
  <2>5. Len(exts) <= 2
    BY <2>3
  <2> QED BY <2>4, <2>5, Zenon DEF exts, p
<1> QED BY <1>5, <1>6

\* The addresses of one stretch of code.
LEMMA AddressesOfOne ==
  ASSUME NEW bb, NEW s \in Nat, Len(bb.insns) \in Nat \ {0},
         \A i \in 1 .. Len(bb.insns) : bb.insns[i].addr = s + i - 1
  PROVE  AddressesOf(bb) = s .. s + Len(bb.insns) - 1
<1> DEFINE m == Len(bb.insns)
<1>1. ASSUME NEW x \in s .. s + m - 1 PROVE x \in AddressesOf(bb)
  <2>1. x - s + 1 \in 1 .. m /\ x = s + (x - s + 1) - 1
    OBVIOUS
  <2>2. bb.insns[x - s + 1].addr = s + (x - s + 1) - 1
    BY <2>1
  <2> QED BY <2>1, <2>2 DEF AddressesOf
<1>2. ASSUME NEW x \in AddressesOf(bb) PROVE x \in s .. s + m - 1
  BY DEF AddressesOf
<1> QED BY <1>1, <1>2, Zenon

\* The addresses of two.
LEMMA AddressesOfBoth ==
  ASSUME NEW bb, NEW bb1, NEW bb2, IsBoth(bb, bb1, bb2),
         Len(bb1.insns) \in Nat, Len(bb2.insns) \in Nat
  PROVE  AddressesOf(bb) = AddressesOf(bb1) \cup AddressesOf(bb2)
<1> DEFINE m == Len(bb1.insns)
           n == Len(bb2.insns)
<1>1. /\ Len(bb.insns) = m + n
      /\ \A i \in 1 .. m : bb.insns[i].addr = bb1.insns[i].addr
      /\ \A i \in 1 .. n : bb.insns[m + i].addr = bb2.insns[i].addr
  BY DEF IsBoth
<1>2. AddressesOf(bb1) = {bb1.insns[i].addr : i \in 1 .. m}
  BY DEF AddressesOf
<1>3. AddressesOf(bb2) = {bb2.insns[i].addr : i \in 1 .. n}
  BY DEF AddressesOf
<1>4. AddressesOf(bb) = {bb.insns[i].addr : i \in 1 .. m + n}
  BY <1>1 DEF AddressesOf
<1>5. m \in Nat /\ n \in Nat
  OBVIOUS
<1> HIDE DEF m, n
<1>6. ASSUME NEW i \in 1 .. m + n
      PROVE  bb.insns[i].addr \in AddressesOf(bb1) \cup AddressesOf(bb2)
  <2>1. CASE i <= m
    <3>1. i \in 1 .. m
      BY <1>5, <2>1
    <3> QED BY <1>1, <1>2, <3>1, Zenon
  <2>2. CASE i > m
    <3>1. i - m \in 1 .. n /\ i = m + (i - m)
      BY <1>5, <2>2
    <3>2. bb.insns[i].addr = bb2.insns[i - m].addr
      BY <1>1, <3>1
    <3> QED BY <1>3, <3>1, <3>2
  <2> QED BY <1>5, <2>1, <2>2
<1>7. ASSUME NEW i \in 1 .. m PROVE bb1.insns[i].addr \in AddressesOf(bb)
  <2>1. i \in 1 .. m + n
    BY <1>5
  <2> QED BY <1>1, <1>4, <2>1
<1>8. ASSUME NEW i \in 1 .. n PROVE bb2.insns[i].addr \in AddressesOf(bb)
  <2>1. m + i \in 1 .. m + n
    BY <1>5
  <2> QED BY <1>1, <1>4, <2>1
<1>9. ASSUME NEW x \in AddressesOf(bb) PROVE x \in AddressesOf(bb1) \cup AddressesOf(bb2)
  BY <1>4, <1>6
<1>10. ASSUME NEW x \in AddressesOf(bb1) PROVE x \in AddressesOf(bb)
  BY <1>2, <1>7
<1>11. ASSUME NEW x \in AddressesOf(bb2) PROVE x \in AddressesOf(bb)
  BY <1>3, <1>8
<1> QED BY <1>9, <1>10, <1>11

\* update_instr_budget never leaves more than guest_max_insns less what the
\* first block used.
LEMMA BudgetIs ==
  ASSUME NEW bb, bb.used \in 1 .. guest_max_insns,
         avail = guest_max_insns
  PROVE  Budget(bb) \in Nat /\ bb.used + Budget(bb) <= guest_max_insns
<1> DEFINE half == guest_max_insns \div 2
<1>1. guest_max_insns \in Nat /\ half \in Nat /\ half <= guest_max_insns
  BY VexAssumption
<1> DEFINE before == IF ~ (bb.verbose /\ ~ verbose) THEN avail
                     ELSE IF bb.used > half THEN 0 ELSE half
<1>2. Budget(bb) = IF bb.used > before THEN 0 ELSE before - bb.used
  BY DEF Budget
<1> HIDE DEF half
<1>3. before \in Nat /\ before <= guest_max_insns
  BY <1>1
<1> HIDE DEF before
<1> QED BY <1>1, <1>2, <1>3

-----------------------------------------------------------------------------
(* The invariant.                                                          *)

\* Before the block is extended it is one stretch of code, and there is room for
\* what is left of the budget.
IInv ==
  /\ prog \in Programs /\ start \in Nat
  /\ forming = "start" => irsb = NoBlock /\ vge = << >> /\ avail = guest_max_insns
  /\ forming = "extend" =>
       /\ irsb = Block(Disassemble(start, guest_max_insns))
       /\ vge = <<<<start, Len(irsb.insns)>>>>
       /\ avail \in Nat /\ Len(irsb.insns) + avail <= guest_max_insns
  /\ FollowsGuest /\ ExtentsAreTheCode /\ WithinBudget

\* What a block does depends on the guest's code and where it starts only.
LEMMA FollowsPrimed ==
  ASSUME UNCHANGED <<prog, start>>, \A v \in Valuations(irsb') : Follows(irsb', v)
  PROVE  FollowsGuest'
<1>1. prog' = prog /\ start' = start
  OBVIOUS
<1>2. \A a : InsnAt(a)' = InsnAt(a)
  BY <1>1 DEF InsnAt
<1>3. \A a, c : GuestNext(a, c)' = GuestNext(a, c)
  BY <1>2 DEF GuestNext
<1>4. \A a, c : GuestActs(a, c)' <=> GuestActs(a, c)
  BY <1>2 DEF GuestActs
<1>5. \A a : JumpKindOf(a)' = JumpKindOf(a)
  BY <1>2 DEF JumpKindOf
<1>6. \A bb, i, v : Onward(bb, i, v)' = Onward(bb, i, v)
  BY <1>3, Zenon DEF Onward
<1>7. ASSUME NEW bb, NEW v PROVE Follows(bb, v)' <=> Follows(bb, v)
  <2> DEFINE Here == 1 .. Len(bb.insns)
  <2>1. bb.insns[1].addr = start' <=> bb.insns[1].addr = start
    BY <1>1
  <2>2. ASSUME NEW i \in Here, NEW j \in Here
        PROVE  (bb.insns[j].addr = Onward(bb, i, v)' /\ InsnAt(bb.insns[i].addr)'.op # "sys")
                 <=> (bb.insns[j].addr = Onward(bb, i, v) /\ InsnAt(bb.insns[i].addr).op # "sys")
    BY <1>2, <1>6
  <2>3. ASSUME NEW i \in Here, NEW j \in Here
        PROVE  bb.insns[j].dst = Onward(bb, i, v)' <=> bb.insns[j].dst = Onward(bb, i, v)
    BY <1>6
  <2>4. ASSUME NEW i \in Here
        PROVE  (bb.next = Onward(bb, i, v)' /\ bb.jk = JumpKindOf(bb.insns[i].addr)')
                 <=> (bb.next = Onward(bb, i, v) /\ bb.jk = JumpKindOf(bb.insns[i].addr))
    BY <1>5, <1>6
  <2>5. ASSUME NEW i \in Here
        PROVE  GuestActs(bb.insns[i].addr, CondOf(bb, i, v))'
                 <=> GuestActs(bb.insns[i].addr, CondOf(bb, i, v))
    BY <1>4
  <2> HIDE DEF Here
  <2>6. (\A i, j \in Here : Successive(bb, i, j, v) =>
           bb.insns[j].addr = Onward(bb, i, v)' /\ InsnAt(bb.insns[i].addr)'.op # "sys")
          <=> (\A i, j \in Here : Successive(bb, i, j, v) =>
                 bb.insns[j].addr = Onward(bb, i, v) /\ InsnAt(bb.insns[i].addr).op # "sys")
    BY <2>2, Zenon
  <2>7. (\A i \in Here : LastExecuted(bb, i, v) =>
           /\ \A j \in Here : Reached(bb, j, v) /\ Leaves(bb, j, v) =>
                bb.insns[j].dst = Onward(bb, i, v)'
           /\ Reached(bb, Len(bb.insns) + 1, v) =>
                bb.next = Onward(bb, i, v)' /\ bb.jk = JumpKindOf(bb.insns[i].addr)')
          <=> (\A i \in Here : LastExecuted(bb, i, v) =>
                 /\ \A j \in Here : Reached(bb, j, v) /\ Leaves(bb, j, v) =>
                      bb.insns[j].dst = Onward(bb, i, v)
                 /\ Reached(bb, Len(bb.insns) + 1, v) =>
                      bb.next = Onward(bb, i, v) /\ bb.jk = JumpKindOf(bb.insns[i].addr))
    BY <2>3, <2>4, Zenon
  <2>8. (\A i \in Here : Acts(bb, i, v) <=>
           Executed(bb, i, v) /\ GuestActs(bb.insns[i].addr, CondOf(bb, i, v))')
          <=> (\A i \in Here : Acts(bb, i, v) <=>
                 Executed(bb, i, v) /\ GuestActs(bb.insns[i].addr, CondOf(bb, i, v)))
    BY <2>5, Zenon
  <2> QED BY <2>1, <2>6, <2>7, <2>8, Zenon DEF Follows, Here
<1> QED BY <1>7 DEF FollowsGuest

\* And so does what is disassembled.
LEMMA DisassemblePrimed ==
  ASSUME UNCHANGED <<prog, start>>
  PROVE  Disassemble(start, guest_max_insns)' = Disassemble(start, guest_max_insns)
<1>1. prog' = prog /\ start' = start
  OBVIOUS
<1>2. \A a : InsnAt(a)' = InsnAt(a)
  BY <1>1 DEF InsnAt
<1>3. \A a : WorkOf(a)' = WorkOf(a) /\ NextOf(a)' = NextOf(a) /\ JumpKindOf(a)' = JumpKindOf(a)
  BY <1>2 DEF WorkOf, NextOf, JumpKindOf
<1>4. \A a : Translate(a)' = Translate(a)
  BY <1>2, <1>3 DEF Translate
<1>5. \A a, n : VerboseSeen(a, n)' <=> VerboseSeen(a, n)
  BY <1>2 DEF VerboseSeen
<1>6. \A a, allowed, n : Stops(a, allowed, n)' <=> Stops(a, allowed, n)
  BY <1>2, <1>5 DEF Stops
<1>7. \A a, allowed : Used(a, allowed)' = Used(a, allowed)
  BY <1>6 DEF Used
<1> QED BY <1>1, <1>2, <1>3, <1>4, <1>5, <1>7, Zenon DEF Disassemble

\* A block made from one stretch of code is that stretch.
LEMMA BlockIs ==
  ASSUME NEW bb, NEW a, NEW allowed, IsStretch(bb, a, allowed), allowed \in Nat
  PROVE  /\ \E b \in BOOLEAN : Faithful(Block(bb), a, b)
         /\ Block(bb).insns = bb.insns
         /\ Len(bb.insns) \in Nat \ {0} /\ Len(bb.insns) <= allowed
<1>1. /\ Block(bb).insns = bb.insns /\ Block(bb).next = bb.next
      /\ Block(bb).jk = bb.jk /\ Block(bb).conds = bb.conds
  BY DEF Block
<1>2. PICK b \in BOOLEAN : Faithful(bb, a, b)
  BY DEF IsStretch
<1>3. LastOf(Block(bb)) = LastOf(bb)
  BY <1>1 DEF LastOf
<1>4. Chain(Block(bb), a)
  BY <1>1, <1>2, Zenon DEF Faithful, Chain
<1>5. Faithful(Block(bb), a, b)
  BY <1>1, <1>2, <1>3, <1>4 DEF Faithful
<1>6. Len(bb.insns) \in 1 .. allowed
  BY DEF IsStretch
<1> QED BY <1>1, <1>5, <1>6

\* ExtentsAreTheCode, in these terms.
LEMMA MarkedIs ==
  /\ Marked = AddressesOf(irsb)
  /\ ExtentsAreTheCode <=> Len(vge) <= NExtentSlots /\ AddressesOf(irsb) = CoveredBy(vge)
BY DEF Marked, AddressesOf, ExtentsAreTheCode, CoveredBy

\* It holds before anything is disassembled.
LEMMA InitHolds ==
  BBInit => IInv
<1> SUFFICES ASSUME BBInit PROVE IInv
  OBVIOUS
<1>1. prog \in Programs /\ start \in Nat
  BY VexAssumption DEF BBInit
<1>2. irsb = NoBlock /\ vge = << >> /\ avail = guest_max_insns /\ forming = "start"
  BY DEF BBInit
<1>3. Len(irsb.insns) = 0 /\ Len(vge) = 0
  BY <1>2 DEF NoBlock
<1>4. AddressesOf(irsb) = {} /\ CoveredBy(vge) = {}
  BY <1>3 DEF AddressesOf, CoveredBy
<1>5. ExtentsAreTheCode
  BY <1>3, <1>4, MarkedIs DEF NExtentSlots
<1>6. WithinBudget
  BY <1>3, VexAssumption DEF WithinBudget, NumberOfInstructions
<1>7. FollowsGuest
  BY <1>2 DEF FollowsGuest
<1> QED BY <1>1, <1>2, <1>5, <1>6, <1>7 DEF IInv

\* The first block.
LEMMA InitialBlockKeeps ==
  ASSUME IInv, InitialBlock
  PROVE  IInv'
<1> DEFINE bb == Disassemble(start, avail)
<1>1. /\ prog \in Programs /\ start \in Nat
      /\ irsb = NoBlock /\ vge = << >> /\ avail = guest_max_insns
      /\ guest_max_insns \in Nat \ {0}
  BY VexAssumption DEF IInv, InitialBlock
<1>2. /\ irsb' = Block(bb) /\ vge' = AddExtent(vge, bb.base, bb.used) /\ avail' = Budget(bb)
      /\ forming' = "extend" /\ UNCHANGED <<prog, start>>
  BY DEF InitialBlock, Account
<1>3. IsStretch(bb, start, guest_max_insns)
  BY <1>1, DisassembleIs
<1>4. bb.base = start /\ bb.used = Len(bb.insns) /\ bb.used \in 1 .. guest_max_insns
  BY <1>3 DEF IsStretch
<1>5. /\ \E b \in BOOLEAN : Faithful(irsb', start, b)
      /\ irsb'.insns = bb.insns
      /\ Len(bb.insns) \in Nat \ {0} /\ Len(bb.insns) <= guest_max_insns
  BY <1>1, <1>2, <1>3, BlockIs, Zenon
<1>6. irsb' = Block(Disassemble(start, guest_max_insns))
  BY <1>1, <1>2
<1> HIDE DEF bb
<1>7. avail' \in Nat /\ Len(irsb'.insns) + avail' <= guest_max_insns
  BY <1>1, <1>2, <1>4, <1>5, BudgetIs
<1>8. vge' = <<<<start, Len(irsb'.insns)>>>>
  <2>1. vge' = Append(<< >>, <<start, bb.used>>)
    BY <1>1, <1>2, <1>4 DEF AddExtent
  <2> QED BY <1>4, <1>5, <2>1
<1>9. FollowsGuest'
  <2>1. \A v \in Valuations(irsb') : Follows(irsb', v)
    BY <1>5, FaithfulFollows
  <2> QED BY <1>2, <2>1, FollowsPrimed
<1>10. ExtentsAreTheCode'
  <2>1. \A i \in 1 .. Len(irsb'.insns) : irsb'.insns[i].addr = start + i - 1
    BY <1>3, <1>4, <1>5 DEF IsStretch
  <2>2. AddressesOf(irsb') = start .. start + Len(irsb'.insns) - 1
    BY <1>1, <1>5, <2>1, AddressesOfOne, Zenon
  <2>3. CoveredBy(vge') = start .. start + Len(irsb'.insns) - 1
    BY <1>8, CoveredByOne
  <2>4. Len(vge') <= NExtentSlots
    BY <1>8 DEF NExtentSlots
  <2>5. Marked' = AddressesOf(irsb')
    BY DEF Marked, AddressesOf
  <2> QED BY <2>2, <2>3, <2>4, <2>5 DEF ExtentsAreTheCode, CoveredBy
<1>11. WithinBudget'
  BY <1>5 DEF WithinBudget, NumberOfInstructions
<1>12. prog' \in Programs /\ start' \in Nat /\ start' = start
  BY <1>1, <1>2
<1>13. irsb' = Block(Disassemble(start, guest_max_insns)')
  <2>1. Disassemble(start, guest_max_insns)' = Disassemble(start, guest_max_insns)
    BY <1>2, DisassemblePrimed
  <2> QED BY <1>6, <2>1
<1> QED BY <1>2, <1>7, <1>8, <1>9, <1>10, <1>11, <1>12, <1>13 DEF IInv

\* A block about to be extended, and what is known of it.
LEMMA ExtendIs ==
  ASSUME IInv, forming = "extend"
  PROVE  /\ prog \in Programs /\ start \in Nat
         /\ \E b \in BOOLEAN : Faithful(irsb, start, b)
         /\ Len(irsb.insns) \in Nat \ {0}
         /\ AddressesOf(irsb) = start .. start + Len(irsb.insns) - 1
         /\ vge = <<<<start, Len(irsb.insns)>>>>
         /\ avail \in Nat /\ Len(irsb.insns) + avail <= guest_max_insns
         /\ guest_max_insns \in Nat
<1> DEFINE bb == Disassemble(start, guest_max_insns)
<1>1. /\ prog \in Programs /\ start \in Nat /\ guest_max_insns \in Nat \ {0}
      /\ irsb = Block(bb)
      /\ vge = <<<<start, Len(irsb.insns)>>>>
      /\ avail \in Nat /\ Len(irsb.insns) + avail <= guest_max_insns
  BY VexAssumption DEF IInv
<1>2. IsStretch(bb, start, guest_max_insns)
  BY <1>1, DisassembleIs
<1> HIDE DEF bb
<1>3. /\ \E b \in BOOLEAN : Faithful(irsb, start, b)
      /\ irsb.insns = bb.insns /\ Len(bb.insns) \in Nat \ {0}
  BY <1>1, <1>2, BlockIs
<1>4. \A i \in 1 .. Len(irsb.insns) : irsb.insns[i].addr = start + i - 1
  BY <1>2, <1>3 DEF IsStretch
<1>5. AddressesOf(irsb) = start .. start + Len(irsb.insns) - 1
  BY <1>1, <1>3, <1>4, AddressesOfOne, Zenon
<1> QED BY <1>1, <1>3, <1>5

\* Extending it by another stretch of code, within the budget.
LEMMA ExtendedKeeps ==
  ASSUME IInv, forming = "extend", NEW bb, NEW t \in Nat, NEW n, IsStretch(bb, t, n),
         n \in Nat, n <= avail,
         UNCHANGED <<prog, start>>, forming' = "done",
         vge' = AddExtent(vge, bb.base, bb.used),
         Len(irsb'.insns) = Len(irsb.insns) + Len(bb.insns),
         AddressesOf(irsb') = AddressesOf(irsb) \cup AddressesOf(bb),
         \A v \in Valuations(irsb') : Follows(irsb', v)
  PROVE  IInv'
<1> DEFINE m == Len(irsb.insns)
           k == Len(bb.insns)
<1>1. /\ prog \in Programs /\ start \in Nat /\ m \in Nat \ {0}
      /\ AddressesOf(irsb) = start .. start + m - 1 /\ vge = <<<<start, m>>>>
      /\ avail \in Nat /\ m + avail <= guest_max_insns /\ guest_max_insns \in Nat
  BY ExtendIs
<1>2. bb.base = t /\ bb.used = k /\ k \in 1 .. n /\ k \in Nat \ {0}
  BY DEF IsStretch
<1>3. \A i \in 1 .. k : bb.insns[i].addr = t + i - 1
  BY <1>2 DEF IsStretch
<1>4. AddressesOf(bb) = t .. t + k - 1
  BY <1>2, <1>3, AddressesOfOne
<1> HIDE DEF m, k
<1>5. vge' = AddExtent(<<<<start, m>>>>, t, k)
  BY <1>1, <1>2, Zenon
<1>6. Len(vge') <= 2 /\ CoveredBy(vge') = (start .. start + m - 1) \cup (t .. t + k - 1)
  BY <1>1, <1>2, <1>5, ExtentAdded
<1>7. ExtentsAreTheCode'
  <2>1. Marked' = AddressesOf(irsb')
    BY DEF Marked, AddressesOf
  <2>2. AddressesOf(irsb') = CoveredBy(vge')
    BY <1>1, <1>4, <1>6
  <2>3. Len(vge') <= NExtentSlots
    <3>1. Len(vge') \in Int
      BY <1>5, <1>1, <1>2 DEF AddExtent
    <3> QED BY <1>6, <3>1 DEF NExtentSlots
  <2> QED BY <2>1, <2>2, <2>3, Zenon DEF ExtentsAreTheCode, CoveredBy
<1>8. WithinBudget'
  <2>1. m + k <= guest_max_insns
    BY <1>1, <1>2
  <2> QED BY <2>1, Zenon DEF WithinBudget, NumberOfInstructions, m, k
<1>9. FollowsGuest'
  BY FollowsPrimed
<1>10. prog' \in Programs /\ start' \in Nat
  BY <1>1
<1> QED BY <1>7, <1>8, <1>9, <1>10 DEF IInv

\* An unconditional branch is followed.
LEMMA FollowUncondKeeps ==
  ASSUME IInv, FollowUncond
  PROVE  IInv'
<1> DEFINE t == BlockEnd(irsb).ft
           bb == Disassemble(t, avail)
<1>1. /\ forming = "extend" /\ avail >= 3 /\ BlockEnd(irsb).tag = "Uncond"
      /\ irsb' = Concatenate(irsb, bb) /\ vge' = AddExtent(vge, bb.base, bb.used)
      /\ forming' = "done" /\ UNCHANGED <<prog, start>>
  <2>1. avail \in Nat
    BY ExtendIs DEF FollowUncond
  <2> QED BY <2>1 DEF FollowUncond, Account, GiveUp
<1>2. /\ prog \in Programs /\ Len(irsb.insns) \in Nat /\ avail \in Nat \ {0}
  BY <1>1, ExtendIs
<1>3. PICK b \in BOOLEAN : Faithful(irsb, start, b)
  BY <1>1, ExtendIs
<1>4. EndsUncond(irsb) /\ t = irsb.next
  BY <1>1, Zenon DEF BlockEnd
<1>5. t \in Nat
  <2>1. irsb.next = GuestNext(LastOf(irsb).addr, ~ b) /\ LastOf(irsb).addr \in Nat
    BY <1>3, ChainIs, Zenon DEF Faithful
  <2> QED BY <1>2, <1>4, <2>1, NextIs, Zenon
<1>6. IsStretch(bb, t, avail)
  BY <1>2, <1>5, DisassembleIs
<1> HIDE DEF bb, t
<1>7. PICK c \in BOOLEAN : Faithful(bb, irsb.next, c)
  BY <1>4, <1>6 DEF IsStretch
<1>8. Faithful(irsb', start, c) /\ IsBoth(irsb', irsb, bb)
  BY <1>1, <1>2, <1>3, <1>4, <1>7, ConcatenateIs
<1>9. \A v \in Valuations(irsb') : Follows(irsb', v)
  BY <1>8, FaithfulFollows
<1>10. Len(bb.insns) \in Nat
  BY <1>2, <1>6 DEF IsStretch
<1>11. AddressesOf(irsb') = AddressesOf(irsb) \cup AddressesOf(bb)
  BY <1>2, <1>8, <1>10, AddressesOfBoth
<1>12. Len(irsb'.insns) = Len(irsb.insns) + Len(bb.insns)
  BY <1>8, Zenon DEF IsBoth
<1>13. avail \in Nat /\ avail <= avail
  BY <1>2
<1> QED BY <1>1, <1>5, <1>6, <1>9, <1>11, <1>12, <1>13, ExtendedKeeps, Zenon

\* A conditional branch: the idiom is transformed, or the block stays as it is,
\* in one sense or the other.
LEMMA FollowCondKeeps ==
  ASSUME IInv, FollowCond
  PROVE  IInv'
<1> DEFINE be == BlockEnd(irsb)
           sxbb == Disassemble(be.sx, 3)
           ftbb == Disassemble(be.ft, 3)
           idiom == Idiom(be, BlockEnd(sxbb), BlockEnd(ftbb))
           swap == idiom \in {2, 3}
           flip == idiom \in {1, 3}
           bb == Oriented(irsb, swap)
           arm == IF swap THEN ftbb ELSE sxbb
           sx == Oriented(arm, flip)
<1>1. /\ forming = "extend" /\ avail >= 3 /\ be.tag = "Cond"
      /\ IF idiom # NoIdiom /\ Guardable(sx)
         THEN irsb' = AndTransform(bb, sx) /\ Account(arm)
         ELSE irsb' = bb /\ UNCHANGED <<vge, avail, verbose>>
      /\ forming' = "done" /\ UNCHANGED <<prog, start>>
  <2>1. forming = "extend" /\ ~ GiveUp /\ forming' = "done" /\ UNCHANGED <<prog, start>>
    BY Zenon DEF FollowCond
  <2>2. avail >= 3
    BY <2>1, ExtendIs DEF GiveUp
  <2>3. be.tag = "Cond"
    BY Zenon DEF FollowCond
  <2>4. IF idiom # NoIdiom /\ Guardable(sx)
        THEN irsb' = AndTransform(bb, sx) /\ Account(arm)
        ELSE irsb' = bb /\ UNCHANGED <<vge, avail, verbose>>
    BY Zenon DEF FollowCond
  <2> QED BY <2>1, <2>2, <2>3, <2>4, Zenon
<1>2. /\ prog \in Programs /\ start \in Nat /\ avail \in Nat
      /\ Len(irsb.insns) \in Nat
      /\ \E b \in BOOLEAN : Faithful(irsb, start, b)
  BY <1>1, ExtendIs, Zenon
<1>3. /\ \E c \in BOOLEAN : Faithful(bb, start, c)
      /\ IsOriented(bb, irsb, swap)
      /\ idiom # NoIdiom =>
           /\ \E c \in BOOLEAN : Faithful(sx, LastOf(bb).dst, c)
           /\ IsOriented(sx, arm, flip)
           /\ sx.next = bb.next
           /\ \E a \in Nat : arm = Disassemble(a, 3)
  BY <1>1, <1>2, IdiomArm, Zenon
<1> HIDE DEF idiom, swap, flip, bb, arm, sx, be
<1>4. PICK b \in BOOLEAN : Faithful(bb, start, b)
  BY <1>3
<1>5. /\ Len(bb.insns) = Len(irsb.insns)
      /\ \A i \in 1 .. Len(irsb.insns) : bb.insns[i].addr = irsb.insns[i].addr
      /\ InsnAt(LastOf(bb).addr).op \in {"cond", "icond"}
  BY <1>3, Zenon DEF IsOriented
<1>6. AddressesOf(bb) = AddressesOf(irsb)
  BY <1>5 DEF AddressesOf
<1>7. CASE idiom # NoIdiom /\ Guardable(sx)
  <2>1. irsb' = AndTransform(bb, sx) /\ vge' = AddExtent(vge, arm.base, arm.used)
    BY <1>1, <1>7 DEF Account
  <2>2. PICK c \in BOOLEAN : Faithful(sx, LastOf(bb).dst, c)
    BY <1>3, <1>7
  <2>3. PICK a \in Nat : arm = Disassemble(a, 3)
    BY <1>3, <1>7
  <2>4. IsStretch(arm, a, 3)
    BY <1>2, <2>3, DisassembleIs
  <2>5. /\ Len(sx.insns) = Len(arm.insns)
        /\ \A i \in 1 .. Len(arm.insns) : sx.insns[i].addr = arm.insns[i].addr
        /\ InsnAt(LastOf(sx).addr).op \in {"cond", "icond"}
    BY <1>3, <1>7, Zenon DEF IsOriented
  <2>6. AddressesOf(sx) = AddressesOf(arm)
    BY <2>5 DEF AddressesOf
  <2>7. \A v \in Valuations(irsb') : Follows(irsb', v)
    <3>1. AreIdiom(bb, sx, b, c)
      BY <1>3, <1>4, <1>5, <1>7, <2>2, <2>5, Zenon DEF AreIdiom
    <3> QED BY <2>1, <3>1, AndFollows, Zenon
  <2>8. IsBoth(irsb', bb, sx)
    BY <1>4, <1>5, <2>1, <2>2, <2>5, AndHasBoth, Zenon DEF Conditional
  <2>9. Len(arm.insns) \in Nat
    BY <2>4 DEF IsStretch
  <2>10. AddressesOf(irsb') = AddressesOf(irsb) \cup AddressesOf(arm)
    <3>1. Len(bb.insns) \in Nat /\ Len(sx.insns) \in Nat
      BY <1>2, <1>5, <2>5, <2>9, Zenon
    <3>2. AddressesOf(irsb') = AddressesOf(bb) \cup AddressesOf(sx)
      BY <2>8, <3>1, AddressesOfBoth
    <3> QED BY <1>6, <2>6, <3>2, Zenon
  <2>11. Len(irsb'.insns) = Len(irsb.insns) + Len(arm.insns)
    BY <1>5, <2>5, <2>8 DEF IsBoth
  <2>12. 3 \in Nat /\ 3 <= avail
    BY <1>1, <1>2
  <2> QED BY <1>1, <2>1, <2>4, <2>7, <2>10, <2>11, <2>12, ExtendedKeeps, Zenon
<1>8. CASE ~ (idiom # NoIdiom /\ Guardable(sx))
  <2>1. irsb' = bb /\ vge' = vge
    BY <1>1, <1>8
  <2>2. \A v \in Valuations(irsb') : Follows(irsb', v)
    BY <1>4, <2>1, FaithfulFollows
  <2>3. FollowsGuest'
    BY <1>1, <2>2, FollowsPrimed
  <2>4. ExtentsAreTheCode'
    <3>1. Len(vge) <= NExtentSlots /\ AddressesOf(irsb) = CoveredBy(vge)
      BY MarkedIs DEF IInv
    <3>2. Len(vge') <= NExtentSlots /\ AddressesOf(irsb') = CoveredBy(vge')
      BY <1>6, <2>1, <3>1
    <3> QED BY <3>2 DEF ExtentsAreTheCode, Marked, AddressesOf, CoveredBy
  <2>5. WithinBudget'
    BY <1>5, <2>1 DEF IInv, WithinBudget, NumberOfInstructions
  <2>6. prog' \in Programs /\ start' \in Nat
    BY <1>1, <1>2
  <2> QED BY <1>1, <2>3, <2>4, <2>5, <2>6 DEF IInv
<1> QED BY <1>7, <1>8

\* The block is left as it is.
LEMMA FinishKeeps ==
  ASSUME IInv, Finish \/ UNCHANGED bbvars
  PROVE  IInv'
<1>1. UNCHANGED <<prog, start, irsb, vge, avail>>
  BY DEF Finish, bbvars
<1>2. forming' = forming \/ (forming = "extend" /\ forming' = "done")
  BY DEF Finish, bbvars
<1>3. FollowsGuest'
  <2>1. CASE forming' = "start"
    BY <2>1 DEF FollowsGuest
  <2>2. CASE forming' # "start"
    <3>1. \A v \in Valuations(irsb) : Follows(irsb, v)
      BY <1>2, <2>2 DEF IInv, FollowsGuest
    <3>2. \A v \in Valuations(irsb') : Follows(irsb', v)
      BY <1>1, <3>1
    <3> QED BY <1>1, <3>2, FollowsPrimed
  <2> QED BY <2>1, <2>2
<1>4. ExtentsAreTheCode' /\ WithinBudget'
  BY <1>1 DEF IInv, ExtentsAreTheCode, Marked, WithinBudget, NumberOfInstructions
<1>5. Disassemble(start, guest_max_insns)' = Disassemble(start, guest_max_insns)
  <2>1. UNCHANGED <<prog, start>>
    BY <1>1
  <2> QED BY <2>1, DisassemblePrimed
<1>6. forming' = "extend" =>
        /\ irsb' = Block(Disassemble(start, guest_max_insns)')
        /\ vge' = <<<<start', Len(irsb'.insns)>>>>
        /\ avail' \in Nat /\ Len(irsb'.insns) + avail' <= guest_max_insns
  BY <1>1, <1>2, <1>5 DEF IInv
<1>7. /\ prog' \in Programs /\ start' \in Nat
      /\ forming' = "start" => irsb' = NoBlock /\ vge' = << >> /\ avail' = guest_max_insns
  BY <1>1, <1>2 DEF IInv
<1> QED BY <1>3, <1>4, <1>6, <1>7 DEF IInv

-----------------------------------------------------------------------------
(* The theorems.                                                           *)

\* The invariant above holds of bb_to_IR, for all programs and all limits.
THEOREM BlockInvariant == BBSpec => []IInv
<1>1. IInv /\ [BBNext]_bbvars => IInv'
  BY InitialBlockKeeps, FollowUncondKeeps, FollowCondKeeps, FinishKeeps DEF BBNext
<1> QED BY <1>1, InitHolds, PTL DEF BBSpec

\* The superblock does what the guest's code does, whatever its conditions turn
\* out to be, whether it was extended by an unconditional branch, by any of the
\* four && idioms, or not at all.
THEOREM BlockFollowsGuest == BBSpec => []FollowsGuest
<1>1. IInv => FollowsGuest
  BY DEF IInv
<1> QED BY <1>1, BlockInvariant, PTL

\* The extents are the code the superblock was made from, and there is room for
\* them in vge.
THEOREM ExtentsCorrect == BBSpec => []ExtentsAreTheCode
<1>1. IInv => ExtentsAreTheCode
  BY DEF IInv
<1> QED BY <1>1, BlockInvariant, PTL

\* The superblock has no more than guest_max_insns instructions, whatever
\* update_instr_budget makes of verbose ones.
THEOREM BudgetKept == BBSpec => []WithinBudget
<1>1. IInv => WithinBudget
  BY DEF IInv
<1> QED BY <1>1, BlockInvariant, PTL

\* At most one arm completes an idiom: the vassert of bb_to_IR holds.
THEOREM IdiomUnique == BBSpec => []IdiomIsUnique
<1>1. ASSUME NEW be, NEW sx, NEW ft, MayBeIdiom(be, sx, ft)
      PROVE  Iom1(be, sx) = NoIdiom \/ Iom2(be, ft) = NoIdiom
  BY <1>1 DEF MayBeIdiom, definitely_does_not_jump_to, Iom1, Iom2
<1>2. IdiomIsUnique
  BY <1>1 DEF IdiomIsUnique
<1> QED BY <1>2, PTL
=============================================================================
