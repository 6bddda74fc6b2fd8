---------------------------- MODULE RecordProofs ----------------------------
(***************************************************************************)
(* What is in a record: the slots of CsTracer's records against the events *)
(* of the instruction, for every set of addresses, lines and registers,    *)
(* every number of events and every interleaving; and the numbers by which *)
(* registers are named, at every offset of the guest states.               *)
(***************************************************************************)
EXTENDS WindowProofs, RegisterMap

-----------------------------------------------------------------------------
(* Memory slots.                                                           *)

\* One array of memory slots against the addresses accessed and the lines
\* memory held: MemoryMatches, LinesMatch and Packed for one kind of access.
SlotsGood(m, valid, value, accessed, held) ==
  /\ \A i \in DOMAIN m : m[i] # 0 => m[i] \in accessed
  /\ \A a \in accessed : Holds(m, a) \/ Full(m)
  /\ \A i \in DOMAIN m : m[i] # 0 => <<LineOf(m[i]), value[i]>> \in held
  /\ Packed(m, valid)

\* A new address in the first free slot.
LEMMA SlotInserted ==
  ASSUME NEW D, D \subseteq Nat, NEW A, 0 \notin A, NEW V,
         NEW m \in [D -> A \cup {0}], NEW valid \in [D -> {0, 1}], NEW value \in [D -> V],
         NEW accessed, NEW held, SlotsGood(m, valid, value, accessed, held),
         NEW a \in A, NEW v \in V, <<LineOf(a), v>> \in held,
         NEW i \in D, m[i] = 0, \A j \in D : j < i => m[j] # 0, ~ Holds(m, a)
  PROVE  SlotsGood([m EXCEPT ![i] = a], [valid EXCEPT ![i] = 1],
                   [value EXCEPT ![i] = v], accessed \cup {a}, held)
<1>. DEFINE n == [m EXCEPT ![i] = a]
            w == [value EXCEPT ![i] = v]
            u == [valid EXCEPT ![i] = 1]
<1>0. /\ DOMAIN n = D /\ DOMAIN m = D /\ a # 0
      /\ n[i] = a /\ w[i] = v /\ u[i] = 1
      /\ \A j \in D : j # i => n[j] = m[j] /\ w[j] = value[j] /\ u[j] = valid[j]
  OBVIOUS
<1>. HIDE DEF n, w, u
<1>1. \A j \in D : n[j] # 0 => n[j] \in accessed \cup {a}
  BY <1>0 DEF SlotsGood
<1>2. \A b \in accessed \cup {a} : Holds(n, b) \/ Full(n)
  <2>1. Holds(n, a)
    BY <1>0 DEF Holds
  <2>2. \A b \in accessed : Holds(m, b)
    BY <1>0 DEF SlotsGood, Full, Holds
  <2>3. ASSUME NEW b \in accessed, b # 0 PROVE Holds(n, b)
    BY <1>0, <2>2, <2>3 DEF Holds
  <2>4. 0 \in accessed => Holds(n, 0) \/ Full(n)
    BY DEF Full
  <2>5. QED
    BY <2>1, <2>3, <2>4
<1>3. \A j \in D : n[j] # 0 => <<LineOf(n[j]), w[j]>> \in held
  BY <1>0 DEF SlotsGood
<1>4. Packed(n, u)
  <2>1. \A j \in D : u[j] = 1 <=> n[j] # 0
    BY <1>0 DEF SlotsGood, Packed
  <2>2. ASSUME NEW j \in D, NEW k \in D, j < k, n[k] # 0
        PROVE  n[j] # 0 /\ n[j] # n[k]
    <3>1. CASE k = i
      BY <1>0, <2>2, <3>1 DEF Holds
    <3>2. CASE k # i
      <4>1. m[k] # 0 /\ m[j] # 0
        BY <1>0, <2>2, <3>2 DEF SlotsGood, Packed
      <4>2. j # i
        BY <4>1
      <4>3. QED
        BY <1>0, <2>2, <3>2, <4>2 DEF SlotsGood, Packed
    <3>3. QED
      BY <3>1, <3>2
  <2>3. DOMAIN n = D
    BY <1>0
  <2>4. QED
    BY <2>1, <2>2, <2>3, Zenon DEF Packed
<1>5. QED
  BY <1>0, <1>1, <1>2, <1>3, <1>4 DEF SlotsGood, n, w, u

\* An address that is there already, or finds no free slot; more lines held.
LEMMA SlotsKept ==
  ASSUME NEW m, NEW valid, NEW value, NEW accessed, NEW held, NEW more,
         SlotsGood(m, valid, value, accessed, held), held \subseteq more
  PROVE  /\ SlotsGood(m, valid, value, accessed, more)
         /\ \A a : Holds(m, a) \/ Full(m)
              => SlotsGood(m, valid, value, accessed \cup {a}, more)
BY DEF SlotsGood

-----------------------------------------------------------------------------
(* Register slots.                                                         *)

Three(S) == \E r, s, t \in S : r # s /\ s # t /\ r # t

\* RegistersMatch for the two register arrays, and what makes it inductive:
\* the output slots hold different registers, which rests on the program
\* counter, that branch helpers put into the first slot, never being in the
\* second.
RegsGood(d, s, reads, writes, setDst, setSrc) ==
  /\ \A i \in Dst : d[i] # 0 => d[i] \in writes \cup setDst
  /\ \A i \in Src : s[i] # 0 =>
       s[i] \in reads \cup setSrc \/ (s[i] \in writes /\ Three(writes \cup setDst))
  /\ \A r \in writes : Holds(d, r) \/ Three(writes \cup setDst) \/ setDst # {}
  /\ \A r \in reads : Holds(s, r) \/ Full(s) \/ setSrc # {}
  /\ d[1] # 0 => d[1] # d[2]
  /\ d[2] # REG_PC

\* trace_reg_read: the register is there, the slots are full, or a free slot
\* takes it.
LEMMA ReadGood ==
  ASSUME NEW d, NEW s, NEW t, NEW reads, NEW writes, NEW setDst, NEW setSrc,
         RegsGood(d, s, reads, writes, setDst, setSrc), DOMAIN s = Src, NEW r, r # 0,
         ReadSlots(s, t, r)
  PROVE  RegsGood(d, t, reads \cup {r}, writes, setDst, setSrc)
<1>1. CASE t = s /\ (Holds(s, r) \/ Full(s))
  BY <1>1 DEF RegsGood
<1>2. ASSUME NEW i \in Src, s[i] = 0, t = [s EXCEPT ![i] = r]
      PROVE  RegsGood(d, t, reads \cup {r}, writes, setDst, setSrc)
  <2>1. DOMAIN t = Src /\ t[i] = r /\ \A j \in Src : j # i => t[j] = s[j]
    BY <1>2
  <2>2. Holds(t, r)
    BY <2>1 DEF Holds
  <2>3. \A x \in reads : Holds(t, x) \/ Full(t) \/ setSrc # {}
    <3>1. ~ Full(s)
      BY <1>2 DEF Full, Holds
    <3>2. \A x : x # 0 /\ Holds(s, x) => Holds(t, x)
      BY <1>2, <2>1 DEF Holds
    <3>3. Holds(t, 0) \/ Full(t)
      BY DEF Full
    <3>4. QED
      BY <3>1, <3>2, <3>3 DEF RegsGood
  <2>4. \A j \in Src : t[j] # 0 =>
          t[j] \in (reads \cup {r}) \cup setSrc
            \/ (t[j] \in writes /\ Three(writes \cup setDst))
    BY <2>1 DEF RegsGood
  <2>5. QED
    BY <2>2, <2>3, <2>4 DEF RegsGood
<1>3. QED
  BY <1>1, <1>2 DEF ReadSlots

\* trace_reg_write: the register is there, a free slot takes it, or it does
\* not fit: then the instruction has three output registers, and whichever
\* way the out-of-bounds loop goes is covered.
LEMMA WriteGood ==
  ASSUME NEW d, NEW s, NEW c, NEW t, NEW reads, NEW writes, NEW setDst, NEW setSrc,
         RegsGood(d, s, reads, writes, setDst, setSrc), DOMAIN d = Dst, DOMAIN s = Src,
         NEW r, r # 0, r # REG_PC,
         WriteSlots(d, s, c, t, r)
  PROVE  RegsGood(c, t, reads, writes \cup {r}, setDst, setSrc)
<1>. DEFINE all == (writes \cup {r}) \cup setDst
<1>0. Dst = {1, 2}
  BY DEF Dst, NUM_INSTR_DESTINATIONS
<1>1. Three(writes \cup setDst) => Three(all)
  BY DEF Three
<1>2. Full(d) /\ ~ Holds(d, r) => Three(all)
  <2>. SUFFICES ASSUME Full(d), ~ Holds(d, r) PROVE Three(all)
    OBVIOUS
  <2>1. d[1] # 0 /\ d[2] # 0 /\ d[1] # r /\ d[2] # r
    BY <1>0 DEF Full, Holds
  <2>2. d[1] # d[2] /\ d[1] \in all /\ d[2] \in all /\ r \in all
    BY <1>0, <2>1 DEF RegsGood
  <2>3. QED
    BY <2>1, <2>2 DEF Three
<1>. HIDE DEF all
<1>3. \A i \in Src : s[i] # 0 =>
        s[i] \in reads \cup setSrc \/ (s[i] \in writes \cup {r} /\ Three(all))
  BY <1>1 DEF RegsGood
<1>4. \A i \in Dst : d[i] # 0 => d[i] \in all
  BY DEF RegsGood, all
<1>5. r \in all
  BY DEF all
<1>6. CASE c = d /\ t = s /\ (Holds(d, r) \/ (Full(d) /\ ~ Holds(d, r)))
  <2>1. \A x \in writes \cup {r} : Holds(c, x) \/ Three(all) \/ setDst # {}
    BY <1>1, <1>2, <1>6 DEF RegsGood
  <2>2. QED
    BY <1>3, <1>4, <1>6, <2>1 DEF RegsGood, all
<1>7. ASSUME NEW i \in Dst, t = s, ~ Holds(d, r), c = [d EXCEPT ![i] = r],
             d[i] = 0 \/ Full(d)
      PROVE  RegsGood(c, t, reads, writes \cup {r}, setDst, setSrc)
  <2>1. DOMAIN c = Dst /\ c[i] = r /\ \A j \in Dst : j # i => c[j] = d[j]
    BY <1>7
  <2>2. \A j \in Dst : c[j] # 0 => c[j] \in all
    BY <1>4, <1>5, <2>1
  <2>3. \A x \in writes \cup {r} : Holds(c, x) \/ Three(all) \/ setDst # {}
    <3>1. CASE Full(d)
      BY <1>2, <1>7, <3>1
    <3>2. CASE ~ Full(d) /\ d[i] = 0
      <4>1. Holds(c, r)
        BY <2>1 DEF Holds
      <4>2. ASSUME NEW x \in writes PROVE Holds(c, x) \/ Three(all) \/ setDst # {}
        <5>1. CASE x = 0
          <6>1. CASE Holds(c, 0)
            BY <5>1, <6>1
          <6>2. CASE ~ Holds(c, 0)
            <7>1. c[1] # 0 /\ c[2] # 0 /\ c[1] # c[2]
              BY <1>0, <1>7, <2>1, <6>2 DEF Holds
            <7>2. c[1] \in all /\ c[2] \in all /\ 0 \in all
              BY <1>0, <2>2, <5>1, <7>1 DEF all
            <7>3. QED
              BY <7>1, <7>2 DEF Three
          <6>3. QED
            BY <6>1, <6>2
        <5>2. CASE x # 0
          <6>1. Holds(d, x) => Holds(c, x)
            BY <2>1, <3>2, <5>2 DEF Holds
          <6>2. QED
            BY <1>1, <6>1 DEF RegsGood
        <5>3. QED
          BY <5>1, <5>2
      <4>3. QED
        BY <4>1, <4>2
    <3>3. QED
      BY <1>7, <3>1, <3>2
  <2>4. (c[1] # 0 => c[1] # c[2]) /\ c[2] # REG_PC
    BY <1>0, <1>7, <2>1 DEF RegsGood, Holds
  <2>5. QED
    BY <1>3, <1>7, <2>2, <2>3, <2>4 DEF RegsGood, all
<1>8. ASSUME NEW i \in Src, c = d, Full(d), ~ Holds(d, r),
             t = [s EXCEPT ![i] = r], s[i] = 0
      PROVE  RegsGood(c, t, reads, writes \cup {r}, setDst, setSrc)
  <2>1. DOMAIN t = Src /\ t[i] = r /\ \A j \in Src : j # i => t[j] = s[j]
    BY <1>8
  <2>2. Three(all)
    BY <1>2, <1>8
  <2>3. \A j \in Src : t[j] # 0 =>
          t[j] \in reads \cup setSrc \/ (t[j] \in writes \cup {r} /\ Three(all))
    BY <1>3, <2>1, <2>2
  <2>4. \A x \in reads : Holds(t, x) \/ Full(t) \/ setSrc # {}
    <3>1. ~ Full(s)
      BY <1>8 DEF Full, Holds
    <3>2. \A x : x # 0 /\ Holds(s, x) => Holds(t, x)
      BY <1>8, <2>1 DEF Holds
    <3>3. Holds(t, 0) \/ Full(t)
      BY DEF Full
    <3>4. QED
      BY <3>1, <3>2, <3>3 DEF RegsGood
  <2>5. QED
    BY <1>4, <1>8, <2>2, <2>3, <2>4 DEF RegsGood, all
<1>9. QED
  BY <1>6, <1>7, <1>8 DEF WriteSlots

\* A branch helper: it assigns the program counter to the first output slot
\* and something else, or nothing, to the second.
LEMMA BranchGood ==
  ASSUME NEW d, NEW s, NEW reads, NEW writes, NEW setDst, NEW setSrc,
         RegsGood(d, s, reads, writes, setDst, setSrc), DOMAIN d = Dst, DOMAIN s = Src,
         NEW dst \in [Dst -> UInt8], NEW src \in [Src -> UInt8],
         dst[1] = REG_PC, dst[2] # REG_PC
  PROVE  RegsGood(Assign(d, dst), Assign(s, src), reads, writes,
                  setDst \cup NonZero(dst), setSrc \cup NonZero(src))
<1>. DEFINE c == Assign(d, dst)
            t == Assign(s, src)
            D == setDst \cup NonZero(dst)
            S == setSrc \cup NonZero(src)
<1>0. Dst = {1, 2} /\ REG_PC # 0
  BY DEF Dst, NUM_INSTR_DESTINATIONS, REG_PC
<1>1. /\ DOMAIN c = Dst /\ DOMAIN t = Src
      /\ \A i \in Dst : c[i] = IF dst[i] # 0 THEN dst[i] ELSE d[i]
      /\ \A i \in Src : t[i] = IF src[i] # 0 THEN src[i] ELSE s[i]
  BY DEF Assign
<1>2. /\ \A i \in Dst : dst[i] # 0 => dst[i] \in NonZero(dst)
      /\ \A i \in Src : src[i] # 0 => src[i] \in NonZero(src)
  BY DEF NonZero
<1>3. D # {}
  BY <1>0, <1>2
<1>4. Three(writes \cup setDst) => Three(writes \cup D)
  BY DEF Three
<1>5. setDst \subseteq D /\ setSrc \subseteq S /\ NonZero(dst) \subseteq D
      /\ NonZero(src) \subseteq S
  OBVIOUS
<1>. HIDE DEF c, t, D, S
<1>7. \A i \in Dst : c[i] # 0 => c[i] \in writes \cup D
  BY <1>1, <1>2, <1>5 DEF RegsGood
<1>8. \A i \in Src : t[i] # 0 =>
        t[i] \in reads \cup S \/ (t[i] \in writes /\ Three(writes \cup D))
  BY <1>1, <1>2, <1>4, <1>5 DEF RegsGood
<1>9. \A r \in reads : Holds(t, r) \/ Full(t) \/ S # {}
  <2>1. CASE \E i \in Src : src[i] # 0
    BY <1>2, <1>5, <2>1
  <2>2. CASE \A i \in Src : src[i] = 0
    <3>1. \A i \in Src : t[i] = s[i]
      BY <1>1, <2>2
    <3>2. \A r : Holds(t, r) <=> Holds(s, r)
      BY <1>1, <3>1 DEF Holds
    <3>3. QED
      BY <1>5, <3>2 DEF RegsGood, Full
  <2>3. QED
    BY <2>1, <2>2
<1>10. (c[1] # 0 => c[1] # c[2]) /\ c[2] # REG_PC
  BY <1>0, <1>1 DEF RegsGood
<1>11. QED
  BY <1>3, <1>7, <1>8, <1>9, <1>10 DEF RegsGood, c, t, D, S

\* The tables of the branch helpers put the program counter first.
LEMMA TablesPC ==
  ASSUME NEW jk \in JumpKind
  PROVE  /\ DirectDst(jk)[1] = REG_PC /\ DirectDst(jk)[2] # REG_PC
         /\ IndirectDst(jk)[1] = REG_PC /\ IndirectDst(jk)[2] # REG_PC
         /\ <<REG_PC, 0>>[1] = REG_PC /\ <<REG_PC, 0>>[2] # REG_PC
<1>1. REG_PC # 0 /\ REG_PC # REG_SP /\ REG_PC # REG_X30
  BY DEF REG_PC, REG_SP, REG_X30
<1>2. CASE jk = "Call"
  BY <1>1, <1>2 DEF DirectDst, IndirectDst
<1>3. CASE jk = "Ret"
  BY <1>1, <1>3 DEF DirectDst, IndirectDst
<1>4. CASE jk = "Boring"
  BY <1>1, <1>4 DEF DirectDst, IndirectDst
<1>5. QED
  BY <1>2, <1>3, <1>4 DEF JumpKind

-----------------------------------------------------------------------------
(* The record in the making.                                               *)

LoadsGood(rec, e) ==
  SlotsGood(rec.source_memory, rec.s_valid, rec.s_value, e.loads, e.held)

StoresGood(rec, e) ==
  SlotsGood(rec.destination_memory, rec.d_valid, rec.d_value, e.stores, e.held)

RegistersGood(rec, e) ==
  RegsGood(rec.destination_registers, rec.source_registers,
           e.reads, e.writes, e.setDst, e.setSrc)

Good(rec, e) == LoadsGood(rec, e) /\ StoresGood(rec, e) /\ RegistersGood(rec, e)

\* The inductive invariant: the record in the making agrees with the events
\* of the last instruction, every record in the file with those of its own;
\* and what memory holds now was held during the last instruction.
ContentInv ==
  /\ tracing => Good(inst, Last) /\ \A l \in Lines : <<l, mem[l]>> \in Last.held
  /\ \A k \in 1 .. Len(file) : Good(file[k].rec, log[file[k].n])

\* A fresh record agrees with an instruction without events.
LEMMA FreshGood ==
  ASSUME TypeOK, NEW t \in Threads, NEW ip \in Ips
  PROVE  Good([ZeroInst EXCEPT !.ip = ip], NewEntry(t, ip))
<1>. DEFINE z == [ZeroInst EXCEPT !.ip = ip]
            e == NewEntry(t, ip)
<1>1. /\ z.source_memory = [i \in Src |-> 0] /\ z.s_valid = [i \in Src |-> 0]
      /\ z.destination_memory = [i \in Dst |-> 0] /\ z.d_valid = [i \in Dst |-> 0]
      /\ z.destination_registers = [i \in Dst |-> 0]
      /\ z.source_registers = [i \in Src |-> 0]
  BY DEF ZeroInst
<1>2. /\ e.loads = {} /\ e.stores = {} /\ e.reads = {} /\ e.writes = {}
      /\ e.setDst = {} /\ e.setSrc = {}
  BY DEF NewEntry
<1>. HIDE DEF z, e
<1>3. LoadsGood(z, e) /\ StoresGood(z, e)
  BY <1>1, <1>2 DEF LoadsGood, StoresGood, SlotsGood, Packed
<1>4. RegistersGood(z, e)
  <2>1. 1 \in Dst /\ 2 \in Dst /\ REG_PC # 0
    BY DEF Dst, NUM_INSTR_DESTINATIONS, REG_PC
  <2>2. QED
    BY <1>1, <1>2, <2>1 DEF RegistersGood, RegsGood
<1>5. QED
  BY <1>3, <1>4 DEF Good, z, e

\* The file names instructions before the last.
LEMMA FileNumbers ==
  ASSUME TypeOK, RecordsInOrder
  PROVE  \A k \in 1 .. Len(file) : file[k].n \in 1 .. Len(log) - 1
<1>. SUFFICES ASSUME NEW k \in 1 .. Len(file) PROVE file[k].n \in 1 .. Len(log) - 1
  OBVIOUS
<1>1. file[k].n \in Nat
  <2>1. file \in Seq(Piece)
    BY DEF TypeOK, Piece
  <2>2. file[k] \in Piece
    BY <2>1, ElementOfSeq
  <2>3. QED
    BY <2>2 DEF Piece
<1>2. skip < file[k].n /\ file[k].n < Len(log)
  BY DEF RecordsInOrder
<1>3. QED
  BY <1>1, <1>2, Numbers

\* An event keeps the invariant when its record agrees with its entry.
LEMMA EventContent ==
  ASSUME TypeOK, BodyHasEntry, RecordsInOrder, ContentInv, EventFrame, phase = "body",
         NEW STATE e, e \in Entry, Note(e),
         tracing => Good(inst', e) /\ \A l \in Lines : <<l, mem'[l]>> \in e.held
  PROVE  ContentInv'
<1>1. /\ \A i \in 1 .. Len(log) - 1 : log'[i] = log[i]
      /\ Len(log') = Len(log)
      /\ log'[Len(log)] = IF tracing THEN e ELSE Last
  BY NoteEffect
<1>2. tracing' = tracing /\ file' = file
  BY DEF EventFrame
<1>3. \A k \in 1 .. Len(file) : log'[file[k].n] = log[file[k].n]
  BY <1>1, FileNumbers
<1>4. tracing => Last' = e
  BY <1>1 DEF Last
<1>5. QED
  BY <1>2, <1>3, <1>4 DEF ContentInv

\* trace_load.
LEMMA LoadContent ==
  ASSUME TypeOK, BodyHasEntry, RecordsInOrder, ContentInv, NEW a \in Addrs, trace_load(a)
  PROVE  ContentInv'
<1>. DEFINE e == [Last EXCEPT !.loads = @ \cup {a}]
            v == mem[LineOf(a)]
            q == AddLoad(inst, a, v)
<1>0. phase = "body" /\ EventFrame /\ mem' = mem /\ Note(e)
  BY MemoryStep DEF trace_load, Event, Memory
<1>1. Last \in Entry /\ inst \in Record /\ inst' = IF tracing THEN q ELSE inst
  BY <1>0, LastType DEF TypeOK, trace_load
<1>2. /\ e \in Entry /\ e.loads = Last.loads \cup {a}
      /\ e.stores = Last.stores /\ e.held = Last.held /\ e.reads = Last.reads
      /\ e.writes = Last.writes /\ e.setDst = Last.setDst /\ e.setSrc = Last.setSrc
  BY <1>1 DEF Entry
<1>3. inst \in RecordType(Addrs, Vals \cup {0}) /\ v \in Vals \cup {0} /\ 0 \notin Addrs
  BY <1>1, LineType, TracerAssumption DEF TypeOK, Record
<1>4. \/ q = inst /\ (Holds(inst.source_memory, a) \/ Full(inst.source_memory))
      \/ \E i \in Src : Loaded(inst, q, i, a, v)
  BY <1>3, AddLoadEffect
<1>5. tracing => Good(inst, Last) /\ <<LineOf(a), v>> \in Last.held
  BY LineType DEF ContentInv
<1>. HIDE DEF e, v, q
<1>6. ASSUME tracing PROVE Good(q, e)
  <2>1. CASE q = inst /\ (Holds(inst.source_memory, a) \/ Full(inst.source_memory))
    <3>1. LoadsGood(inst, Last)
      BY <1>5, <1>6 DEF Good
    <3>2. SlotsGood(inst.source_memory, inst.s_valid, inst.s_value,
                    Last.loads \cup {a}, Last.held)
      BY <2>1, <3>1, SlotsKept DEF LoadsGood
    <3>3. StoresGood(q, e) /\ RegistersGood(q, e)
      BY <1>2, <1>5, <1>6, <2>1 DEF Good, StoresGood, RegistersGood
    <3>4. QED
      BY <1>2, <2>1, <3>2, <3>3 DEF Good, LoadsGood
  <2>2. ASSUME NEW i \in Src, Loaded(inst, q, i, a, v) PROVE Good(q, e)
    <3>1. /\ inst.source_memory \in [Src -> Addrs \cup {0}]
          /\ inst.s_valid \in [Src -> {0, 1}] /\ inst.s_value \in [Src -> Vals \cup {0}]
      BY <1>3 DEF RecordType
    <3>2. SlotsGood(inst.source_memory, inst.s_valid, inst.s_value, Last.loads, Last.held)
      BY <1>5, <1>6 DEF Good, LoadsGood
    <3>3. Src \subseteq Nat
      BY DEF Src, NUM_INSTR_SOURCES
    <3>4. /\ inst.source_memory[i] = 0
          /\ \A j \in Src : j < i => inst.source_memory[j] # 0
          /\ ~ Holds(inst.source_memory, a)
      BY <2>2 DEF Loaded
    <3>5. SlotsGood([inst.source_memory EXCEPT ![i] = a],
                    [inst.s_valid EXCEPT ![i] = 1],
                    [inst.s_value EXCEPT ![i] = v], Last.loads \cup {a}, Last.held)
      BY <1>3, <1>5, <1>6, <3>1, <3>2, <3>3, <3>4, SlotInserted, ZenonT(60)
    <3>6. LoadsGood(q, e)
      BY <1>2, <2>2, <3>5 DEF LoadsGood, Loaded
    <3>7. StoresGood(q, e) /\ RegistersGood(q, e)
      BY <1>2, <1>5, <1>6, <2>2 DEF Good, StoresGood, RegistersGood, Loaded
    <3>8. QED
      BY <3>6, <3>7 DEF Good
  <2>3. QED
    BY <1>4, <2>1, <2>2
<1>7. QED
  BY <1>0, <1>1, <1>2, <1>6, EventContent DEF ContentInv

\* trace_store.
LEMMA StoreContent ==
  ASSUME TypeOK, BodyHasEntry, RecordsInOrder, ContentInv, NEW a \in Addrs, trace_store(a)
  PROVE  ContentInv'
<1>. DEFINE e == [Last EXCEPT !.stores = @ \cup {a}]
            v == mem[LineOf(a)]
            q == AddStore(inst, a, v)
<1>0. phase = "body" /\ EventFrame /\ mem' = mem /\ Note(e)
  BY MemoryStep DEF trace_store, Event, Memory
<1>1. Last \in Entry /\ inst \in Record /\ inst' = IF tracing THEN q ELSE inst
  BY <1>0, LastType DEF TypeOK, trace_store
<1>2. /\ e \in Entry /\ e.stores = Last.stores \cup {a}
      /\ e.loads = Last.loads /\ e.held = Last.held /\ e.reads = Last.reads
      /\ e.writes = Last.writes /\ e.setDst = Last.setDst /\ e.setSrc = Last.setSrc
  BY <1>1 DEF Entry
<1>3. inst \in RecordType(Addrs, Vals \cup {0}) /\ v \in Vals \cup {0} /\ 0 \notin Addrs
  BY <1>1, LineType, TracerAssumption DEF TypeOK, Record
<1>4. \/ q = inst /\ (Holds(inst.destination_memory, a) \/ Full(inst.destination_memory))
      \/ \E i \in Dst : Stored(inst, q, i, a, v)
  BY <1>3, AddStoreEffect
<1>5. tracing => Good(inst, Last) /\ <<LineOf(a), v>> \in Last.held
  BY LineType DEF ContentInv
<1>. HIDE DEF e, v, q
<1>6. ASSUME tracing PROVE Good(q, e)
  <2>1. CASE q = inst /\ (Holds(inst.destination_memory, a) \/ Full(inst.destination_memory))
    <3>1. StoresGood(inst, Last)
      BY <1>5, <1>6 DEF Good
    <3>2. SlotsGood(inst.destination_memory, inst.d_valid, inst.d_value,
                    Last.stores \cup {a}, Last.held)
      BY <2>1, <3>1, SlotsKept DEF StoresGood
    <3>3. LoadsGood(q, e) /\ RegistersGood(q, e)
      BY <1>2, <1>5, <1>6, <2>1 DEF Good, LoadsGood, RegistersGood
    <3>4. QED
      BY <1>2, <2>1, <3>2, <3>3 DEF Good, StoresGood
  <2>2. ASSUME NEW i \in Dst, Stored(inst, q, i, a, v) PROVE Good(q, e)
    <3>1. /\ inst.destination_memory \in [Dst -> Addrs \cup {0}]
          /\ inst.d_valid \in [Dst -> {0, 1}] /\ inst.d_value \in [Dst -> Vals \cup {0}]
      BY <1>3 DEF RecordType
    <3>2. SlotsGood(inst.destination_memory, inst.d_valid, inst.d_value, Last.stores, Last.held)
      BY <1>5, <1>6 DEF Good, StoresGood
    <3>3. Dst \subseteq Nat
      BY DEF Dst, NUM_INSTR_DESTINATIONS
    <3>4. /\ inst.destination_memory[i] = 0
          /\ \A j \in Dst : j < i => inst.destination_memory[j] # 0
          /\ ~ Holds(inst.destination_memory, a)
      BY <2>2 DEF Stored
    <3>5. SlotsGood([inst.destination_memory EXCEPT ![i] = a],
                    [inst.d_valid EXCEPT ![i] = 1],
                    [inst.d_value EXCEPT ![i] = v], Last.stores \cup {a}, Last.held)
      BY <1>3, <1>5, <1>6, <3>1, <3>2, <3>3, <3>4, SlotInserted, ZenonT(60)
    <3>6. StoresGood(q, e)
      BY <1>2, <2>2, <3>5 DEF StoresGood, Stored
    <3>7. LoadsGood(q, e) /\ RegistersGood(q, e)
      BY <1>2, <1>5, <1>6, <2>2 DEF Good, LoadsGood, RegistersGood, Stored
    <3>8. QED
      BY <3>6, <3>7 DEF Good
  <2>3. QED
    BY <1>4, <2>1, <2>2
<1>7. QED
  BY <1>0, <1>1, <1>2, <1>6, EventContent DEF ContentInv

\* A store of the guest, the kernel or another process.
LEMMA WriteMemoryContent ==
  ASSUME TypeOK, BodyHasEntry, RecordsInOrder, ContentInv, NEW l \in Lines,
         NEW v \in Vals, MemoryWrite(l, v)
  PROVE  ContentInv'
<1>. DEFINE e == [Last EXCEPT !.held = @ \cup {<<l, v>>}]
<1>0. /\ phase = "body" /\ EventFrame /\ Note(e) /\ inst' = inst
      /\ mem' = [mem EXCEPT ![l] = v]
  BY MemoryStep DEF MemoryWrite, Event, Memory
<1>1. Last \in Entry
  BY <1>0, LastType
<1>2. /\ e \in Entry /\ e.held = Last.held \cup {<<l, v>>}
      /\ e.loads = Last.loads /\ e.stores = Last.stores /\ e.reads = Last.reads
      /\ e.writes = Last.writes /\ e.setDst = Last.setDst /\ e.setSrc = Last.setSrc
  <2>1. e \in Entry
    BY <1>1 DEF Entry
  <2>2. QED
    BY <1>1, <2>1 DEF Entry
<1>. HIDE DEF e
<1>3. tracing => Good(inst, Last) /\ \A k \in Lines : <<k, mem[k]>> \in Last.held
  BY DEF ContentInv
<1>4. Last.held \subseteq e.held /\ <<l, v>> \in e.held
  BY <1>2
<1>5. tracing => \A k \in Lines : <<k, mem'[k]>> \in e.held
  <2>1. \A k \in Lines : mem'[k] = IF k = l THEN v ELSE mem[k]
    BY <1>0 DEF TypeOK
  <2>2. QED
    BY <1>3, <1>4, <2>1
<1>6. tracing => Good(inst, e)
  BY <1>2, <1>3, <1>4, SlotsKept DEF Good, LoadsGood, StoresGood, RegistersGood
<1>7. QED
  BY <1>0, <1>2, <1>5, <1>6, EventContent

\* trace_reg_read.
LEMMA ReadContent ==
  ASSUME TypeOK, BodyHasEntry, RecordsInOrder, ContentInv, NEW r \in Regs,
         trace_reg_read(r)
  PROVE  ContentInv'
<1>. DEFINE e == [Last EXCEPT !.reads = @ \cup {r}]
            q == AddRegRead(inst, r)
<1>0. phase = "body" /\ EventFrame /\ mem' = mem /\ Note(e)
  BY RegistersStep DEF trace_reg_read, Event, Registers
<1>1. Last \in Entry /\ inst \in Record /\ inst' = IF tracing THEN q ELSE inst
  BY <1>0, LastType DEF TypeOK, trace_reg_read
<1>2. /\ e \in Entry /\ e.reads = Last.reads \cup {r}
      /\ e.loads = Last.loads /\ e.stores = Last.stores /\ e.held = Last.held
      /\ e.writes = Last.writes /\ e.setDst = Last.setDst /\ e.setSrc = Last.setSrc
  BY <1>1 DEF Entry
<1>3. inst \in RecordType(Addrs, Vals \cup {0}) /\ r \in 1 .. 255 /\ r # 0
  BY <1>1, TracerAssumption DEF Record
<1>4. DOMAIN inst.source_registers = Src
  BY <1>3 DEF RecordType
<1>5. /\ SameMemory(inst, q)
      /\ q.destination_registers = inst.destination_registers
      /\ ReadSlots(inst.source_registers, q.source_registers, r)
  BY <1>3, RegReadEffect
<1>. HIDE DEF e, q
<1>6. ASSUME tracing PROVE Good(q, e)
  <2>1. Good(inst, Last)
    BY <1>6 DEF ContentInv
  <2>2. LoadsGood(q, e) /\ StoresGood(q, e)
    BY <1>2, <1>5, <2>1 DEF Good, LoadsGood, StoresGood, SameMemory
  <2>3. RegsGood(inst.destination_registers, inst.source_registers,
                 Last.reads, Last.writes, Last.setDst, Last.setSrc)
    BY <2>1 DEF Good, RegistersGood
  <2>4. RegsGood(inst.destination_registers, q.source_registers,
                 Last.reads \cup {r}, Last.writes, Last.setDst, Last.setSrc)
    BY <1>3, <1>4, <1>5, <2>3, ReadGood, ZenonT(30)
  <2>5. RegistersGood(q, e)
    BY <1>2, <1>5, <2>4 DEF RegistersGood
  <2>6. QED
    BY <2>2, <2>5 DEF Good
<1>7. QED
  BY <1>0, <1>1, <1>2, <1>6, EventContent DEF ContentInv

\* trace_reg_write.
LEMMA WriteContent ==
  ASSUME TypeOK, BodyHasEntry, RecordsInOrder, ContentInv, NEW r \in Regs,
         trace_reg_write(r)
  PROVE  ContentInv'
<1>. DEFINE e == [Last EXCEPT !.writes = @ \cup {r}]
<1>0. phase = "body" /\ EventFrame /\ mem' = mem /\ Note(e)
  BY RegistersStep DEF trace_reg_write, Event, Registers
<1>1. Last \in Entry /\ inst \in Record /\ (tracing => inst' \in AddRegWrite(inst, r))
  BY <1>0, LastType DEF TypeOK, trace_reg_write
<1>2. /\ e \in Entry /\ e.writes = Last.writes \cup {r}
      /\ e.loads = Last.loads /\ e.stores = Last.stores /\ e.held = Last.held
      /\ e.reads = Last.reads /\ e.setDst = Last.setDst /\ e.setSrc = Last.setSrc
  BY <1>1 DEF Entry
<1>3. inst \in RecordType(Addrs, Vals \cup {0}) /\ r \in 1 .. 255 /\ r # 0 /\ r # REG_PC
  BY <1>1, TracerAssumption DEF Record
<1>4. DOMAIN inst.source_registers = Src /\ DOMAIN inst.destination_registers = Dst
  BY <1>3 DEF RecordType
<1>5. tracing =>
        /\ SameMemory(inst, inst')
        /\ WriteSlots(inst.destination_registers, inst.source_registers,
                      inst'.destination_registers, inst'.source_registers, r)
  BY <1>1, <1>3, RegWriteEffect
<1>. HIDE DEF e
<1>6. ASSUME tracing PROVE Good(inst', e)
  <2>1. Good(inst, Last)
    BY <1>6 DEF ContentInv
  <2>2. LoadsGood(inst', e) /\ StoresGood(inst', e)
    BY <1>2, <1>5, <1>6, <2>1 DEF Good, LoadsGood, StoresGood, SameMemory
  <2>3. RegsGood(inst.destination_registers, inst.source_registers,
                 Last.reads, Last.writes, Last.setDst, Last.setSrc)
    BY <2>1 DEF Good, RegistersGood
  <2>4. RegsGood(inst'.destination_registers, inst'.source_registers,
                 Last.reads, Last.writes \cup {r}, Last.setDst, Last.setSrc)
    BY <1>3, <1>4, <1>5, <1>6, <2>3, WriteGood, ZenonT(30)
  <2>5. RegistersGood(inst', e)
    BY <1>2, <2>4 DEF RegistersGood
  <2>6. QED
    BY <2>2, <2>5 DEF Good
<1>7. QED
  BY <1>0, <1>2, <1>6, EventContent DEF ContentInv

\* A branch helper with the tables dst and src.
LEMMA BranchContent ==
  ASSUME TypeOK, BodyHasEntry, RecordsInOrder, ContentInv, EventFrame, phase = "body",
         NEW dst \in [Dst -> UInt8], NEW src \in [Src -> UInt8], NEW taken \in {0, 1},
         dst[1] = REG_PC, dst[2] # REG_PC,
         inst' = IF tracing
                 THEN [inst EXCEPT !.is_branch = 1,
                                   !.branch_taken = taken,
                                   !.destination_registers = Assign(@, dst),
                                   !.source_registers = Assign(@, src)]
                 ELSE inst,
         NoteBranch(dst, src), mem' = mem
  PROVE  ContentInv'
<1>. DEFINE e == [Last EXCEPT !.setDst = @ \cup NonZero(dst),
                              !.setSrc = @ \cup NonZero(src)]
<1>1. Last \in Entry /\ inst \in RecordType(Addrs, Vals \cup {0}) /\ Note(e)
  BY LastType DEF TypeOK, Record, NoteBranch
<1>2. NonZero(dst) \subseteq UInt8 /\ NonZero(src) \subseteq UInt8
  BY DEF NonZero
<1>3. /\ e \in Entry /\ e.setDst = Last.setDst \cup NonZero(dst)
      /\ e.setSrc = Last.setSrc \cup NonZero(src)
  BY <1>1, <1>2 DEF Entry
<1>4. /\ e.loads = Last.loads /\ e.stores = Last.stores /\ e.held = Last.held
      /\ e.reads = Last.reads /\ e.writes = Last.writes
  BY <1>1 DEF Entry
<1>5. DOMAIN inst.source_registers = Src /\ DOMAIN inst.destination_registers = Dst
  BY <1>1 DEF RecordType
<1>6. tracing =>
        /\ SameMemory(inst, inst')
        /\ inst'.destination_registers = Assign(inst.destination_registers, dst)
        /\ inst'.source_registers = Assign(inst.source_registers, src)
  BY <1>1 DEF SameMemory, RecordType
<1>. HIDE DEF e
<1>7. ASSUME tracing PROVE Good(inst', e)
  <2>1. Good(inst, Last)
    BY <1>7 DEF ContentInv
  <2>2. LoadsGood(inst', e) /\ StoresGood(inst', e)
    BY <1>4, <1>6, <1>7, <2>1 DEF Good, LoadsGood, StoresGood, SameMemory
  <2>3. RegsGood(Assign(inst.destination_registers, dst),
                 Assign(inst.source_registers, src), Last.reads, Last.writes,
                 Last.setDst \cup NonZero(dst), Last.setSrc \cup NonZero(src))
    BY <1>5, <2>1, BranchGood DEF Good, RegistersGood
  <2>4. RegistersGood(inst', e)
    BY <1>3, <1>4, <1>6, <1>7, <2>3 DEF RegistersGood
  <2>5. QED
    BY <2>2, <2>4 DEF Good
<1>8. QED
  BY <1>1, <1>3, <1>4, <1>7, EventContent DEF ContentInv

\* Side exits and the ends of superblocks.
LEMMA BranchesContent ==
  ASSUME TypeOK, BodyHasEntry, RecordsInOrder, ContentInv, Branches
  PROVE  ContentInv'
<1>0. EventFrame /\ phase = "body"
  BY BranchesStep DEF Branches, trace_branch_conditional, trace_branch_direct,
                      trace_branch_indirect, Event
<1>1. ASSUME NEW ci \in BOOLEAN, NEW guard \in BOOLEAN,
             trace_branch_conditional(ci, guard)
      PROVE  ContentInv'
  <2>1. /\ <<REG_PC, 0>> \in [Dst -> UInt8] /\ <<REG_PC, REG_FLAGS, 0, 0>> \in [Src -> UInt8]
        /\ <<REG_PC, 0>>[1] = REG_PC /\ <<REG_PC, 0>>[2] # REG_PC
    BY TableTypes, TablesPC DEF JumpKind
  <2>2. (IF guard = ci THEN 0 ELSE 1) \in {0, 1}
    OBVIOUS
  <2>3. mem' = mem
    BY <1>1 DEF trace_branch_conditional
  <2>4. QED
    BY <1>0, <1>1, <2>1, <2>2, <2>3, BranchContent
    DEF trace_branch_conditional, BranchConditional
<1>2. ASSUME NEW jk \in JumpKind, trace_branch_direct(jk) PROVE ContentInv'
  BY <1>0, <1>2, TableTypes, TablesPC, BranchContent DEF trace_branch_direct, BranchDirect
<1>3. ASSUME NEW jk \in JumpKind, trace_branch_indirect(jk) PROVE ContentInv'
  BY <1>0, <1>3, TableTypes, TablesPC, BranchContent
  DEF trace_branch_indirect, BranchIndirect
<1>4. QED
  BY <1>1, <1>2, <1>3 DEF Branches

\* The calls before an IMark: the finished record goes to the file with its
\* instruction, and a fresh one is started.
LEMMA IMarkContent ==
  ASSUME TypeOK, WindowInv, RecordsInOrder, ContentInv, NEW ip \in Ips, IMark(ip)
  PROVE  ContentInv'
<1>. DEFINE n == Len(log)
<1>1. /\ Len(log') = n + 1 /\ \A i \in 1 .. n : log'[i] = log[i]
  BY Logged
<1>2. \A k \in 1 .. Len(file) : log'[file[k].n] = log[file[k].n]
  <2>1. \A k \in 1 .. Len(file) : file[k].n \in 1 .. n
    BY FileNumbers, Numbers
  <2>2. QED
    BY <1>1, <2>1
<1>3. \A k \in 1 .. Len(file') : Good(file'[k].rec, log'[file'[k].n])
  <2>1. CASE file' = file
    BY <1>2, <2>1 DEF ContentInv
  <2>2. ASSUME InWindow(n) /\ InWindow(n + 1), NEW w \in BOOLEAN,
               file' = Append(file, [n |-> n, rec |-> inst, whole |-> w])
        PROVE  \A k \in 1 .. Len(file') : Good(file'[k].rec, log'[file'[k].n])
    <3>1. /\ Len(file') = Len(file) + 1
          /\ \A k \in 1 .. Len(file) : file'[k] = file[k]
          /\ file'[Len(file) + 1].n = n
          /\ file'[Len(file) + 1].rec = inst
      BY <2>2, Appended
    <3>2. n \in 1 .. n
      BY <2>2, Numbers DEF InWindow
    <3>3. Good(inst, log'[n])
      BY <1>1, <2>2, <3>2 DEF WindowInv, ContentInv, Last
    <3>4. \A k \in 1 .. Len(file') : k \in 1 .. Len(file) \/ k = Len(file) + 1
      BY <3>1, Numbers
    <3>5. QED
      BY <1>2, <3>1, <3>3, <3>4 DEF ContentInv
  <2>3. QED
    BY <2>1, <2>2, Written
<1>4. ASSUME tracing'
      PROVE  Good(inst', Last') /\ \A l \in Lines : <<l, mem'[l]>> \in Last'.held
  <2>1. TracingAfter /\ ~ Completes
    BY <1>4 DEF IMark, inc_inst, TracingAfter, Completes
  <2>2. inst' = [ZeroInst EXCEPT !.ip = ip] /\ mem' = mem
    BY <2>1 DEF IMark, zero_and_trace_instr
  <2>3. Last' = NewEntry(running, ip)
    <3>1. NewEntry(running, ip) \in Entry /\ log \in Seq(Entry)
      BY EntryType DEF TypeOK
    <3>2. log' = Append(log, NewEntry(running, ip))
      BY DEF IMark
    <3>3. QED
      BY <3>1, <3>2, AppendProperties DEF Last
  <2>4. Good(inst', Last')
    BY <2>2, <2>3, FreshGood DEF TypeOK
  <2>5. \A l \in Lines : <<l, mem[l]>> \in NewEntry(running, ip).held
    BY DEF NewEntry
  <2>6. QED
    BY <2>2, <2>3, <2>4, <2>5
<1>5. QED
  BY <1>3, <1>4 DEF ContentInv

\* Every step keeps the invariant.
LEMMA NextContent ==
  TypeOK /\ BodyHasEntry /\ WindowInv /\ RecordsInOrder /\ ContentInv /\ [Next]_vars
    => ContentInv'
<1>. SUFFICES ASSUME TypeOK, BodyHasEntry, WindowInv, RecordsInOrder, ContentInv,
                     [Next]_vars
              PROVE  ContentInv'
  OBVIOUS
<1>1. ASSUME NEW t \in Threads, EnterSB(t) PROVE ContentInv'
  BY <1>1 DEF EnterSB, ContentInv, Last, tool, history
<1>2. ASSUME NEW ip \in Ips, IMark(ip) PROVE ContentInv'
  BY <1>2, IMarkContent
<1>3. CASE Memory
  BY <1>3, LoadContent, StoreContent, WriteMemoryContent DEF Memory
<1>4. CASE Registers
  BY <1>4, ReadContent, WriteContent DEF Registers
<1>5. CASE Branches
  BY <1>5, BranchesContent
<1>6. CASE LeaveSB
  BY <1>6 DEF LeaveSB, ContentInv, Last, tool, history
<1>7. CASE ct_fini
  BY <1>7 DEF ct_fini, ContentInv, Last
<1>8. CASE Kill
  BY <1>8 DEF Kill, ContentInv, Last, tool, history
<1>9. CASE UNCHANGED vars
  BY <1>9 DEF vars, ContentInv, Last, tool, guest, history
<1>10. QED
  BY <1>1, <1>2, <1>3, <1>4, <1>5, <1>6, <1>7, <1>8, <1>9 DEF Next

-----------------------------------------------------------------------------

\* In every reachable state the record in the making and every record in the
\* file agree with the events of their instructions.
THEOREM ContentCorrect == Spec => [](TypeOK /\ ContentInv)
<1>1. Init => ContentInv
  BY DEF Init, ContentInv
<1>2. QED
  BY <1>1, NextContent, WindowCorrect, OrderCorrect, PTL DEF Spec

\* The records of the file have the type of a record.
LEMMA FileType ==
  ASSUME TypeOK, NEW k \in 1 .. Len(file)
  PROVE  file[k].rec \in RecordType(Addrs, Vals \cup {0})
<1>. DEFINE T == RecordType(Addrs, Vals \cup {0})
<1>1. file \in Seq([n : Nat, rec : T, whole : BOOLEAN])
  BY DEF TypeOK, Record
<1>. HIDE DEF T
<1>2. file[k] \in [n : Nat, rec : T, whole : BOOLEAN]
  BY <1>1, ElementOfSeq
<1>3. file[k].rec \in T
  BY <1>2
<1>4. QED
  BY <1>3 DEF T

\* The memory slots of a written record are those of its own instruction:
\* what trace_load and trace_store were called with, complete up to the
\* number of slots.
THEOREM MemoryCorrect == Spec => []MemoryIsTheInstructions
<1>1. TypeOK /\ ContentInv => MemoryIsTheInstructions
  <2>. SUFFICES ASSUME TypeOK, ContentInv, NEW k \in 1 .. Len(file)
                PROVE  MemoryMatches(file[k].rec, log[file[k].n])
    BY DEF MemoryIsTheInstructions
  <2>1. file[k].rec \in RecordType(Addrs, Vals \cup {0})
    BY FileType
  <2>2. /\ DOMAIN file[k].rec.source_memory = Src
        /\ DOMAIN file[k].rec.destination_memory = Dst
    BY <2>1 DEF RecordType
  <2>3. Good(file[k].rec, log[file[k].n])
    BY DEF ContentInv
  <2>4. QED
    BY <2>2, <2>3 DEF Good, LoadsGood, StoresGood, SlotsGood, MemoryMatches
<1>2. QED
  BY <1>1, ContentCorrect, PTL

\* The line copied with an address is one that memory held while the
\* instruction executed.
THEOREM LinesCorrect == Spec => []LinesWereHeld
<1>1. TypeOK /\ ContentInv => LinesWereHeld
  <2>. SUFFICES ASSUME TypeOK, ContentInv, NEW k \in 1 .. Len(file)
                PROVE  LinesMatch(file[k].rec, log[file[k].n])
    BY DEF LinesWereHeld
  <2>1. file[k].rec \in RecordType(Addrs, Vals \cup {0})
    BY FileType
  <2>2. /\ DOMAIN file[k].rec.source_memory = Src
        /\ DOMAIN file[k].rec.destination_memory = Dst
    BY <2>1 DEF RecordType
  <2>3. Good(file[k].rec, log[file[k].n])
    BY DEF ContentInv
  <2>4. QED
    BY <2>2, <2>3 DEF Good, LoadsGood, StoresGood, SlotsGood, LinesMatch
<1>2. QED
  BY <1>1, ContentCorrect, PTL

\* Used memory slots are a prefix of distinct addresses and exactly the valid
\* ones, so write_inst_to_file neither drops nor invents a line.
THEOREM PackedCorrect == Spec => []SlotsPacked
<1>1. ContentInv => SlotsPacked
  BY DEF ContentInv, SlotsPacked, Good, LoadsGood, StoresGood, SlotsGood
<1>2. QED
  BY <1>1, ContentCorrect, PTL

\* The register slots of a written record are those of its own instruction,
\* with the one exception that trace_reg_write's loop bound allows.
THEOREM RegistersCorrect == Spec => []RegistersAreTheInstructions
<1>1. ContentInv => RegistersAreTheInstructions
  <2>. SUFFICES ASSUME ContentInv, NEW k \in 1 .. Len(file)
                PROVE  RegistersMatch(file[k].rec, log[file[k].n])
    BY DEF RegistersAreTheInstructions
  <2>1. Good(file[k].rec, log[file[k].n])
    BY DEF ContentInv
  <2>2. QED
    BY <2>1 DEF Good, RegistersGood, RegsGood, RegistersMatch, TooManyWrites, Three
<1>2. QED
  BY <1>1, ContentCorrect, PTL

-----------------------------------------------------------------------------
(* Register numbers: what offset_to_arm64_register and                     *)
(* offset_to_x86_64_register return.                                       *)

\* The bytes of the guest states that get a wrong number.  The bases of Q0 and
\* of YMM0 are taken to be eight bytes too low, so the last eight bytes of a
\* vector register go to the next one; on amd64 the fields in front of YMM0
\* are off by one as well (IDFLAG, FS_CONST, SSEROUND), and GS_CONST has no
\* entry.
Misnamed(offset) ==
  IF Arch = "arm64" THEN offset \in 320 .. 831 /\ (offset - 320) % 16 >= 8
  ELSE \/ offset \in 200 .. 223
       \/ offset \in 224 .. 735 /\ (offset - 224) % 32 >= 24
       \/ offset \in 904 .. 911

\* The vector registers Q0 .. Q31 and YMM0 .. YMM15.
VectorField == IF Arch = "arm64" THEN Field(320, 16, 32, REG_Q0)
               ELSE Field(224, 32, 16, REG_YMM0)

\* On arm64 the table agrees with the layout on every byte of X0 .. X30, SP,
\* PC, the flag thunk and TPIDR_EL0.
LEMMA Arm64Core ==
  ASSUME NEW f \in Arm64Layout(FALSE), f.base < 320, NEW offset \in FieldBytes(f),
         Arch = "arm64"
  PROVE  offset_to_arm64_register(offset) = Number(f, offset)
<1>. USE DEF FieldBytes, Number, Field, Untraced, REG_SP, REG_PC, REG_FLAGS, REG_UTHRD, REG_X30
<1>1. CASE f = Field(0, 16, 1, Untraced)
  BY <1>1 DEF offset_to_arm64_register
<1>2. CASE f = Field(16, 8, 31, 1)
  BY <1>2 DEF offset_to_arm64_register
<1>3. CASE f \in {Field(264, 8, 1, REG_SP), Field(272, 8, 1, REG_PC)}
  BY <1>3 DEF offset_to_arm64_register
<1>4. CASE f \in {Field(280, 32, 1, REG_FLAGS), Field(312, 8, 1, REG_UTHRD)}
  BY <1>4 DEF offset_to_arm64_register
<1> QED  BY <1>1, <1>2, <1>3, <1>4 DEF Arm64Layout

\* On amd64 the i-th integer register of the guest state has the number that
\* x86-64regs.h gives it.
LEMMA Amd64Integer ==
  ASSUME NEW i \in 1 .. 16, NEW offset \in (8 + 8 * i) .. (15 + 8 * i)
  PROVE  offset_to_x86_64_register(offset) = IntRegs[i]
<1>1. offset \in 16 .. 143 /\ 1 + (offset - 16) \div 8 = i
  OBVIOUS
<1> QED  BY <1>1 DEF offset_to_x86_64_register

\* On amd64 the table agrees with the layout on every byte of the integer
\* registers, RIP and the flags, up to and without guest_IDFLAG.
LEMMA Amd64Core ==
  ASSUME NEW f \in Amd64Layout, NEW offset \in FieldBytes(f), offset < 200, Arch = "amd64"
  PROVE  offset_to_x86_64_register(offset) = Number(f, offset)
<1>1. CASE f \in {Field(8 + 8 * i, 8, 1, IntRegs[i]) : i \in 1 .. 16}
  <2>1. PICK i \in 1 .. 16 : f = Field(8 + 8 * i, 8, 1, IntRegs[i])
    BY <1>1
  <2>2. offset \in (8 + 8 * i) .. (15 + 8 * i) /\ Number(f, offset) = IntRegs[i]
    BY <2>1 DEF FieldBytes, Number, Field
  <2> QED  BY <2>2, Amd64Integer
<1>2. CASE f = Field(0, 16, 1, Untraced)
  BY <1>2 DEF FieldBytes, Number, Field, Untraced, offset_to_x86_64_register
<1>3. CASE f \in {Field(144, 40, 1, REG_FLAGS), Field(184, 8, 1, REG_PC), Field(192, 16, 1, REG_FLAGS)}
  BY <1>3 DEF FieldBytes, Number, Field, REG_FLAGS, REG_PC, offset_to_x86_64_register
<1>4. CASE f.base >= 200
  BY <1>4 DEF Amd64Layout, FieldBytes, Field
<1> QED  BY <1>1, <1>2, <1>3, <1>4 DEF Amd64Layout, Field

\* From Q0 on, on arm64: the table is right but for the bytes in Misnamed.
LEMMA Arm64Rest ==
  ASSUME NEW f \in Arm64Layout(FALSE), f.base >= 320, NEW offset \in FieldBytes(f),
         Arch = "arm64"
  PROVE  offset_to_arm64_register(offset) = Number(f, offset) <=> ~ Misnamed(offset)
<1>1. CASE f = Field(320, 16, 32, REG_Q0)
  <2>1. offset \in 320 .. 831 /\ Number(f, offset) = 35 + (offset - 320) \div 16
    BY <1>1 DEF FieldBytes, Number, Field, REG_Q0
  <2>2. offset_to_arm64_register(offset) = 35 + (offset - 312) \div 16
    BY <2>1 DEF offset_to_arm64_register, REG_Q0
  <2> QED  BY <2>1, <2>2 DEF Misnamed
<1>2. CASE f \in {Field(832, 16, 1, REG_QFLAGS), Field(848, 48, 1, Untraced)}
  BY <1>2 DEF FieldBytes, Number, Field, Untraced, REG_QFLAGS, offset_to_arm64_register, Misnamed
<1>3. CASE f.base < 320
  BY <1>3 DEF Arm64Layout, Field
<1> QED  BY <1>1, <1>2, <1>3 DEF Arm64Layout, Field

\* From IDFLAG on, on amd64: the table is right but for the bytes in Misnamed.
LEMMA Amd64Rest ==
  ASSUME NEW f \in Amd64Layout, NEW offset \in FieldBytes(f), offset >= 200, Arch = "amd64"
  PROVE  offset_to_x86_64_register(offset) = Number(f, offset) <=> ~ Misnamed(offset)
<1>1. CASE f = Field(224, 32, 16, REG_YMM0)
  <2>1. offset \in 224 .. 735 /\ Number(f, offset) = 123 + (offset - 224) \div 32
    BY <1>1 DEF FieldBytes, Number, Field, REG_YMM0
  <2>2. offset_to_x86_64_register(offset) = IF offset < 728 THEN 123 + (offset - 216) \div 32 ELSE 0
    BY <2>1 DEF offset_to_x86_64_register, REG_YMM0, Untraced
  <2>3. CASE offset < 728
    BY <2>1, <2>2, <2>3 DEF Misnamed
  <2>4. CASE offset >= 728
    BY <2>1, <2>2, <2>4 DEF Misnamed
  <2> QED  BY <2>1, <2>3, <2>4
<1>2. CASE f \in {Field(192, 16, 1, REG_FLAGS), Field(208, 8, 1, REG_SEG_FS),
                 Field(216, 8, 1, REG_MXCSR)}
  BY <1>2 DEF FieldBytes, Number, Field, REG_FLAGS, REG_SEG_FS, REG_MXCSR, REG_YMM0,
              offset_to_x86_64_register, Misnamed
<1>3. CASE f \in {Field(736, 32, 1, Untraced), Field(768, 136, 1, Untraced),
                 Field(904, 8, 1, REG_SEG_GS), Field(912, 16, 1, Untraced)}
  BY <1>3 DEF FieldBytes, Number, Field, REG_SEG_GS, Untraced, offset_to_x86_64_register, Misnamed
<1>4. CASE f \in {Field(0, 16, 1, Untraced), Field(144, 40, 1, REG_FLAGS), Field(184, 8, 1, REG_PC)}
  BY <1>4 DEF FieldBytes, Field
<1>5. CASE f \in {Field(8 + 8 * i, 8, 1, IntRegs[i]) : i \in 1 .. 16}
  BY <1>5 DEF FieldBytes, Field
<1> QED  BY <1>1, <1>2, <1>3, <1>4, <1>5 DEF Amd64Layout

\* instrument_reg_read and instrument_reg_write name the right register for an
\* access that starts at any byte of the guest states but the ones in Misnamed,
\* and a wrong one for those: every integer register, stack pointer, program
\* counter and arithmetic flag is named rightly, the identification flag, FS,
\* GS and MXCSR of amd64 and the tops of the vector registers are not.
THEOREM RegistersNamed ==
  \A f \in Layout(FALSE) : \A offset \in FieldBytes(f) :
    offset_to_register(offset) = Number(f, offset) <=> ~ Misnamed(offset)
<1>. SUFFICES ASSUME NEW f \in Layout(FALSE), NEW offset \in FieldBytes(f)
              PROVE  offset_to_register(offset) = Number(f, offset) <=> ~ Misnamed(offset)
  OBVIOUS
<1>1. CASE Arch = "arm64"
  <2>1. f \in Arm64Layout(FALSE) /\ f.base \in Nat
    BY <1>1 DEF Layout, Arm64Layout, Field
  <2>2. CASE f.base >= 320
    BY <1>1, <2>1, <2>2, Arm64Rest DEF offset_to_register
  <2>3. CASE f.base < 320
    <3>1. offset \in 0 .. 319
      BY <2>1, <2>3 DEF Arm64Layout, FieldBytes, Field
    <3>2. ~ Misnamed(offset)
      BY <1>1, <3>1 DEF Misnamed
    <3>3. offset_to_arm64_register(offset) = Number(f, offset)
      BY <1>1, <2>1, <2>3, Arm64Core
    <3> QED  BY <1>1, <3>2, <3>3 DEF offset_to_register
  <2> QED  BY <2>1, <2>2, <2>3
<1>2. CASE Arch = "amd64"
  <2>1. f \in Amd64Layout /\ offset \in Nat
    BY <1>2 DEF Layout, Amd64Layout, FieldBytes, Field
  <2>2. CASE offset >= 200
    BY <1>2, <2>1, <2>2, Amd64Rest DEF offset_to_register
  <2>3. CASE offset < 200
    BY <1>2, <2>1, <2>3, Amd64Core DEF offset_to_register, Misnamed
  <2> QED  BY <2>1, <2>2, <2>3
<1> QED  BY <1>1, <1>2, ArchAssumption

\* An access to the low half of a vector register names that register: where
\* compilers put scalars.
THEOREM LowLanesNamed ==
  \A offset \in FieldBytes(VectorField) :
    (offset - VectorField.base) % VectorField.size < VectorField.size \div 2
      => offset_to_register(offset) = Number(VectorField, offset)
<1>1. CASE Arch = "arm64"
  BY <1>1 DEF VectorField, FieldBytes, Number, Field, offset_to_register,
              offset_to_arm64_register, REG_Q0
<1>2. CASE Arch = "amd64"
  BY <1>2 DEF VectorField, FieldBytes, Number, Field, offset_to_register,
              offset_to_x86_64_register, REG_YMM0
<1> QED  BY <1>1, <1>2, ArchAssumption

\* Every register number passed to trace_reg_read and trace_reg_write fits the
\* byte of the record that holds it: none is cut to another register's number
\* or to that of a free slot.
THEOREM NumbersFitRecord ==
  \A offset \in Nat : offset_to_register(offset) # Asserts
                        => offset_to_register(offset) \in UInt8
<1>. SUFFICES ASSUME NEW offset \in Nat, offset_to_register(offset) # Asserts
              PROVE  offset_to_register(offset) \in UInt8
  OBVIOUS
<1>1. CASE Arch = "arm64"
  BY <1>1 DEF offset_to_register, offset_to_arm64_register, UInt8, Asserts, Untraced, REG_SP,
              REG_PC, REG_FLAGS, REG_UTHRD, REG_X30, REG_Q0, REG_QFLAGS
<1>2. CASE Arch = "amd64"
  <2>1. CASE offset \in 16 .. 143
    <3>1. 1 + (offset - 16) \div 8 \in 1 .. 16
      BY <2>1
    <3>2. \A i \in 1 .. 16 : IntRegs[i] \in UInt8
      BY DEF IntRegs, UInt8
    <3> QED  BY <1>2, <2>1, <3>1, <3>2 DEF offset_to_register, offset_to_x86_64_register
  <2>2. CASE offset \notin 16 .. 143
    BY <1>2, <2>2 DEF offset_to_register, offset_to_x86_64_register, UInt8, Untraced,
                      REG_PC, REG_FLAGS, REG_SEG_FS, REG_MXCSR, REG_YMM0
  <2> QED  BY <2>1, <2>2
<1> QED  BY <1>1, <1>2, ArchAssumption

\* offset_to_arm64_register's tl_assert(0) is reached for no register of the
\* guest state that VEX accesses without --sim-hints=fallback-llsc.
THEOREM AssertionHolds ==
  \A f \in Layout(FALSE) : \A offset \in FieldBytes(f) : offset_to_register(offset) # Asserts
<1>. SUFFICES ASSUME NEW f \in Layout(FALSE), NEW offset \in FieldBytes(f)
              PROVE  offset_to_register(offset) # Asserts
  OBVIOUS
<1>1. CASE Arch = "arm64"
  <2>1. offset \in 0 .. 895
    BY <1>1 DEF Layout, Arm64Layout, FieldBytes, Field
  <2> QED
    BY <1>1, <2>1 DEF offset_to_register, offset_to_arm64_register, Asserts, Untraced, REG_SP,
                      REG_PC, REG_FLAGS, REG_UTHRD, REG_X30, REG_Q0, REG_QFLAGS
<1>2. CASE Arch = "amd64"
  <2>1. CASE offset \in 16 .. 143
    <3>1. 1 + (offset - 16) \div 8 \in 1 .. 16
      BY <2>1
    <3>2. \A i \in 1 .. 16 : IntRegs[i] # Asserts
      BY DEF IntRegs, Asserts
    <3> QED  BY <1>2, <2>1, <3>1, <3>2 DEF offset_to_register, offset_to_x86_64_register
  <2>2. CASE offset \notin 16 .. 143
    <3>1. offset \in Nat
      BY <1>2, <2>2 DEF Layout, Amd64Layout, FieldBytes, Field
    <3> QED
      BY <1>2, <2>2, <3>1 DEF offset_to_register, offset_to_x86_64_register, Asserts, Untraced,
                        REG_PC, REG_FLAGS, REG_SEG_FS, REG_MXCSR, REG_YMM0
  <2> QED  BY <2>1, <2>2
<1> QED  BY <1>1, <1>2, ArchAssumption

=============================================================================
