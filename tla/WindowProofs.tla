---------------------------- MODULE WindowProofs ----------------------------
(***************************************************************************)
(* Which instructions are in the trace: the window of CsTracer, for every  *)
(* number of threads and instructions, every outcome of the writes, every  *)
(* moment of death and all values of --skip and --trace that are not       *)
(* negative.                                                               *)
(***************************************************************************)
EXTENDS CsTracerProofs

\* The window at instruction n: n is in it, or n is past it.
InWindow(n) == skip < n /\ n <= skip + trace_instrs
PastWindow(n) == skip + trace_instrs < n

\* The inductive invariant.  The flags of inc_inst are functions of the
\* number of instructions executed; the record in the making is empty before
\* the window and belongs to the last instruction in it; the descriptor is
\* closed exactly when the window or the process is over.
WindowInv ==
  /\ instructions = Len(log)
  /\ Len(log) <= MaxInstr
  /\ tracing = InWindow(Len(log))
  /\ tracing_done = PastWindow(Len(log))
  /\ Len(log) <= skip => inst.ip = 0
  /\ InWindow(Len(log)) => inst.ip = log[Len(log)].ip
  /\ fd = "closed" <=> tracing_done \/ status = "exited"
  /\ closes = IF fd = "closed" THEN 1 ELSE 0

\* The options and the counts are numbers, and none of the sums in inc_inst
\* wraps: both options are at most 2^63 - 1.
LEMMA Numbers ==
  ASSUME TypeOK
  PROVE  /\ skip \in Nat /\ trace_instrs \in Nat /\ Len(log) \in Nat /\ Len(file) \in Nat
         /\ skip + trace_instrs + 1 < ULLONG_MOD
         /\ ULLONG_MOD \in Nat /\ MaxInstr \in Nat /\ MaxInstr < ULLONG_MOD
<1>1. Len(log) \in Nat /\ Len(file) \in Nat
  BY LenProperties DEF TypeOK
<1>2. /\ Half \in Nat /\ ULLONG_MOD = 2 * Half
      /\ skip \in 0 .. Half - 1 /\ trace_instrs \in 0 .. Half - 1
  BY TracerAssumption DEF TypeOK, Half
<1>. HIDE DEF Half
<1>3. skip + trace_instrs + 1 < ULLONG_MOD
  BY <1>2
<1>4. QED
  BY <1>1, <1>2, <1>3, TracerAssumption

\* A number below the modulus is its own remainder.
LEMMA SmallMod ==
  ASSUME NEW m \in Nat, NEW x \in Nat, x < m
  PROVE  x % m = x
OBVIOUS

\* What inc_inst computes, in terms of the number of the new instruction.
LEMMA Counting ==
  ASSUME TypeOK, WindowInv, Len(log) < MaxInstr
  PROVE  /\ NextCount = Len(log) + 1
         /\ Starts <=> Len(log) = skip
         /\ Ends <=> Len(log) = skip + trace_instrs
         /\ TracingAfter = InWindow(Len(log) + 1)
         /\ (tracing_done \/ Ends) = PastWindow(Len(log) + 1)
         /\ Completes <=> Len(log) = skip + trace_instrs
<1>1. NextCount = Len(log) + 1
  <2>1. Len(log) + 1 \in Nat /\ Len(log) + 1 < ULLONG_MOD
    BY Numbers
  <2>2. QED
    BY <2>1, Numbers, SmallMod DEF NextCount, WindowInv
<1>2. (skip + 1) % ULLONG_MOD = skip + 1
  <2>1. skip + 1 \in Nat /\ skip + 1 < ULLONG_MOD
    BY Numbers
  <2>2. QED
    BY <2>1, Numbers, SmallMod
<1>3. (skip + trace_instrs + 1) % ULLONG_MOD = skip + trace_instrs + 1
  <2>1. skip + trace_instrs + 1 \in Nat
    BY Numbers
  <2>2. QED
    BY <2>1, Numbers, SmallMod
<1>4. (Starts <=> Len(log) = skip) /\ (Ends <=> Len(log) = skip + trace_instrs)
  <2>1. Starts <=> Len(log) + 1 = skip + 1
    BY <1>1, <1>2, Zenon DEF Starts
  <2>2. Ends <=> Len(log) + 1 = skip + trace_instrs + 1
    BY <1>1, <1>3, Zenon DEF Ends
  <2>3. QED
    BY <2>1, <2>2, Numbers
<1>5. /\ tracing <=> skip < Len(log) /\ Len(log) <= skip + trace_instrs
      /\ tracing_done <=> skip + trace_instrs < Len(log)
  BY DEF WindowInv, InWindow, PastWindow
<1>6. /\ TracingAfter <=> InWindow(Len(log) + 1)
      /\ (tracing_done \/ Ends) <=> PastWindow(Len(log) + 1)
      /\ Completes <=> Len(log) = skip + trace_instrs
  BY <1>4, <1>5, Numbers DEF TracingAfter, Completes, InWindow, PastWindow
<1>7. TracingAfter \in BOOLEAN /\ InWindow(Len(log) + 1) \in BOOLEAN
      /\ PastWindow(Len(log) + 1) \in BOOLEAN
  BY DEF TracingAfter, InWindow, PastWindow
<1>8. QED
  BY <1>1, <1>4, <1>6, <1>7

\* The log after an IMark: one entry more, the others as they were.
LEMMA Logged ==
  ASSUME TypeOK, NEW ip \in Ips, IMark(ip)
  PROVE  /\ Len(log') = Len(log) + 1
         /\ log'[Len(log) + 1].ip = ip
         /\ \A i \in 1 .. Len(log) : log'[i] = log[i]
<1>1. NewEntry(running, ip) \in Entry /\ log \in Seq(Entry)
  BY EntryType DEF TypeOK
<1>2. log' = Append(log, NewEntry(running, ip))
  BY DEF IMark
<1>3. /\ Len(log') = Len(log) + 1
      /\ \A i \in 1 .. Len(log) : log'[i] = log[i]
      /\ log'[Len(log) + 1] = NewEntry(running, ip)
  BY <1>1, <1>2, AppendProperties
<1>4. QED
  BY <1>3 DEF NewEntry

\* The calls before an IMark keep the invariant.
LEMMA IMarkWindow ==
  ASSUME TypeOK, WindowInv, NEW ip \in Ips, IMark(ip)
  PROVE  WindowInv'
<1>. DEFINE n == Len(log)
<1>0. n < MaxInstr /\ status = "running" /\ inc_inst
  BY DEF IMark
<1>1. n \in Nat /\ Len(log') = n + 1
  BY Logged, Numbers
<1>2. skip' = skip /\ trace_instrs' = trace_instrs
  BY DEF IMark, options
<1>3. /\ instructions' = n + 1
      /\ tracing' = InWindow(n + 1)
      /\ tracing_done' = PastWindow(n + 1)
      /\ Completes <=> n = skip + trace_instrs
      /\ TracingAfter = InWindow(n + 1)
  BY <1>0, Counting DEF inc_inst
<1>4. n + 1 <= MaxInstr
  BY <1>0, <1>1, Numbers
<1>5. InWindow(n)' = InWindow(n + 1) /\ PastWindow(n)' = PastWindow(n + 1)
  BY <1>1, <1>2 DEF InWindow, PastWindow
<1>6. fd = "closed" <=> skip + trace_instrs < n
  BY <1>0 DEF WindowInv, PastWindow
<1>7. /\ fd' = "closed" <=> tracing_done' \/ status' = "exited"
      /\ closes' = IF fd' = "closed" THEN 1 ELSE 0
  <2>1. /\ fd' = IF Completes THEN "closed" ELSE fd
        /\ closes' = IF Completes THEN closes + 1 ELSE closes
        /\ closes = IF fd = "closed" THEN 1 ELSE 0
        /\ status' = "exited" => Completes
    BY <1>0 DEF inc_inst, IMark, WindowInv
  <2>2. tracing_done' <=> skip + trace_instrs < n + 1
    BY <1>3 DEF PastWindow
  <2>3. CASE n = skip + trace_instrs
    <3>1. Completes /\ fd # "closed" /\ skip + trace_instrs < n + 1
      BY <1>1, <1>3, <1>6, <2>3, Numbers
    <3>2. QED
      BY <2>1, <2>2, <3>1
  <2>4. CASE n # skip + trace_instrs
    <3>1. ~ Completes /\ (skip + trace_instrs < n + 1 <=> skip + trace_instrs < n)
      BY <1>1, <1>3, <2>4, Numbers
    <3>2. QED
      BY <1>6, <2>1, <2>2, <3>1
  <2>5. QED
    BY <2>3, <2>4
<1>8. n + 1 <= skip => inst'.ip = 0
  <2>1. TracingAfter => skip < n + 1
    BY <1>3 DEF InWindow
  <2>2. n + 1 <= skip => ~ (skip < n + 1) /\ n <= skip
    BY <1>1, Numbers
  <2>3. QED
    BY <2>1, <2>2 DEF IMark, zero_and_trace_instr, WindowInv
<1>9. InWindow(n + 1) => inst'.ip = log'[n + 1].ip
  <2>1. InWindow(n + 1) => ~ Completes
    BY <1>1, <1>3, Numbers DEF InWindow
  <2>2. InWindow(n + 1) => inst' = [ZeroInst EXCEPT !.ip = ip]
    BY <1>3, <2>1 DEF IMark, zero_and_trace_instr
  <2>3. QED
    BY <2>2, Logged DEF ZeroInst
<1>10. QED
  BY <1>1, <1>2, <1>3, <1>4, <1>5, <1>6, <1>7, <1>8, <1>9 DEF WindowInv, IMark, options

\* The events between two IMarks keep the invariant.
LEMMA EventsWindow ==
  ASSUME TypeOK, WindowInv, EventFrame
  PROVE  WindowInv'
<1>1. Len(log') = Len(log) /\ inst'.ip = inst.ip
  BY DEF EventFrame
<1>2. InWindow(Len(log)) => log'[Len(log)].ip = log[Len(log)].ip
  <2>1. InWindow(Len(log)) => Len(log) \in 1 .. Len(log)
    BY Numbers DEF InWindow
  <2>2. QED
    BY <2>1 DEF EventFrame
<1>3. QED
  BY <1>1, <1>2 DEF EventFrame, WindowInv, InWindow, PastWindow, options

\* Every step keeps the invariant.
LEMMA NextWindow ==
  TypeOK /\ BodyHasEntry /\ WindowInv /\ [Next]_vars => WindowInv'
<1>. SUFFICES ASSUME TypeOK, BodyHasEntry, WindowInv, [Next]_vars PROVE WindowInv'
  OBVIOUS
<1>. USE DEF WindowInv, InWindow, PastWindow, options, tool, history
<1>1. ASSUME NEW t \in Threads, EnterSB(t) PROVE WindowInv'
  BY <1>1 DEF EnterSB
<1>2. ASSUME NEW ip \in Ips, IMark(ip) PROVE WindowInv'
  BY <1>2, IMarkWindow
<1>3. CASE Memory \/ Registers \/ Branches
  BY <1>3, EventsStep, EventsWindow
<1>4. CASE LeaveSB
  BY <1>4 DEF LeaveSB
<1>5. CASE ct_fini
  BY <1>5 DEF ct_fini
<1>6. CASE Kill
  BY <1>6 DEF Kill
<1>7. CASE UNCHANGED vars
  BY <1>7 DEF vars, guest
<1>8. QED
  BY <1>1, <1>2, <1>3, <1>4, <1>5, <1>6, <1>7 DEF Next

\* The initial state satisfies the invariant.
LEMMA InitWindow == Init => WindowInv
<1>. SUFFICES ASSUME Init PROVE WindowInv
  OBVIOUS
<1>1. TypeOK
  BY InitType
<1>2. Len(log) = 0 /\ inst.ip = 0
  BY DEF Init, ZeroInst
<1>3. InWindow(0) = FALSE /\ PastWindow(0) = FALSE /\ 0 <= MaxInstr
  BY <1>1, Numbers DEF InWindow, PastWindow
<1>4. QED
  BY <1>2, <1>3 DEF Init, WindowInv

\* The invariant of the window: after n instructions the tool traces exactly
\* when skip < n <= skip + trace_instrs.
THEOREM WindowCorrect == Spec => [](TypeOK /\ BodyHasEntry /\ WindowInv)
<1>1. TypeOK /\ BodyHasEntry /\ WindowInv /\ [Next]_vars
        => (TypeOK /\ BodyHasEntry /\ WindowInv)'
  BY NextType, NextWindow
<1>2. QED
  BY <1>1, InitType, InitWindow, PTL DEF Spec

-----------------------------------------------------------------------------
(* The file.                                                               *)

Piece == [n : Nat, rec : Record, whole : BOOLEAN]

\* The file after an IMark: write_inst_to_file appends the record of the last
\* instruction when that one and the new one are in the window, unless the
\* write fails; otherwise it leaves the file alone.
LEMMA Written ==
  ASSUME TypeOK, WindowInv, NEW ip \in Ips, IMark(ip)
  PROVE  \/ /\ file' = file
            /\ InWindow(Len(log)) /\ InWindow(Len(log) + 1) => WriteOutcomes # {"whole"}
         \/ /\ InWindow(Len(log)) /\ InWindow(Len(log) + 1)
            /\ \E w \in BOOLEAN :
                 file' = Append(file, [n |-> Len(log), rec |-> inst, whole |-> w])
<1>. DEFINE n == Len(log)
<1>1. n < MaxInstr /\ status = "running" /\ inc_inst
  BY DEF IMark
<1>2. /\ TracingAfter <=> skip < n + 1 /\ n + 1 <= skip + trace_instrs
      /\ Completes <=> n = skip + trace_instrs
  BY <1>1, Counting DEF InWindow
<1>3. fd = "closed" <=> skip + trace_instrs < n
  BY <1>1 DEF WindowInv, PastWindow
<1>4. n <= skip => inst.ip = 0
  BY DEF WindowInv
<1>5. InWindow(n) => inst.ip # 0
  <2>1. InWindow(n) => n \in 1 .. Len(log)
    BY Numbers DEF InWindow
  <2>2. \A i \in 1 .. Len(log) : log[i].ip \in Nat \ {0}
    <3>1. log \in Seq(Entry)
      BY DEF TypeOK
    <3>2. \A i \in 1 .. Len(log) : log[i] \in Entry
      BY <3>1, ElementOfSeq
    <3>3. \A e \in Entry : e.ip \in Nat \ {0}
      BY TracerAssumption DEF Entry
    <3>4. QED
      BY <3>2, <3>3
  <2>3. QED
    BY <2>1, <2>2 DEF WindowInv
<1>6. CASE InWindow(n) /\ InWindow(n + 1)
  <2>1. TracingAfter /\ inst.ip # 0 /\ ~ Completes /\ fd # "closed"
    <3>1. ~ (n = skip + trace_instrs) /\ ~ (skip + trace_instrs < n)
      BY <1>6, Numbers DEF InWindow
    <3>2. QED
      BY <1>2, <1>3, <1>5, <1>6, <3>1 DEF InWindow
  <2>2. fd' # "closed" /\ write_inst_to_file
    BY <1>1, <2>1 DEF inc_inst, IMark
  <2>3. PICK w \in WriteOutcomes :
          file' = IF w = "none" THEN file
                  ELSE Append(file, [n |-> n, rec |-> inst, whole |-> (w = "whole")])
    BY <2>1, <2>2 DEF write_inst_to_file
  <2>4. QED
    BY <1>6, <2>3
<1>7. CASE ~ (InWindow(n) /\ InWindow(n + 1))
  <2>1. ~ TracingAfter \/ inst.ip = 0
    BY <1>2, <1>4, <1>7, Numbers DEF InWindow
  <2>2. file' = file
    BY <2>1 DEF IMark, write_inst_to_file
  <2>3. QED
    BY <1>7, <2>2
<1>8. QED
  BY <1>6, <1>7

\* Appending a record to the file.
LEMMA Appended ==
  ASSUME TypeOK, NEW w \in BOOLEAN,
         file' = Append(file, [n |-> Len(log), rec |-> inst, whole |-> w])
  PROVE  /\ Len(file') = Len(file) + 1
         /\ \A k \in 1 .. Len(file) : file'[k] = file[k]
         /\ file'[Len(file) + 1].n = Len(log)
         /\ file'[Len(file) + 1].rec = inst
<1>1. [n |-> Len(log), rec |-> inst, whole |-> w] \in Piece /\ file \in Seq(Piece)
  BY Numbers DEF TypeOK, Piece
<1>2. /\ Len(file') = Len(file) + 1
      /\ \A k \in 1 .. Len(file) : file'[k] = file[k]
      /\ file'[Len(file) + 1] = [n |-> Len(log), rec |-> inst, whole |-> w]
  BY <1>1, AppendProperties
<1>3. QED
  BY <1>2

\* The steps other than an IMark leave the file, the length of the log and the
\* addresses in it alone.
LEMMA FileFrame ==
  ASSUME TypeOK, BodyHasEntry, [Next]_vars
  PROVE  \/ \E ip \in Ips : IMark(ip)
         \/ /\ file' = file /\ skip' = skip /\ trace_instrs' = trace_instrs
            /\ Len(log') = Len(log)
            /\ \A i \in 1 .. Len(log) : log'[i].ip = log[i].ip
            /\ \A i \in 1 .. Len(log) - 1 : log'[i] = log[i]
            /\ tracing' = tracing
            /\ fd' = fd \/ fd' = "closed"
<1>1. ASSUME NEW t \in Threads, EnterSB(t)
      PROVE  UNCHANGED <<options, tool, log>>
  BY <1>1 DEF EnterSB, history
<1>2. CASE Memory \/ Registers \/ Branches
  BY <1>2, EventsStep DEF EventFrame, options
<1>3. CASE LeaveSB
  BY <1>3 DEF LeaveSB, tool, options, history
<1>4. CASE ct_fini
  BY <1>4 DEF ct_fini, tool, options, history
<1>5. CASE Kill
  BY <1>5 DEF Kill, tool, options, history
<1>6. CASE UNCHANGED vars
  BY <1>6 DEF vars, tool, options, history
<1>7. QED
  BY <1>1, <1>2, <1>3, <1>4, <1>5, <1>6 DEF Next, tool, options

-----------------------------------------------------------------------------
(* The order of the records.                                               *)

\* An IMark keeps the records of the window in order.
LEMMA IMarkOrder ==
  ASSUME TypeOK, WindowInv, RecordsInOrder, NEW ip \in Ips, IMark(ip)
  PROVE  RecordsInOrder'
<1>. DEFINE n == Len(log)
<1>0. skip' = skip /\ trace_instrs' = trace_instrs /\ Len(log') = n + 1
  BY Logged DEF IMark, options
<1>1. ASSUME NEW k \in 1 .. Len(file)
      PROVE  /\ skip < file[k].n /\ file[k].n < skip + trace_instrs
             /\ file[k].n < n + 1 /\ file[k].n < n
             /\ file[k].rec.ip = log'[file[k].n].ip
             /\ \A j \in 1 .. k - 1 : file[j].n < file[k].n
  <2>1. file[k].n \in Nat
    <3>1. file \in Seq([n : Nat, rec : Record, whole : BOOLEAN])
      BY DEF TypeOK
    <3>2. file[k] \in [n : Nat, rec : Record, whole : BOOLEAN]
      BY <3>1, ElementOfSeq
    <3>3. QED
      BY <3>2
  <2>2. /\ skip < file[k].n /\ file[k].n < skip + trace_instrs /\ file[k].n < n
        /\ file[k].rec.ip = log[file[k].n].ip
        /\ \A j \in 1 .. k - 1 : file[j].n < file[k].n
    BY DEF RecordsInOrder
  <2>3. file[k].n \in 1 .. Len(log) /\ file[k].n < n + 1
    BY <2>1, <2>2, Numbers
  <2>4. log'[file[k].n] = log[file[k].n]
    BY <2>3, Logged
  <2>5. QED
    BY <2>2, <2>3, <2>4
<1>2. CASE file' = file
  BY <1>0, <1>1, <1>2 DEF RecordsInOrder
<1>3. ASSUME InWindow(n) /\ InWindow(n + 1), NEW w \in BOOLEAN,
             file' = Append(file, [n |-> n, rec |-> inst, whole |-> w])
      PROVE  RecordsInOrder'
  <2>1. /\ Len(file') = Len(file) + 1 /\ Len(file) \in Nat
        /\ \A k \in 1 .. Len(file) : file'[k] = file[k]
        /\ file'[Len(file) + 1].n = n
        /\ file'[Len(file) + 1].rec = inst
    BY <1>3, Appended, Numbers
  <2>2. skip < n /\ n < skip + trace_instrs /\ n < n + 1 /\ n \in 1 .. Len(log)
    BY <1>3, Numbers DEF InWindow
  <2>3. inst.ip = log'[n].ip
    BY <1>3, <2>2, Logged DEF WindowInv
  <2>4. ASSUME NEW k \in 1 .. Len(file')
        PROVE  /\ skip < file'[k].n /\ file'[k].n < skip + trace_instrs
               /\ file'[k].n < n + 1
               /\ file'[k].rec.ip = log'[file'[k].n].ip
               /\ \A j \in 1 .. k - 1 : file'[j].n < file'[k].n
    <3>1. CASE k \in 1 .. Len(file)
      <4>1. \A j \in 1 .. k - 1 : j \in 1 .. Len(file)
        BY <3>1, <2>1
      <4>2. QED
        BY <1>1, <2>1, <3>1, <4>1
    <3>2. CASE k = Len(file) + 1
      <4>1. \A j \in 1 .. k - 1 : j \in 1 .. Len(file)
        BY <3>2, <2>1
      <4>2. \A j \in 1 .. k - 1 : file'[j].n < file'[k].n
        BY <1>1, <2>1, <3>2, <4>1
      <4>3. QED
        BY <2>1, <2>2, <2>3, <3>2, <4>2
    <3>3. QED
      BY <2>1, <3>1, <3>2
  <2>5. QED
    BY <1>0, <2>4 DEF RecordsInOrder
<1>4. QED
  BY <1>2, <1>3, Written

\* Every step keeps the records in order.
LEMMA NextOrder ==
  TypeOK /\ BodyHasEntry /\ WindowInv /\ RecordsInOrder /\ [Next]_vars
    => RecordsInOrder'
<1>. SUFFICES ASSUME TypeOK, BodyHasEntry, WindowInv, RecordsInOrder, [Next]_vars
              PROVE  RecordsInOrder'
  OBVIOUS
<1>1. ASSUME NEW ip \in Ips, IMark(ip) PROVE RecordsInOrder'
  BY <1>1, IMarkOrder
<1>2. CASE /\ file' = file /\ skip' = skip /\ trace_instrs' = trace_instrs
           /\ Len(log') = Len(log)
           /\ \A i \in 1 .. Len(log) : log'[i].ip = log[i].ip
  <2>1. \A k \in 1 .. Len(file) : file[k].n \in Nat
    <3>1. file \in Seq([n : Nat, rec : Record, whole : BOOLEAN])
      BY DEF TypeOK
    <3>2. \A k \in 1 .. Len(file) : file[k] \in [n : Nat, rec : Record, whole : BOOLEAN]
      BY <3>1, ElementOfSeq
    <3>3. QED
      BY <3>2
  <2>2. \A k \in 1 .. Len(file) : file[k].n \in 1 .. Len(log)
    BY <2>1, Numbers DEF RecordsInOrder
  <2>3. QED
    BY <1>2, <2>2 DEF RecordsInOrder
<1>3. QED
  BY <1>1, <1>2, FileFrame

\* For every window, interleaving, write failure and death of the process the
\* records are those of instructions of the window, in execution order, at
\* most one each, under the instruction's own address.
THEOREM OrderCorrect == Spec => []RecordsInOrder
<1>1. Init => RecordsInOrder
  BY DEF Init, RecordsInOrder
<1>2. QED
  BY <1>1, NextOrder, WindowCorrect, PTL DEF Spec

-----------------------------------------------------------------------------
(* The descriptor.                                                         *)

\* While the process runs, tracing implies that the descriptor is the tool's.
THEOREM FileOpen == Spec => []TracingNeedsFile
<1>1. TypeOK /\ WindowInv => TracingNeedsFile
  <2>. SUFFICES ASSUME TypeOK, WindowInv, status = "running", tracing
                PROVE  fd = "open"
    BY DEF TracingNeedsFile
  <2>1. Len(log) <= skip + trace_instrs
    BY DEF WindowInv, InWindow
  <2>2. ~ (skip + trace_instrs < Len(log))
    BY <2>1, Numbers
  <2>3. fd # "closed"
    BY <2>2 DEF WindowInv, PastWindow
  <2>4. QED
    BY <2>3 DEF TypeOK
<1>2. QED
  BY <1>1, WindowCorrect, PTL

\* inc_inst and ct_fini between them close the descriptor exactly once.
THEOREM FileClosedOnce == Spec => []ClosedOnce
<1>1. WindowInv => ClosedOnce
  BY DEF WindowInv, ClosedOnce
<1>2. QED
  BY <1>1, WindowCorrect, PTL

\* No step after the end of the window traces or writes.
THEOREM WindowEndsOnce == Spec => NeverResumes
<1>1. TypeOK /\ BodyHasEntry /\ WindowInv /\ [Next]_vars
        => [tracing_done => ~ tracing' /\ file' = file]_vars
  <2>. SUFFICES ASSUME TypeOK, BodyHasEntry, WindowInv, [Next]_vars, tracing_done
                PROVE  ~ tracing' /\ file' = file
    OBVIOUS
  <2>1. skip + trace_instrs < Len(log)
    BY DEF WindowInv, PastWindow
  <2>2. ~ (Len(log) <= skip + trace_instrs) /\ ~ (Len(log) + 1 <= skip + trace_instrs)
    BY <2>1, Numbers
  <2>3. ~ tracing /\ ~ InWindow(Len(log)) /\ ~ InWindow(Len(log) + 1)
    BY <2>2 DEF WindowInv, InWindow
  <2>4. ASSUME NEW ip \in Ips, IMark(ip) PROVE ~ tracing' /\ file' = file
    <3>1. file' = file
      BY <2>3, <2>4, Written
    <3>2. tracing' = InWindow(Len(log) + 1)
      BY <2>4, Counting DEF IMark, inc_inst
    <3>3. QED
      BY <2>3, <3>1, <3>2
  <2>5. QED
    BY <2>3, <2>4, FileFrame
<1>2. QED
  BY <1>1, WindowCorrect, PTL DEF Spec, NeverResumes

-----------------------------------------------------------------------------
(* No gaps.                                                                *)

\* An IMark leaves no gap when writes succeed.
LEMMA IMarkGaps ==
  ASSUME TypeOK, WindowInv, NoGaps, NEW ip \in Ips, IMark(ip)
  PROVE  NoGaps'
<1>. SUFFICES ASSUME WriteOutcomes = {"whole"} PROVE NoGaps'
  BY DEF NoGaps
<1>. DEFINE n == Len(log)
            end == skip + trace_instrs
            Last1(m) == IF m < end THEN m ELSE end
            Count(m) == IF Last1(m) - skip - 1 > 0 THEN Last1(m) - skip - 1 ELSE 0
<1>0. skip' = skip /\ trace_instrs' = trace_instrs /\ Len(log') = n + 1
  BY Logged DEF IMark, options
<1>1. Len(file) = Count(n) /\ \A k \in 1 .. Len(file) : file[k].n = skip + k
  BY DEF NoGaps
<1>2. SUFFICES /\ Len(file') = Count(n + 1)
               /\ \A k \in 1 .. Len(file') : file'[k].n = skip + k
  BY <1>0 DEF NoGaps
<1>3. CASE InWindow(n) /\ InWindow(n + 1)
  <2>1. PICK w \in BOOLEAN :
          file' = Append(file, [n |-> n, rec |-> inst, whole |-> w])
    BY <1>3, Written
  <2>2. /\ Len(file') = Len(file) + 1
        /\ \A k \in 1 .. Len(file) : file'[k] = file[k]
        /\ file'[Len(file) + 1].n = n
    BY <2>1, Appended
  <2>3. Len(file) = n - skip - 1 /\ Count(n + 1) = n - skip
    BY <1>1, <1>3, Numbers DEF InWindow
  <2>4. Len(file) + 1 = Count(n + 1) /\ n = skip + (Len(file) + 1)
    BY <2>3, Numbers
  <2>5. \A k \in 1 .. Len(file') : k \in 1 .. Len(file) \/ k = Len(file) + 1
    BY <2>2, Numbers
  <2>. HIDE DEF Count
  <2>6. QED
    BY <1>1, <2>2, <2>4, <2>5
<1>4. CASE ~ (InWindow(n) /\ InWindow(n + 1))
  <2>1. file' = file
    BY <1>4, Written
  <2>2. Count(n + 1) = Count(n)
    BY <1>4, Numbers DEF InWindow
  <2>3. QED
    BY <1>1, <2>1, <2>2
<1>5. QED
  BY <1>3, <1>4

\* When no write fails, the file holds exactly the instructions from skip + 1
\* to the one before the current or before the last of the window.
THEOREM NoGapsCorrect == Spec => []NoGaps
<1>1. Init => NoGaps
  <2>. SUFFICES ASSUME Init PROVE NoGaps
    OBVIOUS
  <2>1. TypeOK /\ Len(log) = 0 /\ Len(file) = 0
    BY InitType DEF Init
  <2>2. QED
    BY <2>1, Numbers DEF NoGaps
<1>2. TypeOK /\ BodyHasEntry /\ WindowInv /\ NoGaps /\ [Next]_vars => NoGaps'
  <2>. SUFFICES ASSUME TypeOK, BodyHasEntry, WindowInv, NoGaps, [Next]_vars
                PROVE  NoGaps'
    OBVIOUS
  <2>1. ASSUME NEW ip \in Ips, IMark(ip) PROVE NoGaps'
    BY <2>1, IMarkGaps
  <2>2. CASE /\ file' = file /\ skip' = skip /\ trace_instrs' = trace_instrs
             /\ Len(log') = Len(log)
    BY <2>2 DEF NoGaps
  <2>3. QED
    BY <2>1, <2>2, FileFrame
<1>3. QED
  BY <1>1, <1>2, WindowCorrect, PTL DEF Spec

-----------------------------------------------------------------------------
(* The refinement of TraceWindow.                                          *)

Numbering == [k \in 1 .. Len(file) |-> file[k].n]

\* Appending a record appends its number.
LEMMA NumberingAppend ==
  ASSUME TypeOK, NEW w \in BOOLEAN,
         file' = Append(file, [n |-> Len(log), rec |-> inst, whole |-> w])
  PROVE  Numbering' = Append(Numbering, Len(log))
<1>1. /\ Len(file') = Len(file) + 1
      /\ \A k \in 1 .. Len(file) : file'[k] = file[k]
      /\ file'[Len(file) + 1].n = Len(log)
  BY Appended
<1>2. Numbering \in Seq(Nat) /\ Len(Numbering) = Len(file)
  <2>1. \A k \in 1 .. Len(file) : file[k].n \in Nat
    <3>1. file \in Seq([n : Nat, rec : Record, whole : BOOLEAN])
      BY DEF TypeOK
    <3>2. \A k \in 1 .. Len(file) : file[k] \in [n : Nat, rec : Record, whole : BOOLEAN]
      BY <3>1, ElementOfSeq
    <3>3. QED
      BY <3>2
  <2>2. QED
    BY <2>1, Numbers DEF Numbering
<1>3. /\ Append(Numbering, Len(log)) \in Seq(Nat)
      /\ Len(Append(Numbering, Len(log))) = Len(file) + 1
      /\ \A k \in 1 .. Len(file) : Append(Numbering, Len(log))[k] = Numbering[k]
      /\ Append(Numbering, Len(log))[Len(file) + 1] = Len(log)
  BY <1>2, Numbers, AppendProperties
<1>4. Append(Numbering, Len(log)) \in [1 .. Len(file) + 1 -> Nat]
  BY <1>3, LenProperties
<1>5. \A k \in 1 .. Len(file) + 1 : k \in 1 .. Len(file) \/ k = Len(file) + 1
  BY Numbers
<1>6. Numbering' = [k \in 1 .. Len(file) + 1 |-> file'[k].n]
  BY <1>1 DEF Numbering
<1>7. \A k \in 1 .. Len(file) : Numbering[k] = file[k].n
  BY DEF Numbering
<1>8. \A k \in 1 .. Len(file) + 1 : file'[k].n = Append(Numbering, Len(log))[k]
  BY <1>1, <1>3, <1>5, <1>7
<1>9. Append(Numbering, Len(log))
        = [k \in 1 .. Len(file) + 1 |-> Append(Numbering, Len(log))[k]]
  BY <1>4, Zenon
<1>. HIDE DEF Numbering
<1>10. QED
  BY <1>6, <1>8, <1>9

\* An IMark is a step of the abstract window.
LEMMA IMarkExecutes ==
  ASSUME TypeOK, WindowInv, NEW ip \in Ips, IMark(ip)
  PROVE  Window!Execute
<1>. DEFINE n == Len(log)
<1>0. n < MaxInstr /\ status = "running" /\ inc_inst
  BY DEF IMark
<1>1. skip' = skip /\ trace_instrs' = trace_instrs /\ Len(log') = n + 1
  BY Logged DEF IMark, options
<1>2. Completes <=> n = skip + trace_instrs
  BY <1>0, Counting
<1>3. fd = "closed" <=> skip + trace_instrs < n
  BY <1>0 DEF WindowInv, PastWindow
<1>4. (fd' = "open") = (fd = "open" /\ n + 1 # skip + trace_instrs + 1)
  <2>1. n + 1 # skip + trace_instrs + 1 <=> ~ Completes
    BY <1>2, Numbers
  <2>2. fd' = IF Completes THEN "closed" ELSE fd
    BY <1>0 DEF inc_inst
  <2>3. QED
    BY <2>1, <2>2
<1>5. (fd = "open" /\ skip < n /\ n < skip + trace_instrs)
        <=> InWindow(n) /\ InWindow(n + 1)
  <2>1. fd = "open" <=> ~ (skip + trace_instrs < n)
    BY <1>3 DEF TypeOK
  <2>2. QED
    BY <2>1, Numbers DEF InWindow
<1>6. \/ /\ fd = "open" /\ skip < n /\ n < skip + trace_instrs
         /\ Numbering' = Append(Numbering, n)
      \/ /\ fd = "open" /\ skip < n /\ n < skip + trace_instrs
              => WriteOutcomes # {"whole"}
         /\ Numbering' = Numbering
  <2>1. CASE /\ file' = file
             /\ InWindow(n) /\ InWindow(n + 1) => WriteOutcomes # {"whole"}
    BY <1>5, <2>1 DEF Numbering
  <2>2. ASSUME InWindow(n) /\ InWindow(n + 1), NEW w \in BOOLEAN,
               file' = Append(file, [n |-> n, rec |-> inst, whole |-> w])
        PROVE  Numbering' = Append(Numbering, n)
    BY <2>2, NumberingAppend
  <2>3. QED
    BY <1>5, <2>1, <2>2, Written
<1>7. QED
  BY <1>1, <1>4, <1>6 DEF Window!Execute, Window!Completed, Numbering

\* Every behaviour of the tool is a behaviour of the abstract window: its
\* counter modulo 2^64, its flags and its record do not show.
THEOREM WindowRefinement == Spec => ImplementsWindow
<1>1. Init => Window!Init
  <2>. SUFFICES ASSUME Init PROVE Window!Init
    OBVIOUS
  <2>1. Len(log) = 0 /\ Len(file) = 0
    BY DEF Init
  <2>2. Numbering = <<>>
    BY <2>1 DEF Numbering
  <2>3. QED
    BY <2>1, <2>2 DEF Init, Window!Init, Numbering
<1>2. TypeOK /\ BodyHasEntry /\ WindowInv /\ [Next]_vars => [Window!Next]_(Window!vars)
  <2>. SUFFICES ASSUME TypeOK, BodyHasEntry, WindowInv, [Next]_vars
                PROVE  [Window!Next]_(Window!vars)
    OBVIOUS
  <2>1. ASSUME NEW ip \in Ips, IMark(ip) PROVE Window!Execute
    BY <2>1, IMarkExecutes
  <2>2. CASE /\ file' = file /\ skip' = skip /\ trace_instrs' = trace_instrs
             /\ Len(log') = Len(log) /\ fd' = fd
    BY <2>2 DEF Window!vars
  <2>3. CASE /\ file' = file /\ skip' = skip /\ trace_instrs' = trace_instrs
             /\ Len(log') = Len(log) /\ fd' = "closed"
    BY <2>3 DEF Window!Close, Window!Next
  <2>4. QED
    BY <2>1, <2>2, <2>3, FileFrame DEF Window!Next
<1>3. QED
  BY <1>1, <1>2, WindowCorrect, PTL DEF Spec, ImplementsWindow, Window!Spec

=============================================================================
