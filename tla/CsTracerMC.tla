----------------------------- MODULE CsTracerMC -----------------------------
(* Model checking of CsTracer.  Guest threads are interchangeable. *)
EXTENDS CsTracer, TLC

ThreadSymmetry == Permutations(Threads)

Entries == {log[i] : i \in 1 .. Len(log)}

\* Two events, each a load, a store, a read or write of a register or a branch.
FewEvents ==
  /\ \A e \in Entries : e.ip = 4
  /\ events <= 2
  /\ \A e \in Entries : e.loads \cup e.stores \subseteq {64} /\ e.reads \cup e.writes \subseteq {9}

OnlyRegisters ==
  /\ events <= 4
  /\ \A e \in Entries : e.loads \cup e.stores = {}
  /\ \A l \in Lines : mem[l] = 0

\* Loads from up to five addresses and stores to up to three, in two lines, all
\* of the first instruction
OnlyMemory ==
  \A i \in 1 .. Len(log) :
    /\ log[i].reads \cup log[i].writes \cup log[i].setDst \cup log[i].setSrc = {}
    /\ log[i].stores \subseteq {64, 72, 128}
    /\ i = 1 \/ log[i].loads \cup log[i].stores = {}

\* Bound: the executions that are followed.  Without events they have MaxInstr
\* instructions, with few events four, in windows that open and close in
\* between, and with many events two or three of one thread.
LongOrBusy ==
  \/ events = 0
  \/ skip = 1 /\ trace_instrs = 2 /\ ~ exit_after_tracing /\ Len(log) <= 4 /\ FewEvents
  \/ /\ skip = 0 /\ trace_instrs = 3 /\ ~ exit_after_tracing
     /\ \A e \in Entries : e.tid = log[1].tid /\ e.ip = 4
     /\ \/ Len(log) <= 3 /\ OnlyRegisters
        \/ Len(log) <= 2 /\ OnlyMemory

=============================================================================
