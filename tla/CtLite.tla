------------------------------- MODULE CtLite -------------------------------
(***************************************************************************)
(* ctlite at run time (src/ctlite/cl_main.c): counters of the code and     *)
(* data regions a program touches and of its conditional branches, written *)
(* to a file and cleared at every heartbeat.                               *)
(*                                                                         *)
(* The guest's threads run one at a time and a helper is never interrupted *)
(* by another, so the order of the calls is all that matters.  A snapshot  *)
(* is five calls of VG_(write), whose results are ignored: kept is the set *)
(* of those that reached the file.                                         *)
(***************************************************************************)
EXTENDS Integers, Sequences

CONSTANTS
  IMAP_SIZE, MMAP_SIZE,    \* buckets (1024 each in the code)
  IWindow, MWindow,        \* bytes in a bucket: 2^(code-size - 10), 2^(mem-size - 10)
  heartbeat,               \* --heartbeat
  UINT_MOD,                \* 2^32, the range of a counter
  Ips, Addrs,              \* guest addresses
  Kept,                    \* which of a snapshot's five writes may succeed
  MaxCalls                 \* bound: calls of the helpers

Fields == {"instructions", "Mmap", "Imap", "TBranches", "UBranches"}

ASSUME LiteAssumption ==
  /\ IMAP_SIZE \in Nat \ {0} /\ MMAP_SIZE \in Nat \ {0}
  /\ IWindow \in Nat \ {0} /\ MWindow \in Nat \ {0}
  /\ heartbeat \in Nat \ {0}        \* 0 would divide by zero
  /\ UINT_MOD \in Nat /\ UINT_MOD > 1
  /\ Ips \subseteq Nat /\ Addrs \subseteq Nat
  /\ Kept \subseteq SUBSET Fields
  /\ MaxCalls \in Nat

VARIABLES
  instructions, Imap, Mmap, TBranches, UBranches,   \* static state
  file,        \* snapshots [snap, kept]
  fd,
  \* history: calls so far, what they add up to, and the sums at each snapshot
  calls, total, marks

counters == <<Imap, Mmap, TBranches, UBranches>>
vars == <<instructions, counters, file, fd, calls, total, marks>>

IBuckets == 0 .. IMAP_SIZE - 1
MBuckets == 0 .. MMAP_SIZE - 1

\* iaddr >> IShiftSize, and so on: the bucket of an address.  Addresses a
\* whole window apart share a bucket.
IBucket(a) == (a \div IWindow) % IMAP_SIZE
MBucket(a) == (a \div MWindow) % MMAP_SIZE

\* ++ on a UInt.
Inc(n) == (n + 1) % UINT_MOD

NoCounts ==
  [Imap |-> [b \in IBuckets |-> 0], Mmap |-> [b \in MBuckets |-> 0],
   TBranches |-> 0, UBranches |-> 0]

\* cl_post_clo_init
Init ==
  /\ instructions = 0
  /\ Imap = [b \in IBuckets |-> 0]
  /\ Mmap = [b \in MBuckets |-> 0]
  /\ TBranches = 0 /\ UBranches = 0
  /\ file = << >>
  /\ fd = "open"
  /\ calls = 0
  /\ total = NoCounts
  /\ marks = << >>

-----------------------------------------------------------------------------

Call ==
  /\ fd = "open"
  /\ calls < MaxCalls
  /\ calls' = calls + 1
  /\ UNCHANGED fd

Counted(map, b) == [map EXCEPT ![b] = Inc(@)]
Plus1(sum, b) == [sum EXCEPT ![b] = @ + 1]

\* The five parts written at a heartbeat.
Snapshot(a) ==
  [instructions |-> instructions + 1, Imap |-> Counted(Imap, IBucket(a)),
   Mmap |-> Mmap, TBranches |-> TBranches, UBranches |-> UBranches]

\* Mutant of ClearCounters: the counters of branches are not cleared.
ClearCounters_maps ==
  /\ Imap' = [b \in IBuckets |-> 0]
  /\ Mmap' = [b \in MBuckets |-> 0]
  /\ UNCHANGED <<TBranches, UBranches>>

\* The four calls of VG_(memset).
ClearCounters ==
  /\ Imap' = [b \in IBuckets |-> 0]
  /\ Mmap' = [b \in MBuckets |-> 0]
  /\ TBranches' = 0 /\ UBranches' = 0

\* Mutant of Beats: the heartbeat is looked at before the instruction counts.
Beats_late == instructions % heartbeat = 0

Beats == (instructions + 1) % heartbeat = 0

trace_instr(a) ==
  /\ Call
  /\ instructions' = instructions + 1
  /\ total' = [total EXCEPT !.Imap = Plus1(total.Imap, IBucket(a))]
  /\ IF Beats
     THEN /\ \E k \in Kept : file' = Append(file, [snap |-> Snapshot(a), kept |-> k])
          /\ ClearCounters
          /\ marks' = Append(marks, total')
     ELSE /\ Imap' = Counted(Imap, IBucket(a))
          /\ UNCHANGED <<Mmap, TBranches, UBranches, file, marks>>

\* trace_load and trace_store
trace_access(a) ==
  /\ Call
  /\ Mmap' = Counted(Mmap, MBucket(a))
  /\ total' = [total EXCEPT !.Mmap = Plus1(total.Mmap, MBucket(a))]
  /\ UNCHANGED <<instructions, Imap, TBranches, UBranches, file, marks>>

trace_branch_conditional(ci, guard) ==
  /\ Call
  /\ IF guard # ci
     THEN /\ TBranches' = Inc(TBranches)
          /\ UBranches' = UBranches
          /\ total' = [total EXCEPT !.TBranches = @ + 1]
     ELSE /\ UBranches' = Inc(UBranches)
          /\ TBranches' = TBranches
          /\ total' = [total EXCEPT !.UBranches = @ + 1]
  /\ UNCHANGED <<instructions, Imap, Mmap, file, marks>>

cl_fini ==
  /\ fd = "open"
  /\ fd' = "closed"
  /\ UNCHANGED <<instructions, counters, file, calls, total, marks>>

Next ==
  \/ \E a \in Ips : trace_instr(a)
  \/ \E a \in Addrs : trace_access(a)
  \/ \E ci, guard \in BOOLEAN : trace_branch_conditional(ci, guard)
  \/ cl_fini

Spec == Init /\ [][Next]_vars

-----------------------------------------------------------------------------
(* Properties.                                                             *)

UInt == 0 .. UINT_MOD - 1

Counts == [Imap : [IBuckets -> Nat], Mmap : [MBuckets -> Nat],
           TBranches : Nat, UBranches : Nat]

\* Type correctness: counters stay in range, a snapshot has all five parts.
TypeOK ==
  /\ instructions \in Nat
  /\ Imap \in [IBuckets -> UInt] /\ Mmap \in [MBuckets -> UInt]
  /\ TBranches \in UInt /\ UBranches \in UInt
  /\ file \in Seq([snap : [instructions : Nat,
                           Imap : [IBuckets -> UInt], Mmap : [MBuckets -> UInt],
                           TBranches : UInt, UBranches : UInt],
                   kept : SUBSET Fields])
  /\ fd \in {"open", "closed"}
  /\ calls \in Nat
  /\ total \in Counts
  /\ marks \in Seq(Counts)

\* c counts, in the width of a counter, what happened from one sum to another.
Between(c, from, to) ==
  /\ \A b \in IBuckets : c.Imap[b] = (to.Imap[b] - from.Imap[b]) % UINT_MOD
  /\ \A b \in MBuckets : c.Mmap[b] = (to.Mmap[b] - from.Mmap[b]) % UINT_MOD
  /\ c.TBranches = (to.TBranches - from.TBranches) % UINT_MOD
  /\ c.UBranches = (to.UBranches - from.UBranches) % UINT_MOD

MarkBefore(k) == IF k = 1 THEN NoCounts ELSE marks[k - 1]

\* The counters as a snapshot would hold them, and the sums at the last one.
Current == [Imap |-> Imap, Mmap |-> Mmap, TBranches |-> TBranches, UBranches |-> UBranches]
LastMark == MarkBefore(Len(marks) + 1)

\* A snapshot counts everything since the one before it and nothing twice: the
\* instruction that completes the interval included, its accesses and branch,
\* which come behind, not; also when the writes of an earlier one failed.  The
\* counters hold what came since the last, which cl_fini does not write.
SnapshotsAreIntervals ==
  /\ Len(file) = Len(marks)
  /\ \A k \in 1 .. Len(file) : Between(file[k].snap, MarkBefore(k), marks[k])
  /\ Between(Current, LastMark, total)

\* The k-th snapshot is taken at instruction k * heartbeat, and none is missing.
OnTheBeat ==
  /\ \A k \in 1 .. Len(file) : file[k].snap.instructions = k * heartbeat
  /\ Len(file) * heartbeat <= instructions
  /\ instructions < (Len(file) + 1) * heartbeat

=============================================================================
