---------------------------- MODULE CtLiteProofs ----------------------------
(***************************************************************************)
(* What ctlite's file holds, for every heartbeat, every size of its maps   *)
(* and every width of its counters.                                        *)
(*                                                                         *)
(* SnapshotsAreIntervals and OnTheBeat are inductive together with typing: *)
(* both say, besides what the file holds, how far the current interval is. *)
(***************************************************************************)
EXTENDS CtLite, TLAPS

\* Quotient and remainder are determined by each other.
LEMMA DivisionUnique ==
  ASSUME NEW M \in Nat, M > 0, NEW q \in Int, NEW p \in Int,
         NEW r \in 0 .. M - 1, NEW s \in 0 .. M - 1,
         (q * M) + r = (p * M) + s
  PROVE  r = s /\ q = p
<1>1. (q - p) * M = s - r /\ (p - q) * M = r - s
  OBVIOUS
<1>2. ~ (q - p >= 1)
  <2>1. SUFFICES ASSUME q - p >= 1 PROVE FALSE
    OBVIOUS
  <2>2. (q - p) * M >= M
    BY <2>1
  <2> QED  BY <2>2, <1>1
<1>3. ~ (p - q >= 1)
  <2>1. SUFFICES ASSUME p - q >= 1 PROVE FALSE
    OBVIOUS
  <2>2. (p - q) * M >= M
    BY <2>1
  <2> QED  BY <2>2, <1>1
<1>4. q = p
  BY <1>2, <1>3
<1> QED  BY <1>4

\* The definition of % and \div.
LEMMA Division ==
  ASSUME NEW M \in Nat, M > 0, NEW x \in Int
  PROVE  /\ x = ((x \div M) * M) + (x % M)
         /\ x % M \in 0 .. M - 1
         /\ x \div M \in Int
OBVIOUS

\* A remainder is known from any quotient.
LEMMA RemainderIs ==
  ASSUME NEW M \in Nat, M > 0, NEW x \in Int, NEW q \in Int, NEW r \in 0 .. M - 1,
         x = (q * M) + r
  PROVE  x % M = r
<1>. DEFINE d == x \div M
            m == x % M
<1>1. x = (d * M) + m /\ m \in 0 .. M - 1 /\ d \in Int
  BY Division
<1>. HIDE DEF d, m
<1>2. m = r
  BY <1>1, DivisionUnique
<1> QED  BY <1>2 DEF m

\* A counter that is incremented modulo 2^32 stays the remainder of the count.
LEMMA IncIsModular ==
  ASSUME NEW M \in Nat, M > 1, NEW x \in Int
  PROVE  ((x % M) + 1) % M = (x + 1) % M
<1>. DEFINE d == x \div M
            m == x % M
<1>1. x = (d * M) + m /\ m \in 0 .. M - 1 /\ d \in Int
  BY Division
<1>. HIDE DEF d, m
<1>2. CASE m + 1 < M
  <2>1. x + 1 = (d * M) + (m + 1) /\ m + 1 \in 0 .. M - 1
    BY <1>1, <1>2
  <2>2. (x + 1) % M = m + 1
    BY <2>1, <1>1, RemainderIs
  <2>3. m + 1 = (0 * M) + (m + 1)
    BY <1>1
  <2>4. (m + 1) % M = m + 1
    BY <2>1, <2>3, RemainderIs
  <2> QED  BY <2>2, <2>4 DEF m
<1>3. CASE m + 1 = M
  <2>1. x + 1 = ((d + 1) * M) + 0 /\ d + 1 \in Int /\ 0 \in 0 .. M - 1
    BY <1>1, <1>3
  <2>2. (x + 1) % M = 0
    <3>. DEFINE z == x + 1
                e == d + 1
    <3>1. z = (e * M) + 0 /\ z \in Int /\ e \in Int
      BY <2>1
    <3>. HIDE DEF z, e
    <3>2. z % M = 0
      BY <3>1, <2>1, RemainderIs
    <3> QED  BY <3>2 DEF z
  <2>3. m + 1 = (1 * M) + 0 /\ m + 1 \in Int /\ 1 \in Int
    BY <1>1, <1>3
  <2>4. (m + 1) % M = 0
    <3>. DEFINE y == m + 1
    <3>. HIDE DEF y
    <3>1. y = (1 * M) + 0 /\ y \in Int
      BY <2>3 DEF y
    <3>2. y % M = 0
      BY <3>1, <2>1, <2>3, RemainderIs
    <3> QED  BY <3>2 DEF y
  <2> QED  BY <2>2, <2>4 DEF m
<1> QED  BY <1>1, <1>2, <1>3

-----------------------------------------------------------------------------

\* Addresses fall into buckets and counters stay in their width.
LEMMA BucketTypes ==
  /\ \A a \in Ips : IBucket(a) \in IBuckets
  /\ \A a \in Addrs : MBucket(a) \in MBuckets
  /\ \A n \in UInt : Inc(n) \in UInt
  /\ 0 \in UInt
<1>1. ASSUME NEW a \in Nat, NEW w \in Nat \ {0}, NEW n \in Nat \ {0}
      PROVE  (a \div w) % n \in 0 .. n - 1
  <2>1. a \div w \in Int
    BY Division
  <2> QED  BY <2>1, Division
<1>2. \A n \in UInt : Inc(n) \in UInt
  BY LiteAssumption, Division DEF UInt, Inc
<1> QED  BY <1>1, <1>2, LiteAssumption DEF IBucket, MBucket, IBuckets, MBuckets, UInt

Snap == [instructions : Nat, Imap : [IBuckets -> UInt], Mmap : [MBuckets -> UInt],
         TBranches : UInt, UBranches : UInt]

Entries == [snap : Snap, kept : SUBSET Fields]

\* Typing is inductive by itself.
LEMMA TypeInductive == TypeOK /\ [Next]_vars => TypeOK'
<1>. SUFFICES ASSUME TypeOK, [Next]_vars PROVE TypeOK'
  OBVIOUS
<1>. USE BucketTypes
<1>0. file \in Seq(Entries)
  BY DEF TypeOK, Entries, Snap
<1>1. ASSUME NEW a \in Ips, trace_instr(a) PROVE TypeOK'
  <2>. DEFINE b == IBucket(a)
  <2>0. b \in IBuckets
    BY <1>1
  <2>. HIDE DEF b
  <2>1. total' = [total EXCEPT !.Imap = Plus1(total.Imap, b)]
    BY <1>1 DEF trace_instr, b
  <2>2. total' \in Counts
    <3>1. total.Imap \in [IBuckets -> Nat]
      BY DEF TypeOK, Counts
    <3>2. Plus1(total.Imap, b) \in [IBuckets -> Nat]
      BY <2>0, <3>1 DEF Plus1
    <3> QED  BY <2>1, <3>2 DEF TypeOK, Counts
  <2>3. Counted(Imap, b) \in [IBuckets -> UInt]
    BY <2>0 DEF Counted, TypeOK
  <2>4. CASE Beats
    <3>1. PICK k \in Kept : file' = Append(file, [snap |-> Snapshot(a), kept |-> k])
      BY <1>1, <2>4 DEF trace_instr
    <3>2. Snapshot(a) \in Snap
      BY <2>3 DEF Snapshot, Snap, TypeOK, b
    <3>3. [snap |-> Snapshot(a), kept |-> k] \in Entries
      BY <3>2, LiteAssumption DEF Entries
    <3>4. file' \in Seq(Entries)
      BY <1>0, <3>1, <3>3
    <3>5. marks' \in Seq(Counts)
      <4>1. marks' = Append(marks, total') /\ marks \in Seq(Counts)
        BY <1>1, <2>4 DEF trace_instr, TypeOK
      <4>. HIDE DEF TypeOK
      <4> QED  BY <2>2, <4>1
    <3> QED  BY <1>1, <2>2, <2>4, <3>4, <3>5
             DEF trace_instr, TypeOK, Call, ClearCounters, Entries, Snap
  <2>5. CASE ~ Beats
    BY <1>1, <2>2, <2>3, <2>5 DEF trace_instr, TypeOK, Call, b
  <2> QED  BY <2>4, <2>5
<1>2. ASSUME NEW a \in Addrs, trace_access(a) PROVE TypeOK'
  <2>. DEFINE b == MBucket(a)
  <2>0. b \in MBuckets
    BY <1>2
  <2>. HIDE DEF b
  <2>1. total' = [total EXCEPT !.Mmap = Plus1(total.Mmap, b)] /\ Mmap' = Counted(Mmap, b)
    BY <1>2 DEF trace_access, b
  <2>2. total' \in Counts
    <3>1. total.Mmap \in [MBuckets -> Nat]
      BY DEF TypeOK, Counts
    <3>2. Plus1(total.Mmap, b) \in [MBuckets -> Nat]
      BY <2>0, <3>1 DEF Plus1
    <3> QED  BY <2>1, <3>2 DEF TypeOK, Counts
  <2>3. Mmap' \in [MBuckets -> UInt]
    BY <2>0, <2>1 DEF Counted, TypeOK
  <2> QED  BY <1>2, <2>2, <2>3 DEF trace_access, TypeOK, Call
<1>3. ASSUME NEW ci \in BOOLEAN, NEW guard \in BOOLEAN, trace_branch_conditional(ci, guard)
      PROVE  TypeOK'
  <2>1. total' \in Counts
    <3>1. total \in Counts
      BY DEF TypeOK
    <3>2. [total EXCEPT !.TBranches = @ + 1] \in Counts
      BY <3>1 DEF Counts
    <3>3. [total EXCEPT !.UBranches = @ + 1] \in Counts
      BY <3>1 DEF Counts
    <3> QED  BY <1>3, <3>2, <3>3 DEF trace_branch_conditional
  <2> QED  BY <1>3, <2>1 DEF trace_branch_conditional, TypeOK, Call
<1>4. CASE cl_fini
  BY <1>4 DEF cl_fini, counters, TypeOK
<1>5. CASE UNCHANGED vars
  BY <1>5 DEF vars, counters, TypeOK
<1> QED  BY <1>1, <1>2, <1>3, <1>4, <1>5 DEF Next

\* Typing holds of the static state cl_post_clo_init starts from.
LEMMA TypeInit == Init => TypeOK
BY BucketTypes DEF Init, TypeOK, NoCounts, Counts

\* ctlite's counters stay in 32 bits and its file holds whole snapshots.
THEOREM LiteTypeCorrect == Spec => []TypeOK
BY TypeInit, TypeInductive, PTL DEF Spec

-----------------------------------------------------------------------------

\* Counting in the counter's width and without bound stay in step (a map).
LEMMA CountedInStep ==
  ASSUME NEW B, NEW c \in [B -> UInt], NEW from \in [B -> Nat], NEW to \in [B -> Nat],
         NEW b \in B, \A x \in B : c[x] = (to[x] - from[x]) % UINT_MOD
  PROVE  \A x \in B : Counted(c, b)[x] = (Plus1(to, b)[x] - from[x]) % UINT_MOD
<1>. SUFFICES ASSUME NEW x \in B
              PROVE  Counted(c, b)[x] = (Plus1(to, b)[x] - from[x]) % UINT_MOD
  OBVIOUS
<1>1. CASE x # b
  BY <1>1 DEF Counted, Plus1
<1>2. CASE x = b
  <2>. DEFINE d == to[b] - from[b]
  <2>1. d \in Int /\ (to[b] + 1) - from[b] = d + 1
    OBVIOUS
  <2>2. Plus1(to, b)[b] = to[b] + 1
    BY DEF Plus1
  <2>3. Counted(c, b)[b] = ((d % UINT_MOD) + 1) % UINT_MOD
    BY DEF Counted, Inc
  <2>. HIDE DEF d
  <2>4. Counted(c, b)[b] = (d + 1) % UINT_MOD
    BY <2>1, <2>3, IncIsModular, LiteAssumption
  <2> QED  BY <1>2, <2>1, <2>2, <2>4
<1> QED  BY <1>1, <1>2

\* The same for a single counter.
LEMMA IncInStep ==
  ASSUME NEW c \in UInt, NEW from \in Nat, NEW to \in Nat,
         c = (to - from) % UINT_MOD
  PROVE  Inc(c) = ((to + 1) - from) % UINT_MOD
<1>. DEFINE d == to - from
<1>1. d \in Int /\ (to + 1) - from = d + 1
  OBVIOUS
<1>2. Inc(c) = ((d % UINT_MOD) + 1) % UINT_MOD
  BY DEF Inc
<1>. HIDE DEF d
<1>3. Inc(c) = (d + 1) % UINT_MOD
  BY <1>1, <1>2, IncIsModular, LiteAssumption
<1> QED  BY <1>1, <1>3

\* Nothing happened between a sum and itself.
LEMMA NothingBetween ==
  ASSUME NEW n \in Nat PROVE (n - n) % UINT_MOD = 0
<1>1. 0 = (0 * UINT_MOD) + 0 /\ 0 \in 0 .. UINT_MOD - 1 /\ UINT_MOD > 0 /\ UINT_MOD \in Nat
  BY LiteAssumption
<1>2. 0 % UINT_MOD = 0
  BY <1>1, RemainderIs
<1> QED  BY <1>2

\* Within an interval the heartbeat's test is true of its last instruction only.
LEMMA BeatAtTheEnd ==
  ASSUME NEW h \in Nat, h > 0, NEW L \in Nat, NEW n \in Nat,
         L * h <= n, n < (L + 1) * h
  PROVE  /\ (n + 1) % h = 0 => n + 1 = (L + 1) * h /\ n + 1 < (L + 2) * h
         /\ (n + 1) % h # 0 => L * h <= n + 1 /\ n + 1 < (L + 1) * h
<1>. DEFINE r == (n + 1) - (L * h)
            z == n + 1
            e == L + 1
<1>1. (L + 1) * h = (L * h) + h /\ (L + 2) * h = (L * h) + h + h
  OBVIOUS
<1>2. r \in 1 .. h /\ z = (L * h) + r /\ z \in Int /\ e \in Int
  <2>1. L * h \in Nat
    OBVIOUS
  <2> QED  BY <2>1, <1>1
<1>3. CASE r < h
  <2>1. r \in 0 .. h - 1
    BY <1>2, <1>3
  <2>. HIDE DEF r, z
  <2>2. z % h = r
    BY <1>2, <2>1, RemainderIs
  <2>3. (n + 1) % h # 0
    BY <1>2, <2>2 DEF z
  <2>4. L * h <= n + 1 /\ n + 1 < (L + 1) * h
    <3>1. L * h \in Nat
      OBVIOUS
    <3> QED  BY <1>1, <1>2, <1>3, <3>1 DEF r
  <2> QED  BY <2>3, <2>4
<1>4. CASE r = h
  <2>1. z = (e * h) + 0 /\ 0 \in 0 .. h - 1
    BY <1>1, <1>2, <1>4
  <2>2. n + 1 = (L + 1) * h /\ n + 1 < (L + 2) * h
    <3>1. L * h \in Nat
      OBVIOUS
    <3> QED  BY <1>1, <1>2, <1>4, <3>1
  <2>. HIDE DEF r, z, e
  <2>3. z % h = 0
    BY <1>2, <2>1, RemainderIs
  <2>4. (n + 1) % h = 0
    BY <2>3 DEF z
  <2> QED  BY <2>2, <2>4
<1>. HIDE DEF r
<1> QED  BY <1>2, <1>3, <1>4

-----------------------------------------------------------------------------

\* The sums at a snapshot are sums.
LEMMA MarkTypes ==
  ASSUME TypeOK PROVE LastMark \in Counts /\ NoCounts \in Counts
<1>1. NoCounts \in Counts
  BY DEF NoCounts, Counts
<1>2. marks \in Seq(Counts) /\ Len(marks) \in Nat
  BY DEF TypeOK
<1>3. Len(marks) > 0 => marks[Len(marks)] \in Counts
  BY <1>2
<1> QED  BY <1>1, <1>2, <1>3 DEF LastMark, MarkBefore

\* A step that leaves the file alone keeps its snapshots.
LEMMA SameFile ==
  ASSUME SnapshotsAreIntervals, UNCHANGED <<file, marks>>,
         Between(Current', LastMark, total')
  PROVE  SnapshotsAreIntervals'
<1>1. MarkBefore(Len(marks) + 1)' = MarkBefore(Len(marks) + 1)
  BY DEF MarkBefore, NoCounts, IBuckets, MBuckets
<1>2. \A k \in 1 .. Len(file) : MarkBefore(k)' = MarkBefore(k)
  BY DEF MarkBefore, NoCounts, IBuckets, MBuckets
<1>3. \A k \in 1 .. Len(file) : Between(file[k].snap, MarkBefore(k)', marks[k])
  BY <1>2 DEF SnapshotsAreIntervals
<1> QED  BY <1>1, <1>3 DEF SnapshotsAreIntervals, Between, LastMark, IBuckets, MBuckets

\* A step that writes a snapshot of the interval and starts the next.
LEMMA NewSnapshot ==
  ASSUME TypeOK, SnapshotsAreIntervals,
         NEW entry, file' = Append(file, entry), marks' = Append(marks, total'),
         total' \in Counts, ClearCounters,
         Between(entry.snap, LastMark, total')
  PROVE  SnapshotsAreIntervals'
<1>. PICK n \in Nat : n = Len(marks)
  BY DEF TypeOK
<1>0. n = Len(marks) /\ Len(file) = n /\ file \in Seq(Entries) /\ marks \in Seq(Counts)
  BY DEF TypeOK, SnapshotsAreIntervals, Entries, Snap
<1>1. Len(file') = n + 1 /\ Len(marks') = n + 1
  BY <1>0
<1>2. \A k \in 1 .. n : file'[k] = file[k] /\ marks'[k] = marks[k]
  BY <1>0
<1>3. file'[n + 1] = entry /\ marks'[n + 1] = total'
  BY <1>0
<1>4. ASSUME NEW k \in 1 .. n + 1 PROVE MarkBefore(k)' = MarkBefore(k)
  <2>1. k # 1 => k - 1 \in 1 .. n
    OBVIOUS
  <2> QED  BY <1>2, <2>1 DEF MarkBefore, NoCounts, IBuckets, MBuckets
<1>5. ASSUME NEW k \in 1 .. n PROVE Between(file'[k].snap, MarkBefore(k)', marks'[k])
  <2>1. MarkBefore(k)' = MarkBefore(k)
    BY <1>4
  <2>2. Between(file[k].snap, MarkBefore(k), marks[k])
    BY <1>0 DEF SnapshotsAreIntervals
  <2> QED  BY <1>2, <2>1, <2>2
<1>6. Between(file'[n + 1].snap, MarkBefore(n + 1)', marks'[n + 1])
  <2>1. MarkBefore(n + 1)' = LastMark
    BY <1>0, <1>4 DEF LastMark
  <2> QED  BY <1>3, <2>1
<1>7. LastMark' = total'
  BY <1>0, <1>1, <1>3 DEF LastMark, MarkBefore
<1>8. Between(Current', LastMark', total')
  <2>1. \A b \in IBuckets : Imap'[b] = (total'.Imap[b] - total'.Imap[b]) % UINT_MOD
    BY NothingBetween DEF ClearCounters, Counts
  <2>2. \A b \in MBuckets : Mmap'[b] = (total'.Mmap[b] - total'.Mmap[b]) % UINT_MOD
    BY NothingBetween DEF ClearCounters, Counts
  <2>3. /\ TBranches' = (total'.TBranches - total'.TBranches) % UINT_MOD
        /\ UBranches' = (total'.UBranches - total'.UBranches) % UINT_MOD
    BY NothingBetween DEF ClearCounters, Counts
  <2> QED  BY <1>7, <2>1, <2>2, <2>3 DEF Between, Current
<1>9. ASSUME NEW k \in 1 .. n + 1
      PROVE  Between(file'[k].snap, MarkBefore(k)', marks'[k])
  <2>1. k \in 1 .. n \/ k = n + 1
    OBVIOUS
  <2> QED  BY <1>5, <1>6, <2>1
<1> QED  BY <1>1, <1>8, <1>9 DEF SnapshotsAreIntervals, Between, IBuckets, MBuckets

\* Every helper, and every step, keeps the intervals.
LEMMA IntervalsInductive ==
  ASSUME TypeOK, TypeOK', SnapshotsAreIntervals, [Next]_vars
  PROVE  SnapshotsAreIntervals'
<1>0. /\ LastMark \in Counts /\ total \in Counts /\ total' \in Counts
      /\ Between(Current, LastMark, total)
  BY MarkTypes DEF TypeOK, SnapshotsAreIntervals
<1>1. ASSUME NEW a \in Ips, trace_instr(a) PROVE SnapshotsAreIntervals'
  <2>. DEFINE b == IBucket(a)
  <2>1. b \in IBuckets /\ total' = [total EXCEPT !.Imap = Plus1(total.Imap, b)]
    BY <1>1, BucketTypes DEF trace_instr
  <2>2. /\ total'.Imap = Plus1(total.Imap, b) /\ total'.Mmap = total.Mmap
        /\ total'.TBranches = total.TBranches /\ total'.UBranches = total.UBranches
    BY <1>0, <2>1 DEF Counts
  <2>. HIDE DEF b
  <2>3. \A x \in IBuckets :
           Counted(Imap, b)[x] = (total'.Imap[x] - LastMark.Imap[x]) % UINT_MOD
    <3>1. /\ Imap \in [IBuckets -> UInt]
          /\ LastMark.Imap \in [IBuckets -> Nat] /\ total.Imap \in [IBuckets -> Nat]
          /\ \A x \in IBuckets : Imap[x] = (total.Imap[x] - LastMark.Imap[x]) % UINT_MOD
      BY <1>0 DEF TypeOK, Counts, Between, Current
    <3> QED  BY <2>1, <2>2, <3>1, CountedInStep
  <2>4. CASE Beats
    <3>1. PICK k \in Kept : file' = Append(file, [snap |-> Snapshot(a), kept |-> k])
      BY <1>1, <2>4 DEF trace_instr
    <3>2. Between(Snapshot(a), LastMark, total')
      BY <1>0, <2>2, <2>3 DEF Between, Snapshot, Current, b
    <3>3. marks' = Append(marks, total') /\ ClearCounters
      BY <1>1, <2>4 DEF trace_instr
    <3> QED  BY <1>0, <3>1, <3>2, <3>3, NewSnapshot
  <2>5. CASE ~ Beats
    <3>1. /\ Imap' = Counted(Imap, b)
          /\ UNCHANGED <<Mmap, TBranches, UBranches, file, marks>>
      BY <1>1, <2>5 DEF trace_instr, b
    <3>2. Between(Current', LastMark, total')
      BY <1>0, <2>2, <2>3, <3>1 DEF Between, Current
    <3> QED  BY <3>1, <3>2, SameFile
  <2> QED  BY <2>4, <2>5
<1>2. ASSUME NEW a \in Addrs, trace_access(a) PROVE SnapshotsAreIntervals'
  <2>. DEFINE b == MBucket(a)
  <2>1. /\ b \in MBuckets /\ total' = [total EXCEPT !.Mmap = Plus1(total.Mmap, b)]
        /\ Mmap' = Counted(Mmap, b)
        /\ UNCHANGED <<Imap, TBranches, UBranches, file, marks>>
    BY <1>2, BucketTypes DEF trace_access
  <2>2. /\ total'.Mmap = Plus1(total.Mmap, b) /\ total'.Imap = total.Imap
        /\ total'.TBranches = total.TBranches /\ total'.UBranches = total.UBranches
    BY <1>0, <2>1 DEF Counts
  <2>. HIDE DEF b
  <2>3. \A x \in MBuckets :
           Counted(Mmap, b)[x] = (total'.Mmap[x] - LastMark.Mmap[x]) % UINT_MOD
    <3>1. /\ Mmap \in [MBuckets -> UInt]
          /\ LastMark.Mmap \in [MBuckets -> Nat] /\ total.Mmap \in [MBuckets -> Nat]
          /\ \A x \in MBuckets : Mmap[x] = (total.Mmap[x] - LastMark.Mmap[x]) % UINT_MOD
      BY <1>0 DEF TypeOK, Counts, Between, Current
    <3> QED  BY <2>1, <2>2, <3>1, CountedInStep
  <2>4. Between(Current', LastMark, total')
    BY <1>0, <2>1, <2>2, <2>3 DEF Between, Current
  <2> QED  BY <2>1, <2>4, SameFile
<1>3. ASSUME NEW ci \in BOOLEAN, NEW guard \in BOOLEAN, trace_branch_conditional(ci, guard)
      PROVE  SnapshotsAreIntervals'
  <2>1. /\ TBranches \in UInt /\ UBranches \in UInt
        /\ LastMark.TBranches \in Nat /\ total.TBranches \in Nat
        /\ LastMark.UBranches \in Nat /\ total.UBranches \in Nat
        /\ TBranches = (total.TBranches - LastMark.TBranches) % UINT_MOD
        /\ UBranches = (total.UBranches - LastMark.UBranches) % UINT_MOD
    BY <1>0 DEF TypeOK, Counts, Between, Current
  <2>2. /\ Inc(TBranches) = ((total.TBranches + 1) - LastMark.TBranches) % UINT_MOD
        /\ Inc(UBranches) = ((total.UBranches + 1) - LastMark.UBranches) % UINT_MOD
    BY <2>1, IncInStep
  <2>3. UNCHANGED <<Imap, Mmap, file, marks>>
    BY <1>3 DEF trace_branch_conditional
  <2>4. CASE guard # ci
    <3>1. /\ TBranches' = Inc(TBranches) /\ UBranches' = UBranches
          /\ total' = [total EXCEPT !.TBranches = @ + 1]
      BY <1>3, <2>4 DEF trace_branch_conditional
    <3>2. /\ total'.TBranches = total.TBranches + 1 /\ total'.UBranches = total.UBranches
          /\ total'.Imap = total.Imap /\ total'.Mmap = total.Mmap
      BY <1>0, <3>1 DEF Counts
    <3>3. Between(Current', LastMark, total')
      BY <1>0, <2>2, <2>3, <3>1, <3>2 DEF Between, Current
    <3> QED  BY <2>3, <3>3, SameFile
  <2>5. CASE ~ (guard # ci)
    <3>1. /\ UBranches' = Inc(UBranches) /\ TBranches' = TBranches
          /\ total' = [total EXCEPT !.UBranches = @ + 1]
      BY <1>3, <2>5 DEF trace_branch_conditional
    <3>2. /\ total'.UBranches = total.UBranches + 1 /\ total'.TBranches = total.TBranches
          /\ total'.Imap = total.Imap /\ total'.Mmap = total.Mmap
      BY <1>0, <3>1 DEF Counts
    <3>3. Between(Current', LastMark, total')
      BY <1>0, <2>2, <2>3, <3>1, <3>2 DEF Between, Current
    <3> QED  BY <2>3, <3>3, SameFile
  <2> QED  BY <2>4, <2>5
<1>4. CASE cl_fini \/ UNCHANGED vars
  <2>1. UNCHANGED <<Imap, Mmap, TBranches, UBranches, file, marks, total>>
    BY <1>4 DEF cl_fini, vars, counters
  <2>2. Between(Current', LastMark, total')
    BY <1>0, <2>1 DEF Between, Current
  <2> QED  BY <2>1, <2>2, SameFile
<1> QED  BY <1>1, <1>2, <1>3, <1>4 DEF Next

\* Only trace_instr moves the instruction counter and the file's length.
LEMMA BeatInductive ==
  ASSUME TypeOK, OnTheBeat, [Next]_vars
  PROVE  OnTheBeat'
<1>. PICK L \in Nat : L = Len(file)
  BY DEF TypeOK
<1>0. /\ file \in Seq(Entries) /\ L = Len(file) /\ instructions \in Nat
      /\ heartbeat \in Nat /\ heartbeat > 0
      /\ L * heartbeat <= instructions /\ instructions < (L + 1) * heartbeat
  BY LiteAssumption DEF TypeOK, OnTheBeat, Entries, Snap
<1>1. ASSUME NEW a \in Ips, trace_instr(a) PROVE OnTheBeat'
  <2>0. instructions' = instructions + 1
    BY <1>1 DEF trace_instr
  <2>1. CASE Beats
    <3>1. PICK k \in Kept : file' = Append(file, [snap |-> Snapshot(a), kept |-> k])
      BY <1>1, <2>1 DEF trace_instr
    <3>2. /\ instructions + 1 = (L + 1) * heartbeat
          /\ instructions + 1 < (L + 2) * heartbeat
      BY <1>0, <2>1, BeatAtTheEnd DEF Beats
    <3>3. Len(file') = L + 1 /\ \A i \in 1 .. L : file'[i] = file[i]
      BY <1>0, <3>1
    <3>4. file'[L + 1].snap.instructions = (L + 1) * heartbeat
      <4>1. file'[L + 1] = [snap |-> Snapshot(a), kept |-> k]
        BY <1>0, <3>1
      <4>2. file'[L + 1].snap = Snapshot(a)
        BY <4>1
      <4> QED  BY <3>2, <4>2 DEF Snapshot
    <3>5. ASSUME NEW i \in 1 .. L + 1
          PROVE  file'[i].snap.instructions = i * heartbeat
      <4>1. i \in 1 .. L \/ i = L + 1
        OBVIOUS
      <4>2. \A j \in 1 .. L : file[j].snap.instructions = j * heartbeat
        BY <1>0 DEF OnTheBeat
      <4> QED  BY <3>3, <3>4, <4>1, <4>2
    <3>6. (L + 1) + 1 = L + 2 /\ (L + 1) * heartbeat <= instructions'
      BY <1>0, <2>0, <3>2
    <3> QED  BY <2>0, <3>2, <3>3, <3>5, <3>6 DEF OnTheBeat
  <2>2. CASE ~ Beats
    <3>1. UNCHANGED file
      BY <1>1, <2>2 DEF trace_instr
    <3>2. L * heartbeat <= instructions + 1 /\ instructions + 1 < (L + 1) * heartbeat
      BY <1>0, <2>2, BeatAtTheEnd DEF Beats
    <3> QED  BY <1>0, <2>0, <3>1, <3>2 DEF OnTheBeat
  <2> QED  BY <2>1, <2>2
<1>2. CASE UNCHANGED <<instructions, file>>
  BY <1>2 DEF OnTheBeat
<1>3. (\E a \in Ips : trace_instr(a)) \/ UNCHANGED <<instructions, file>>
  BY DEF Next, trace_access, trace_branch_conditional, cl_fini, vars, counters
<1> QED  BY <1>1, <1>2, <1>3

\* The empty file is what both properties ask of no instruction.
LEMMA LiteStarts == Init => SnapshotsAreIntervals /\ OnTheBeat
<1>. SUFFICES ASSUME Init PROVE SnapshotsAreIntervals /\ OnTheBeat
  OBVIOUS
<1>1. Len(file) = 0 /\ Len(marks) = 0 /\ instructions = 0
  BY DEF Init
<1>2. OnTheBeat
  BY <1>1, LiteAssumption DEF OnTheBeat
<1>3. LastMark = NoCounts /\ total = NoCounts
  BY <1>1 DEF LastMark, MarkBefore, Init
<1>4. Between(Current, NoCounts, NoCounts)
  BY NothingBetween DEF Between, Current, NoCounts, Init
<1> QED  BY <1>1, <1>2, <1>3, <1>4 DEF SnapshotsAreIntervals

\* For every heartbeat, size of the maps and width of the counters: a snapshot
\* of ctlite's file counts what happened since the one before, and the
\* counters what happened since the last.
THEOREM IntervalsCorrect == Spec => []SnapshotsAreIntervals
<1>1. TypeOK /\ SnapshotsAreIntervals /\ [Next]_vars
        => TypeOK' /\ SnapshotsAreIntervals'
  BY TypeInductive, IntervalsInductive
<1> QED  BY <1>1, TypeInit, LiteStarts, PTL DEF Spec

\* For every heartbeat: the k-th snapshot is written by the k * heartbeat-th
\* instruction and by no other.
THEOREM BeatCorrect == Spec => []OnTheBeat
<1>1. TypeOK /\ OnTheBeat /\ [Next]_vars => TypeOK' /\ OnTheBeat'
  BY TypeInductive, BeatInductive
<1> QED  BY <1>1, TypeInit, LiteStarts, PTL DEF Spec

=============================================================================
