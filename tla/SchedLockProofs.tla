-------------------------- MODULE SchedLockProofs --------------------------
(***************************************************************************)
(* Both scheduler locks keep threads apart, and the ticket lock keeps them *)
(* in order and loses no wake-up, for any number of threads (fewer than    *)
(* 2^32) and futexes.                                                      *)
(*                                                                         *)
(* What the futexes hold decides when a thread sleeps, never when it       *)
(* enters, so TicketInv says nothing of them: the tickets from head up to  *)
(* tail are held by as many different threads, and the thread at head is   *)
(* the only one that can be past its check.  WakeInv, in the last part, is *)
(* about the futexes.                                                      *)
(***************************************************************************)
EXTENDS SchedLock, FiniteSetTheorems, TLAPS

\* The places of the ticket lock where a thread's turn has come.
Served == {"own", "held", "inc"}

TicketPCs == {"out", "read", "check", "wait", "asleep", "tail", "bump", "wake"} \union Served

OwnerInv ==
  /\ owner \in Threads \union {None}
  /\ \A t \in Threads : pc[t] = "held" <=> owner = t

TicketInv ==
  /\ head \in UInt /\ tail \in UInt
  /\ ticket \in [Threads -> UInt]
  /\ pc \in [Threads -> TicketPCs]
  /\ Distance(tail) = Cardinality(InLine)
  /\ \A t \in InLine : Distance(ticket[t]) < Distance(tail)
  /\ \A t, u \in InLine : ticket[t] = ticket[u] => t = u
  /\ \A t \in Threads : pc[t] \in Served => ticket[t] = head
  /\ OwnerInv

\* Where the token is, when it is not in the pipe.
Token == {"got", "held", "up"}

SemaInv ==
  /\ pc \in [Threads -> {"out", "down"} \union Token]
  /\ pipe \in Seq(Nat) /\ Len(pipe) <= 1 /\ sema_char \in Nat
  /\ pipe # <<>> => \A t \in Threads : pc[t] \notin Token
  /\ \A t, u \in Threads : pc[t] \in Token /\ pc[u] \in Token => t = u
  /\ OwnerInv

IInv ==
  /\ sched_lock_ops \in {"ticket", "generic"}
  /\ sched_lock_ops = "ticket" => TicketInv
  /\ sched_lock_ops = "generic" => SemaInv

\* Adding one to an unsigned.
LEMMA Plus1Is ==
  ASSUME NEW n \in UInt
  PROVE  Plus1(n) = IF n = UINT_MOD - 1 THEN 0 ELSE n + 1
BY LockAssumption DEF UInt, Plus1

\* The threads in line are finitely many.
LEMMA InLineFinite ==
  /\ IsFiniteSet(InLine)
  /\ Cardinality(InLine) \in Nat
  /\ InLine \subseteq Threads
<1>1. InLine \subseteq Threads
  BY DEF InLine
<1>2. IsFiniteSet(InLine)
  BY <1>1, FS_Subset, LockAssumption
<1> QED  BY <1>1, <1>2, FS_CardinalityType

\* A step that hands out no ticket and serves none keeps the tickets in order.
LEMMA Quiet ==
  ASSUME TicketInv, UNCHANGED <<head, tail, ticket>>, InLine' = InLine,
         pc' \in [Threads -> TicketPCs],
         \A t \in Threads : pc'[t] \in Served => ticket[t] = head,
         OwnerInv'
  PROVE  TicketInv'
BY DEF TicketInv, Distance

\* Taking a ticket: there are fewer tickets out than values of an unsigned,
\* so the new one differs from all of them.
LEMMA TakeTicketInv ==
  ASSUME TicketInv, NEW t \in Threads, TakeTicket(t)
  PROVE  TicketInv'
<1>. USE DEF TakeTicket, Goto
<1>1. t \notin InLine /\ InLine' = InLine \union {t}
  BY DEF TicketInv, InLine
<1>2. Cardinality(InLine') = Cardinality(InLine) + 1
  BY <1>1, InLineFinite, FS_AddElement
<1>3. Cardinality(InLine') <= Cardinality(Threads)
  <2>1. InLine' \subseteq Threads
    BY <1>1, InLineFinite
  <2> QED  BY <2>1, FS_Subset, LockAssumption
<1>4. Cardinality(InLine) + 1 <= UINT_MOD - 1
  BY <1>2, <1>3, InLineFinite, LockAssumption, FS_CardinalityType
<1>5. tail' \in UInt /\ Distance(tail)' = Distance(tail) + 1
  BY <1>4, Plus1Is, InLineFinite, LockAssumption DEF TicketInv, UInt, Distance
<1>6. \A u \in InLine : ticket'[u] = ticket[u] /\ Distance(ticket[u])' = Distance(ticket[u])
  BY <1>1, InLineFinite DEF TicketInv, Distance
<1>7. ticket'[t] = tail /\ Distance(ticket[t])' = Distance(tail)
  BY DEF TicketInv, Distance
<1>8. \A u \in InLine' : Distance(ticket[u])' < Distance(tail)'
  <2>. Distance(tail) \in Int /\ \A u \in InLine : Distance(ticket[u]) \in Int
    BY InLineFinite, LockAssumption DEF TicketInv, Distance, UInt
  <2> QED  BY <1>1, <1>5, <1>6, <1>7, InLineFinite DEF TicketInv
<1>9. \A u, v \in InLine' : ticket'[u] = ticket'[v] => u = v
  <2>0. Distance(tail) \in Int
    BY LockAssumption DEF TicketInv, Distance, UInt
  <2>1. \A u \in InLine : ticket[u] # tail
    BY <2>0 DEF TicketInv
  <2> QED  BY <1>1, <1>6, <1>7, <2>1 DEF TicketInv
<1>10. \A u \in Threads : pc'[u] \in Served => ticket'[u] = head'
  BY DEF TicketInv, Served
<1>11. OwnerInv'
  BY DEF TicketInv, OwnerInv
<1>12. /\ head' \in UInt /\ ticket' \in [Threads -> UInt]
       /\ pc' \in [Threads -> TicketPCs]
  BY DEF TicketInv, TicketPCs
<1> QED  BY <1>2, <1>5, <1>8, <1>9, <1>10, <1>11, <1>12 DEF TicketInv

\* Serving the next ticket: everybody left in line comes one closer.
LEMMA IncHeadInv ==
  ASSUME TicketInv, NEW t \in Threads, IncHead(t)
  PROVE  TicketInv'
<1>. USE DEF IncHead, Goto, Reset
<1>1. t \in InLine /\ InLine' = InLine \ {t} /\ ticket[t] = head
  BY DEF TicketInv, InLine, Served
<1>2. Cardinality(InLine') = Cardinality(InLine) - 1
  BY <1>1, InLineFinite, FS_RemoveElement
<1>3. \A n \in UInt : n # head => Distance(n)' = Distance(n) - 1 /\ Distance(n) \in Nat
  BY Plus1Is, LockAssumption DEF TicketInv, UInt, Distance
<1>4. tail # head
  BY <1>1 DEF TicketInv, Distance, UInt
<1>5. \A u \in InLine' : ticket'[u] = ticket[u] /\ ticket[u] # head /\ ticket[u] \in UInt
  BY <1>1, InLineFinite DEF TicketInv
<1>6. \A u \in InLine' : Distance(ticket[u])' = Distance(ticket[u]) - 1
  BY <1>3, <1>5 DEF Distance
<1>7. Distance(tail)' = Distance(tail) - 1
  BY <1>3, <1>4 DEF TicketInv, Distance
<1>8. \A u \in InLine' : Distance(ticket[u])' < Distance(tail)'
  <2>. \A u \in InLine' : Distance(ticket[u]) < Distance(tail)
    BY <1>1 DEF TicketInv
  <2> QED  BY <1>3, <1>4, <1>5, <1>6, <1>7 DEF TicketInv
<1>9. \A u, v \in InLine' : ticket'[u] = ticket'[v] => u = v
  BY <1>1, <1>5 DEF TicketInv
<1>10. \A u \in Threads : pc'[u] \notin Served
  BY <1>1, <1>5 DEF TicketInv, Served, InLine
<1>11. OwnerInv'
  BY DEF TicketInv, OwnerInv
<1>12. /\ head' \in UInt /\ tail' \in UInt /\ ticket' \in [Threads -> UInt]
       /\ pc' \in [Threads -> TicketPCs]
  BY Plus1Is, LockAssumption DEF TicketInv, TicketPCs, UInt
<1>13. Distance(tail)' = Cardinality(InLine')
  BY <1>2, <1>7 DEF TicketInv
<1> QED  BY <1>8, <1>9, <1>10, <1>11, <1>12, <1>13 DEF TicketInv

\* Every step of the ticket lock keeps its invariant.
LEMMA TicketStep ==
  ASSUME TicketInv, TicketNext
  PROVE  TicketInv'
<1>1. PICK t \in Threads : Acquire(t) \/ Release(t)
  BY DEF TicketNext
<1>. USE DEF Goto, Reset
<1>2. CASE TakeTicket(t)
  BY <1>2, TakeTicketInv
<1>3. CASE ReadFutex(t) \/ CheckHead(t) \/ FutexWait(t) \/ Spurious(t) \/ CheckTail(t) \/ BumpFutex(t)
  <2>. USE <1>3 DEF ReadFutex, CheckHead, FutexWait, Spurious, CheckTail, BumpFutex
  <2>1. UNCHANGED <<head, tail, ticket, owner>>
    OBVIOUS
  <2>2. pc' \in [Threads -> TicketPCs]
    BY DEF TicketInv, TicketPCs, Served
  <2>3. InLine' = InLine
    BY DEF TicketInv, InLine
  <2>4. \A u \in Threads : pc'[u] \in Served => ticket[u] = head
    BY DEF TicketInv, Served
  <2>5. OwnerInv'
    BY DEF TicketInv, OwnerInv
  <2> QED  BY <2>1, <2>2, <2>3, <2>4, <2>5, Quiet
<1>4. CASE Own(t) \/ ClearOwner(t)
  <2>. USE <1>4 DEF Own, ClearOwner
  <2>1. UNCHANGED <<head, tail, ticket>>
    OBVIOUS
  <2>2. pc' \in [Threads -> TicketPCs]
    BY DEF TicketInv, TicketPCs, Served
  <2>3. InLine' = InLine
    BY DEF TicketInv, InLine
  <2>4. \A u \in Threads : pc'[u] \in Served => ticket[u] = head
    BY DEF TicketInv, Served
  <2>5. \A u \in Threads : pc[u] = "held" => u = t
    <3>1. \A u \in Threads : pc[u] \in Served => u \in InLine
      BY DEF InLine, Served
    <3> QED  BY <3>1 DEF TicketInv, Served
  <2>6. OwnerInv'
    BY <2>5, LockAssumption DEF TicketInv, OwnerInv
  <2> QED  BY <2>1, <2>2, <2>3, <2>4, <2>6, Quiet
<1>5. CASE IncHead(t)
  BY <1>5, IncHeadInv
<1>6. CASE Wake(t)
  <2>. USE <1>6 DEF Wake
  <2>1. UNCHANGED <<head, tail, ticket, owner>>
    OBVIOUS
  <2>2. pc' \in [Threads -> TicketPCs]
    BY DEF TicketInv, TicketPCs, Served
  <2>3. InLine' = InLine
    BY DEF TicketInv, InLine
  <2>4. \A u \in Threads : pc'[u] \in Served => ticket[u] = head
    BY DEF TicketInv, Served
  <2>5. OwnerInv'
    BY DEF TicketInv, OwnerInv
  <2> QED  BY <2>1, <2>2, <2>3, <2>4, <2>5, Quiet
<1> QED  BY <1>1, <1>2, <1>3, <1>4, <1>5, <1>6 DEF Acquire, Release

\* Every step of the semaphore keeps its invariant: the token is in the pipe
\* or with one thread.
LEMMA SemaStep ==
  ASSUME SemaInv, SemaNext
  PROVE  SemaInv'
<1>1. PICK t \in Threads : Down(t) \/ ReadToken(t) \/ Got(t) \/ Up(t) \/ WriteToken(t)
  BY DEF SemaNext
<1>. USE DEF SemaInv, OwnerInv, Token, Goto
<1>2. CASE Down(t)
  BY <1>2 DEF Down
<1>3. CASE ReadToken(t)
  <2>1. pipe' \in Seq(Nat) /\ pipe' = <<>> /\ Len(pipe') <= 1
    BY <1>3 DEF ReadToken
  <2> QED  BY <1>3, <2>1 DEF ReadToken
<1>4. CASE Got(t)
  <2>1. sema_char' \in Nat
    BY <1>4, CharsAssumption DEF Got
  <2>2. \A u \in Threads : pc[u] # "held"
    BY <1>4 DEF Got
  <2>3. OwnerInv'
    BY <1>4, <2>2 DEF Got
  <2> QED  BY <1>4, <2>1, <2>3 DEF Got
<1>5. CASE Up(t)
  <2>1. \A u \in Threads : pc[u] = "held" => u = t
    BY <1>5 DEF Up
  <2>2. OwnerInv'
    BY <1>5, <2>1, LockAssumption DEF Up
  <2> QED  BY <1>5, <2>2 DEF Up
<1>6. CASE WriteToken(t)
  <2>1. pipe = <<>>
    BY <1>6 DEF WriteToken
  <2>2. pipe' \in Seq(Nat) /\ Len(pipe') <= 1
    BY <1>6, <2>1 DEF WriteToken
  <2>3. \A u \in Threads : pc'[u] \notin Token
    BY <1>6 DEF WriteToken
  <2> QED  BY <1>6, <2>2, <2>3 DEF WriteToken
<1> QED  BY <1>1, <1>2, <1>3, <1>4, <1>5, <1>6

\* The invariant holds in every behaviour of either lock.
THEOREM LockInvariant == SchedSpec => []IInv
<1>1. SchedInit => IInv
  <2>1. SUFFICES ASSUME SchedInit PROVE IInv
    OBVIOUS
  <2>2. sched_lock_ops \in {"ticket", "generic"}
    BY <2>1 DEF SchedInit, set_sched_lock_impl
  <2>3. OwnerInv
    BY <2>1, LockAssumption DEF SchedInit, OwnerInv
  <2>4. InLine = {} /\ Cardinality(InLine) = 0
    BY <2>1, FS_EmptySet DEF SchedInit, InLine
  <2>5. TicketInv
    BY <2>1, <2>3, <2>4, LockAssumption, FS_CardinalityType
      DEF SchedInit, TicketInit, TicketInv, TicketPCs, Served, UInt, Distance
  <2>6. SemaInv
    <3>1. pipe \in Seq(Nat) /\ Len(pipe) = 1
      BY <2>1 DEF SchedInit, SemaInit
    <3>2. sema_char \in Nat
      BY <2>1, CharsAssumption DEF SchedInit, SemaInit
    <3> QED  BY <2>1, <2>3, <3>1, <3>2 DEF SchedInit, SemaInv, Token
  <2> QED  BY <2>2, <2>5, <2>6 DEF IInv
<1>2. IInv /\ [SchedNext]_schedVars => IInv'
  <2>1. SUFFICES ASSUME IInv, [SchedNext]_schedVars PROVE IInv'
    OBVIOUS
  <2>2. CASE Ticket
    BY <2>1, <2>2, TicketStep DEF IInv, Ticket
  <2>3. CASE Generic
    BY <2>1, <2>3, SemaStep DEF IInv, Generic
  <2>4. CASE UNCHANGED schedVars
    BY <2>1, <2>4 DEF schedVars, ticketVars, semaVars, IInv, TicketInv, SemaInv, OwnerInv,
      InLine, Distance
  <2> QED  BY <2>1, <2>2, <2>3, <2>4 DEF SchedNext
<1> QED  BY <1>1, <1>2, PTL DEF SchedSpec

\* No assertion on the owner fails, in either lock: see OwnerAsserts.
THEOREM OwnerAssertsHold == SchedSpec => []OwnerAsserts
<1>1. IInv => OwnerAsserts
  <2>1. SUFFICES ASSUME IInv, NEW t \in Threads
                 PROVE  /\ pc[t] = "own" => owner = None
                        /\ pc[t] = "held" => owner = t
                        /\ pc[t] = "out" => owner # t
    BY DEF OwnerAsserts
  <2>2. OwnerInv
    BY <2>1 DEF IInv, TicketInv, SemaInv
  <2>3. ASSUME pc[t] = "own", owner # None PROVE FALSE
    <3>1. owner \in Threads /\ pc[owner] = "held"
      BY <2>2, <2>3 DEF OwnerInv
    <3>2. TicketInv
      BY <2>1, <2>3 DEF IInv, SemaInv, Token
    <3>3. t \in InLine /\ owner \in InLine /\ ticket[t] = head /\ ticket[owner] = head
      BY <2>3, <3>1, <3>2 DEF TicketInv, InLine, Served
    <3>4. t = owner
      BY <3>2, <3>3 DEF TicketInv
    <3> QED  BY <2>3, <3>1, <3>4
  <2> QED  BY <2>2, <2>3 DEF OwnerInv
<1> QED  BY <1>1, LockInvariant, PTL

\* Steps that neither take nor serve a ticket change nothing the abstract
\* lock sees.
LEMMA QuietAhead ==
  ASSUME UNCHANGED <<head, ticket>>, InLine' = InLine
  PROVE  [u \in Threads |-> Ahead(u)]' = [u \in Threads |-> Ahead(u)]
BY DEF Ahead, Distance

\* A new ticket is behind all others.
LEMMA ArriveRefined ==
  ASSUME TicketInv, NEW t \in Threads, TakeTicket(t)
  PROVE  Fair!Arrive(t)
<1>. USE DEF TakeTicket, Goto
<1>1. t \notin InLine /\ InLine' = InLine \union {t} /\ TicketInside' = TicketInside
  BY DEF TicketInv, InLine, TicketInside
<1>2. \A u \in InLine : u # t /\ u \in Threads /\ ticket'[u] = ticket[u]
  BY <1>1, InLineFinite DEF TicketInv
<1>3. \A n : Distance(n)' = Distance(n)
  BY DEF Distance
<1>4. ticket'[t] = tail
  BY DEF TicketInv
<1>5. Distance(tail) \in Int /\ \A u \in InLine : Distance(ticket[u]) \in Int
  BY InLineFinite, LockAssumption DEF TicketInv, Distance, UInt
<1>6. Ahead(t)' = InLine
  <2>1. Ahead(t)' = {u \in InLine' : Distance(ticket'[u]) < Distance(tail)}
    BY <1>1, <1>3, <1>4 DEF Ahead, Distance
  <2> QED  BY <1>1, <1>2, <1>4, <1>5, <2>1 DEF TicketInv
<1>7. ASSUME NEW u \in Threads, u # t PROVE Ahead(u)' = Ahead(u)
  <2>1. CASE u \notin InLine
    BY <1>1, <1>7, <2>1 DEF Ahead
  <2>2. CASE u \in InLine
    <3>1. Ahead(u)' = {v \in InLine' : Distance(ticket'[v]) < Distance(ticket[u])}
      BY <1>1, <1>2, <2>2 DEF Ahead, Distance
    <3>2. ~ (Distance(tail) < Distance(ticket[u]))
      BY <1>5, <2>2 DEF TicketInv
    <3> QED  BY <1>1, <1>2, <1>4, <2>2, <3>1, <3>2 DEF Ahead
  <2> QED  BY <2>1, <2>2
<1>8. [u \in Threads |-> Ahead(u)]' = [[u \in Threads |-> Ahead(u)] EXCEPT ![t] = InLine]
  BY <1>6, <1>7
<1> QED  BY <1>1, <1>8 DEF Fair!Arrive

\* The thread that becomes the owner is first, and nobody is inside.
LEMMA EnterRefined ==
  ASSUME TicketInv, NEW t \in Threads, Own(t)
  PROVE  Fair!Enter(t)
<1>. USE DEF Own, Goto
<1>1. t \in InLine /\ InLine' = InLine /\ ticket[t] = head
  BY DEF TicketInv, InLine, Served
<1>2. TicketInside = {}
  <2>1. \A u \in TicketInside : u \in InLine /\ ticket[u] = head /\ u # t
    BY DEF TicketInv, TicketInside, InLine, Served
  <2> QED  BY <1>1, <2>1 DEF TicketInv
<1>3. TicketInside' = {t}
  BY <1>2 DEF TicketInv, TicketInside
<1>4. Ahead(t) = {}
  <2>1. Distance(ticket[t]) = 0 /\ \A u \in InLine : Distance(ticket[u]) \in Nat
    BY <1>1, InLineFinite, LockAssumption DEF TicketInv, Distance, UInt
  <2> QED  BY <1>1, <2>1 DEF Ahead
<1>5. [u \in Threads |-> Ahead(u)]' = [u \in Threads |-> Ahead(u)]
  BY <1>1, QuietAhead
<1> QED  BY <1>1, <1>2, <1>3, <1>4, <1>5 DEF Fair!Enter

\* Whoever gives the lock back was first, and the others keep their order.
LEMMA LeaveRefined ==
  ASSUME TicketInv, NEW t \in Threads, IncHead(t)
  PROVE  Fair!Leave(t)
<1>. USE DEF IncHead, Goto, Reset
<1>1. t \in InLine /\ InLine' = InLine \ {t} /\ ticket[t] = head
  BY DEF TicketInv, InLine, Served
<1>2. t \in TicketInside /\ TicketInside' = TicketInside \ {t}
  BY DEF TicketInv, TicketInside
<1>3. \A n \in UInt : n # head => Distance(n)' = Distance(n) - 1 /\ Distance(n) \in Nat \ {0}
  BY Plus1Is, LockAssumption DEF TicketInv, UInt, Distance
<1>4. \A u \in InLine' : u \in Threads /\ ticket'[u] = ticket[u] /\ ticket[u] # head /\ ticket[u] \in UInt
  BY <1>1, InLineFinite DEF TicketInv
<1>5. \A u \in InLine' : Distance(ticket[u])' = Distance(ticket[u]) - 1 /\ Distance(ticket[u]) \in Nat \ {0}
  BY <1>3, <1>4 DEF Distance
<1>6. Distance(ticket[t]) = 0
  BY <1>1, LockAssumption DEF TicketInv, Distance, UInt
<1>7. ASSUME NEW u \in Threads PROVE Ahead(u)' = Ahead(u) \ {t}
  <2>1. CASE u \notin InLine
    BY <1>1, <2>1 DEF Ahead
  <2>2. CASE u = t
    <3>1. Ahead(t) = {}
      BY <1>1, <1>5, <1>6 DEF Ahead
    <3> QED  BY <1>1, <2>2, <3>1 DEF Ahead
  <2>3. CASE u \in InLine'
    <3>1. Ahead(u)' = {v \in InLine' : Distance(ticket[v])' < Distance(ticket[u])'}
      BY <2>3 DEF Ahead
    <3>2. Ahead(u) = {v \in InLine : Distance(ticket[v]) < Distance(ticket[u])}
      BY <1>1, <2>3 DEF Ahead
    <3> QED  BY <1>1, <1>5, <2>3, <3>1, <3>2
  <2> QED  BY <1>1, <2>1, <2>2, <2>3
<1>8. [u \in Threads |-> Ahead(u)]' = [u \in Threads |-> [v \in Threads |-> Ahead(v)][u] \ {t}]
  BY <1>7
<1> QED  BY <1>1, <1>2, <1>8 DEF Fair!Leave

\* Every step of the ticket lock is a step of the fair lock, or none.
LEMMA TicketRefined ==
  ASSUME TicketInv, TicketNext
  PROVE  Fair!LockNext \/ UNCHANGED Fair!lockVars
<1>1. PICK t \in Threads : Acquire(t) \/ Release(t)
  BY DEF TicketNext
<1>2. CASE TakeTicket(t)
  BY <1>2, ArriveRefined DEF Fair!LockNext
<1>3. CASE Own(t)
  BY <1>3, EnterRefined DEF Fair!LockNext
<1>4. CASE IncHead(t)
  BY <1>4, LeaveRefined DEF Fair!LockNext
<1>5. CASE \/ ReadFutex(t) \/ CheckHead(t) \/ FutexWait(t) \/ Spurious(t)
           \/ ClearOwner(t) \/ CheckTail(t) \/ BumpFutex(t) \/ Wake(t)
  <2>. USE <1>5 DEF ReadFutex, CheckHead, FutexWait, Spurious, ClearOwner, CheckTail,
       BumpFutex, Wake, Goto, Reset
  <2>1. UNCHANGED <<head, ticket>>
    OBVIOUS
  <2>2. InLine' = InLine /\ TicketInside' = TicketInside
    BY DEF TicketInv, InLine, TicketInside
  <2> QED  BY <2>1, <2>2, QuietAhead DEF Fair!lockVars
<1> QED  BY <1>1, <1>2, <1>3, <1>4, <1>5 DEF Acquire, Release

\* Every step of the semaphore is a step of a lock without order, or none.
LEMMA SemaRefined ==
  ASSUME SemaInv, SemaNext
  PROVE  Unordered!LockNext \/ UNCHANGED Unordered!lockVars
<1>1. PICK t \in Threads : Down(t) \/ ReadToken(t) \/ Got(t) \/ Up(t) \/ WriteToken(t)
  BY DEF SemaNext
<1>. DEFINE line == {u \in Threads : pc[u] # "out"}
            none == [u \in Threads |-> {}]
<1>. USE DEF Goto
<1>2. CASE Down(t)
  <2>1. line' = line \union {t} /\ t \notin line /\ SemaInside' = SemaInside
    BY <1>2 DEF SemaInv, Down, SemaInside
  <2>2. none = [none EXCEPT ![t] = {}]
    OBVIOUS
  <2>3. Unordered!Arrive(t)
    BY <2>1, <2>2 DEF Unordered!Arrive
  <2> QED  BY <2>3 DEF Unordered!LockNext
<1>3. CASE Got(t)
  <2>1. line' = line /\ t \in line /\ SemaInside = {} /\ SemaInside' = {t}
    BY <1>3 DEF SemaInv, Got, SemaInside, Token
  <2>2. Unordered!Enter(t)
    BY <2>1 DEF Unordered!Enter
  <2> QED  BY <2>2 DEF Unordered!LockNext
<1>4. CASE WriteToken(t)
  <2>1. line' = line \ {t} /\ t \in SemaInside /\ SemaInside' = SemaInside \ {t}
    BY <1>4 DEF SemaInv, WriteToken, SemaInside
  <2>2. none = [u \in Threads |-> none[u] \ {t}]
    OBVIOUS
  <2>3. Unordered!Leave(t)
    BY <2>1, <2>2 DEF Unordered!Leave
  <2> QED  BY <2>3 DEF Unordered!LockNext
<1>5. CASE ReadToken(t) \/ Up(t)
  <2>1. line' = line /\ SemaInside' = SemaInside
    BY <1>5 DEF SemaInv, ReadToken, Up, SemaInside
  <2> QED  BY <2>1 DEF Unordered!lockVars
<1> QED  BY <1>1, <1>2, <1>3, <1>4, <1>5

\* Both locks are locks, and the ticket lock serves threads in the order they
\* came: see ImplementsFairLock.
THEOREM LockRefinement == SchedSpec => ImplementsFairLock
<1>. DEFINE Initially == IF sched_lock_ops = "ticket" THEN Fair!LockInit ELSE Unordered!LockInit
            Step == IF sched_lock_ops = "ticket"
                    THEN Fair!LockNext \/ UNCHANGED Fair!lockVars
                    ELSE Unordered!LockNext \/ UNCHANGED Unordered!lockVars
<1>1. SchedInit => Initially
  <2>1. SUFFICES ASSUME SchedInit PROVE Initially
    OBVIOUS
  <2>2. InLine = {} /\ TicketInside = {} /\ SemaInside = {} /\ {t \in Threads : pc[t] # "out"} = {}
    BY <2>1 DEF SchedInit, InLine, TicketInside, SemaInside
  <2>3. [t \in Threads |-> Ahead(t)] = [t \in Threads |-> {}]
    BY <2>2 DEF Ahead
  <2> QED  BY <2>2, <2>3 DEF Fair!LockInit, Unordered!LockInit
<1>2. IInv /\ [SchedNext]_schedVars => [Step]_schedVars
  <2>1. SUFFICES ASSUME IInv, SchedNext PROVE Step
    OBVIOUS
  <2>2. CASE Ticket
    BY <2>1, <2>2, TicketRefined DEF IInv, Ticket
  <2>3. CASE Generic
    BY <2>1, <2>3, SemaRefined DEF IInv, Generic
  <2> QED  BY <2>1, <2>2, <2>3 DEF SchedNext
<1> QED  BY <1>1, <1>2, LockInvariant, PTL DEF SchedSpec, ImplementsFairLock

-----------------------------------------------------------------------------
(* No wake-up is lost.                                                     *)

\* Threads that may still add to a futex while t waits: those that have
\* served a ticket and not got to it yet, and those whose turn is before t's.
Late == {u \in Threads : pc[u] \in {"tail", "bump"}}

Bumpers(t) == Late \union Ahead(t)

\* How often t's futex was added to since t read it, unless it went around.
Since(t) ==
  LET now == futex[FutexOf(ticket[t])]
  IN  IF now >= futex_value[t] THEN now - futex_value[t]
      ELSE now - futex_value[t] + UINT_MOD

Waker(t, where) == \E u \in Threads : pc[u] \in where /\ wakeup_ticket[u] = ticket[t]

\* A futex goes around only after 2^32 additions.  While t waits every other
\* thread adds to it at most once, so it does not.
WakeInv ==
  /\ futex \in [Futexes -> UInt]
  /\ futex_value \in [Threads -> UInt] /\ wakeup_ticket \in [Threads -> UInt]
  /\ \A t \in Threads : pc[t] \in {"check", "wait"} =>
       Since(t) + Cardinality(Bumpers(t)) < Cardinality(Threads)
  /\ \A t \in Threads : ticket[t] = head =>
       /\ pc[t] = "wait" => Since(t) > 0 \/ Waker(t, {"tail", "bump"})
       /\ pc[t] = "asleep" => Waker(t, {"tail", "bump", "wake"})

\* The parts of both invariants that most steps below need.
LEMMA WakeTypes ==
  ASSUME TicketInv, WakeInv
  PROVE  /\ pc \in [Threads -> TicketPCs] /\ ticket \in [Threads -> UInt]
         /\ futex \in [Futexes -> UInt] /\ futex_value \in [Threads -> UInt]
         /\ wakeup_ticket \in [Threads -> UInt]
BY DEF TicketInv, WakeInv

\* Every ticket has a futex.
LEMMA FutexIs ==
  ASSUME NEW n \in UInt
  PROVE  FutexOf(n) \in Futexes
BY LockAssumption DEF UInt, Futexes, FutexOf

\* Since is a number, and 0 as long as the futex is what t read.
LEMMA SinceIs ==
  ASSUME TicketInv, WakeInv, NEW t \in Threads
  PROVE  /\ Since(t) \in Nat
         /\ futex[FutexOf(ticket[t])] = futex_value[t] => Since(t) = 0
<1>1. futex[FutexOf(ticket[t])] \in UInt /\ futex_value[t] \in UInt
  BY WakeTypes, FutexIs
<1> QED  BY <1>1, LockAssumption DEF Since, UInt

\* No ticket in line is the one handed out next.
LEMMA TailIsFree ==
  ASSUME TicketInv, NEW t \in InLine
  PROVE  tail # ticket[t]
<1>1. Distance(ticket[t]) < Distance(tail) /\ Distance(tail) \in Nat
  BY InLineFinite DEF TicketInv
<1> QED  BY <1>1

\* The threads that may add are finitely many, and t is none of them.
LEMMA BumpersFinite ==
  ASSUME NEW t \in Threads, pc[t] \notin {"tail", "bump"}, TicketInv
  PROVE  /\ Bumpers(t) \subseteq Threads \ {t}
         /\ IsFiniteSet(Bumpers(t)) /\ Cardinality(Bumpers(t)) \in Nat
         /\ Cardinality(Bumpers(t)) < Cardinality(Threads)
<1>1. t \notin Ahead(t)
  <2>1. CASE t \in InLine
    <3>1. head \in UInt /\ ticket[t] \in UInt
      BY DEF TicketInv
    <3>2. Distance(ticket[t]) \in Int
      BY <3>1, LockAssumption DEF Distance, UInt
    <3> QED  BY <3>2 DEF Ahead
  <2> QED  BY <2>1 DEF Ahead
<1>2. Bumpers(t) \subseteq Threads \ {t}
  BY <1>1 DEF Bumpers, Late, Ahead, InLine
<1>3. IsFiniteSet(Threads \ {t}) /\ Cardinality(Threads \ {t}) = Cardinality(Threads) - 1
  BY FS_RemoveElement, LockAssumption
<1>4. IsFiniteSet(Bumpers(t)) /\ Cardinality(Bumpers(t)) <= Cardinality(Threads \ {t})
  BY <1>2, <1>3, FS_Subset
<1> QED  BY <1>2, <1>3, <1>4, FS_CardinalityType, LockAssumption

\* While t waits nobody joins those that may add to its futex: a new ticket is
\* behind t's, and whoever serves one was before t.
LEMMA BumpersKept ==
  ASSUME TicketInv, NEW u \in Threads, Acquire(u) \/ Release(u),
         NEW t \in InLine, t # u \/ ~ IncHead(u)
  PROVE  Bumpers(t)' \subseteq Bumpers(t)
<1>. USE DEF Bumpers, Late, Goto, Reset
<1>0. t \in Threads
  BY DEF InLine
<1>1. CASE TakeTicket(u)
  <2>1. Fair!Arrive(u)
    BY <1>1, ArriveRefined
  <2>2. t # u
    BY <1>1 DEF TakeTicket, InLine
  <2>3. Ahead(t)' = Ahead(t)
    <3>1. [v \in Threads |-> Ahead(v)]' = [[v \in Threads |-> Ahead(v)] EXCEPT ![u] = InLine]
      BY <2>1 DEF Fair!Arrive
    <3>2. [v \in Threads |-> Ahead(v)]'[t] = [v \in Threads |-> Ahead(v)][t]
      BY <1>0, <2>2, <3>1
    <3> QED  BY <1>0, <3>2
  <2>4. Late' = Late
    BY <1>1 DEF TakeTicket, TicketInv
  <2> QED  BY <2>3, <2>4
<1>2. CASE IncHead(u)
  <2>1. Fair!Leave(u)
    BY <1>2, LeaveRefined
  <2>2. Ahead(t)' = Ahead(t) \ {u}
    BY <1>0, <2>1 DEF Fair!Leave
  <2>3. u \in InLine /\ ticket[u] = head /\ ticket[t] # head
    BY <1>0, <1>2 DEF IncHead, TicketInv, InLine, Served
  <2>4. Distance(ticket[u]) < Distance(ticket[t])
    BY <1>0, <2>3, LockAssumption DEF Distance, TicketInv, UInt
  <2>5. u \in Ahead(t)
    BY <2>3, <2>4 DEF Ahead
  <2>6. Late' = Late \union {u}
    BY <1>2 DEF IncHead, TicketInv
  <2> QED  BY <2>2, <2>5, <2>6
<1>3. CASE \/ ReadFutex(u) \/ CheckHead(u) \/ FutexWait(u) \/ Spurious(u) \/ Own(u)
           \/ ClearOwner(u) \/ CheckTail(u) \/ BumpFutex(u) \/ Wake(u)
  <2>. USE <1>3 DEF ReadFutex, CheckHead, FutexWait, Spurious, Own, ClearOwner, CheckTail,
       BumpFutex, Wake
  <2>1. UNCHANGED <<head, ticket>>
    OBVIOUS
  <2>2. InLine' = InLine
    BY DEF TicketInv, InLine
  <2>3. Ahead(t)' = Ahead(t)
    BY <1>0, <2>1, <2>2, QuietAhead
  <2>4. Late' \subseteq Late
    BY DEF TicketInv
  <2> QED  BY <2>3, <2>4
<1> QED  BY <1>1, <1>2, <1>3 DEF Acquire, Release

\* Adding to a futex shows in Since, for everybody that waits on it.
LEMMA SinceGrows ==
  ASSUME TicketInv, WakeInv, NEW u \in Threads, BumpFutex(u),
         NEW t \in Threads, pc[t] \in {"check", "wait"}
  PROVE  /\ Since(t) \in Nat
         /\ Since(t)' = IF FutexOf(wakeup_ticket[u]) = FutexOf(ticket[t])
                        THEN Since(t) + 1 ELSE Since(t)
<1>1. FutexOf(wakeup_ticket[u]) \in Futexes /\ FutexOf(ticket[t]) \in Futexes
  BY WakeTypes, FutexIs
<1>2. Since(t) < UINT_MOD - 1 /\ Since(t) \in Nat
  <2>1. u \in Bumpers(t)
    BY DEF BumpFutex, Bumpers, Late
  <2>2. IsFiniteSet(Bumpers(t)) /\ Cardinality(Bumpers(t)) \in Nat
    BY BumpersFinite
  <2>3. Cardinality(Bumpers(t)) # 0
    BY <2>1, <2>2, FS_EmptySet
  <2>4. Since(t) \in Nat
    BY SinceIs
  <2>5. Since(t) + Cardinality(Bumpers(t)) < Cardinality(Threads)
    BY DEF WakeInv
  <2> QED  BY <2>2, <2>3, <2>4, <2>5, FS_CardinalityType, LockAssumption
<1>3. UNCHANGED <<ticket, futex_value>>
  BY DEF BumpFutex
<1>4. CASE FutexOf(wakeup_ticket[u]) = FutexOf(ticket[t])
  <2>1. futex'[FutexOf(ticket[t])] = Plus1(futex[FutexOf(ticket[t])])
    BY <1>1, <1>4, WakeTypes DEF BumpFutex
  <2>2. futex[FutexOf(ticket[t])] \in UInt /\ futex_value[t] \in UInt
    BY <1>1, WakeTypes
  <2> QED  BY <1>2, <1>3, <1>4, <2>1, <2>2, Plus1Is, LockAssumption DEF Since, UInt
<1>5. CASE FutexOf(wakeup_ticket[u]) # FutexOf(ticket[t])
  <2>1. futex'[FutexOf(ticket[t])] = futex[FutexOf(ticket[t])]
    BY <1>1, <1>5, WakeTypes DEF BumpFutex
  <2> QED  BY <1>2, <1>3, <1>5, <2>1 DEF Since
<1> QED  BY <1>4, <1>5

\* Every step of the ticket lock keeps the bound on the additions.
LEMMA SinceBounded ==
  ASSUME TicketInv, WakeInv, NEW u \in Threads, Acquire(u) \/ Release(u),
         NEW t \in Threads, pc'[t] \in {"check", "wait"}
  PROVE  Since(t)' + Cardinality(Bumpers(t)') < Cardinality(Threads)
<1>. USE DEF Goto, Reset
<1>1. pc[t] \in {"check", "wait"} \/ (t = u /\ ReadFutex(u))
  BY WakeTypes DEF Acquire, Release, TakeTicket, ReadFutex, CheckHead, FutexWait, Spurious, Own,
    ClearOwner, IncHead, CheckTail, BumpFutex, Wake
<1>2. t \in InLine /\ pc[t] \notin {"tail", "bump"}
  BY <1>1 DEF InLine, ReadFutex
<1>3. t # u \/ ~ IncHead(u)
  BY <1>1 DEF IncHead, ReadFutex
<1>4. /\ Bumpers(t)' \subseteq Bumpers(t)
      /\ IsFiniteSet(Bumpers(t)) /\ Cardinality(Bumpers(t)) \in Nat
      /\ Cardinality(Bumpers(t)) < Cardinality(Threads)
  BY <1>2, <1>3, BumpersKept, BumpersFinite
<1>5. /\ IsFiniteSet(Bumpers(t)') /\ Cardinality(Bumpers(t)') \in Nat
      /\ Cardinality(Bumpers(t)') <= Cardinality(Bumpers(t))
  BY <1>4, FS_Subset, FS_CardinalityType
<1>6. Cardinality(Threads) \in Nat
  BY LockAssumption, FS_CardinalityType
<1>7. CASE t = u /\ ReadFutex(u)
  <2>1. futex[FutexOf(ticket[t])] \in Int
    BY WakeTypes, FutexIs DEF UInt
  <2>2. UNCHANGED <<ticket, futex>> /\ futex_value'[t] = futex[FutexOf(ticket[t])]
    BY <1>7, WakeTypes DEF ReadFutex
  <2>3. Since(t)' = 0
    BY <2>1, <2>2 DEF Since
  <2> QED  BY <1>4, <1>5, <1>6, <2>3
<1>8. CASE pc[t] \in {"check", "wait"} /\ BumpFutex(u)
  <2>1. u \in Bumpers(t) /\ u \notin Bumpers(t)'
    BY <1>8, WakeTypes DEF BumpFutex, Bumpers, Late, Ahead, InLine
  <2>2. IsFiniteSet(Bumpers(t) \ {u}) /\ Cardinality(Bumpers(t) \ {u}) = Cardinality(Bumpers(t)) - 1
    BY <1>4, <2>1, FS_RemoveElement
  <2>3. Bumpers(t)' \subseteq Bumpers(t) \ {u}
    BY <1>4, <2>1
  <2>4. Cardinality(Bumpers(t)') <= Cardinality(Bumpers(t)) - 1
    BY <2>2, <2>3, FS_Subset
  <2>5. Since(t) \in Nat /\ Since(t)' \in Nat /\ Since(t)' <= Since(t) + 1
    BY <1>8, SinceGrows
  <2>6. Since(t) + Cardinality(Bumpers(t)) < Cardinality(Threads)
    BY <1>8 DEF WakeInv
  <2> QED  BY <1>4, <1>5, <1>6, <2>4, <2>5, <2>6
<1>9. CASE pc[t] \in {"check", "wait"} /\ ~ BumpFutex(u)
  <2>1. futex' = futex /\ ticket'[t] = ticket[t] /\ futex_value'[t] = futex_value[t]
    BY <1>9, WakeTypes DEF Acquire, Release, TakeTicket, ReadFutex, CheckHead, FutexWait,
      Spurious, Own, ClearOwner, IncHead, CheckTail, Wake
  <2>2. Since(t)' = Since(t)
    BY <2>1 DEF Since
  <2>3. Since(t) \in Nat
    BY SinceIs
  <2>4. Since(t) + Cardinality(Bumpers(t)) < Cardinality(Threads)
    BY <1>9 DEF WakeInv
  <2> QED  BY <1>4, <1>5, <1>6, <2>2, <2>3, <2>4
<1> QED  BY <1>1, <1>7, <1>8, <1>9

\* Whoever is to wake the thread at head still is after a step, or has done it.
LEMMA WakerStays ==
  ASSUME TicketInv, WakeInv, NEW u \in Threads, Acquire(u) \/ Release(u),
         NEW t \in Threads, ticket'[t] = head'
  PROVE  /\ pc'[t] = "wait" => Since(t)' > 0 \/ Waker(t, {"tail", "bump"})'
         /\ pc'[t] = "asleep" => Waker(t, {"tail", "bump", "wake"})'
<1>. USE DEF Goto, Reset
<1>1. CASE IncHead(u)
  <2>1. wakeup_ticket'[u] = head' /\ pc'[u] = "tail"
    BY <1>1, WakeTypes DEF IncHead
  <2> QED  BY <2>1 DEF Waker
<1>2. ASSUME ~ IncHead(u), pc'[t] \in {"wait", "asleep"}
      PROVE  /\ pc[t] = pc'[t] \/ (pc[t] = "wait" /\ t = u /\ FutexWait(u))
             /\ head' = head /\ ticket'[t] = ticket[t] /\ t \in InLine
             /\ pc[t] = pc'[t] => t # u /\ futex_value'[t] = futex_value[t]
  BY <1>2, WakeTypes DEF InLine, Acquire, Release, TakeTicket, ReadFutex, CheckHead,
    FutexWait, Spurious, Own, ClearOwner, CheckTail, BumpFutex, Wake
<1>3. ASSUME ~ IncHead(u), t \in InLine, ticket[t] = head,
             NEW v \in Threads, pc[v] \in {"tail", "bump"}, wakeup_ticket[v] = ticket[t]
      PROVE  \/ pc'[v] \in {"tail", "bump"} /\ wakeup_ticket'[v] = ticket[t]
             \/ v = u /\ BumpFutex(u) /\ pc'[v] = "wake" /\ wakeup_ticket'[v] = ticket[t]
  BY <1>3, TailIsFree, WakeTypes DEF Acquire, Release, TakeTicket, ReadFutex, CheckHead,
    FutexWait, Spurious, Own, ClearOwner, CheckTail, BumpFutex, Wake
<1>4. CASE ~ IncHead(u) /\ pc'[t] = "wait"
  <2>1. /\ pc[t] = "wait" /\ t # u /\ head' = head /\ ticket[t] = head /\ t \in InLine
        /\ ticket'[t] = ticket[t] /\ futex_value'[t] = futex_value[t]
    BY <1>2, <1>4, WakeTypes DEF FutexWait
  <2>2. Since(t) > 0 \/ Waker(t, {"tail", "bump"})
    BY <2>1 DEF WakeInv
  <2>3. CASE BumpFutex(u)
    <3>1. Since(t) \in Nat /\ Since(t)' = IF FutexOf(wakeup_ticket[u]) = FutexOf(ticket[t])
                                         THEN Since(t) + 1 ELSE Since(t)
      BY <2>1, <2>3, SinceGrows
    <3>2. CASE Since(t) > 0
      BY <1>4, <3>1, <3>2
    <3>3. CASE Waker(t, {"tail", "bump"})
      <4>1. PICK v \in Threads : pc[v] \in {"tail", "bump"} /\ wakeup_ticket[v] = ticket[t]
        BY <3>3 DEF Waker
      <4>2. CASE v = u
        BY <1>4, <3>1, <4>1, <4>2
      <4>3. CASE v # u
        BY <1>3, <1>4, <2>1, <4>1, <4>3 DEF Waker
      <4> QED  BY <4>2, <4>3
    <3> QED  BY <2>2, <3>2, <3>3
  <2>4. CASE ~ BumpFutex(u)
    <3>1. futex' = futex
      BY <1>4, <2>4 DEF Acquire, Release, TakeTicket, ReadFutex, CheckHead, FutexWait, Spurious, Own,
        ClearOwner, CheckTail, Wake
    <3>2. Since(t)' = Since(t)
      BY <2>1, <3>1 DEF Since
    <3>3. CASE Waker(t, {"tail", "bump"})
      BY <1>3, <1>4, <2>1, <2>4, <3>3 DEF Waker
    <3> QED  BY <1>4, <2>2, <3>2, <3>3
  <2> QED  BY <1>4, <2>3, <2>4
<1>5. CASE ~ IncHead(u) /\ pc'[t] = "asleep"
  <2>1. head' = head /\ ticket[t] = head /\ ticket'[t] = ticket[t] /\ t \in InLine
    BY <1>2, <1>5
  <2>2. CASE pc[t] = "wait" /\ t = u /\ FutexWait(u)
    <3>1. futex[FutexOf(ticket[t])] = futex_value[t]
      BY <1>5, <2>2, WakeTypes DEF FutexWait
    <3>2. Since(t) = 0
      BY <3>1, SinceIs
    <3>3. Waker(t, {"tail", "bump"})
      BY <2>1, <2>2, <3>2 DEF WakeInv
    <3> QED  BY <1>3, <1>5, <2>1, <3>3 DEF Waker
  <2>3. CASE pc[t] = "asleep" /\ t # u
    <3>1. PICK v \in Threads : pc[v] \in {"tail", "bump", "wake"} /\ wakeup_ticket[v] = ticket[t]
      BY <2>1, <2>3 DEF WakeInv, Waker
    <3>2. CASE pc[v] \in {"tail", "bump"}
      BY <1>3, <1>5, <2>1, <3>1, <3>2 DEF Waker
    <3>3. CASE pc[v] = "wake"
      <4>1. ~ (v = u /\ Wake(u))
        BY <1>5, <2>3, <3>1 DEF Wake
      <4>2. pc'[v] = "wake" /\ wakeup_ticket'[v] = wakeup_ticket[v]
        BY <1>5, <3>3, <4>1, WakeTypes DEF Acquire, Release, TakeTicket, ReadFutex, CheckHead,
          FutexWait, Spurious, Own, ClearOwner, CheckTail, BumpFutex, Wake
      <4> QED  BY <1>5, <2>1, <3>1, <4>2 DEF Waker
    <3> QED  BY <3>1, <3>2, <3>3
  <2> QED  BY <1>2, <1>5, <2>2, <2>3
<1> QED  BY <1>1, <1>4, <1>5

\* Every step of the ticket lock keeps WakeInv.
LEMMA WakeStep ==
  ASSUME TicketInv, WakeInv, TicketNext
  PROVE  WakeInv'
<1>1. PICK u \in Threads : Acquire(u) \/ Release(u)
  BY DEF TicketNext
<1>2. /\ futex' \in [Futexes -> UInt]
      /\ futex_value' \in [Threads -> UInt] /\ wakeup_ticket' \in [Threads -> UInt]
  <2>1. \A n \in UInt : FutexOf(n) \in Futexes /\ Plus1(n) \in UInt
    BY Plus1Is, FutexIs, LockAssumption DEF UInt
  <2>2. 0 \in UInt
    BY LockAssumption, FS_CardinalityType DEF UInt
  <2>3. futex' = futex \/ (\E n \in UInt : futex' = [futex EXCEPT ![FutexOf(n)] = Plus1(@)])
    BY <1>1, WakeTypes DEF Acquire, Release, TakeTicket, ReadFutex, CheckHead, FutexWait, Spurious,
      Own, ClearOwner, IncHead, CheckTail, BumpFutex, Wake
  <2>4. \/ futex_value' = futex_value \/ futex_value' = [futex_value EXCEPT ![u] = 0]
        \/ futex_value' = [futex_value EXCEPT ![u] = futex[FutexOf(ticket[u])]]
    BY <1>1 DEF Reset, Acquire, Release, TakeTicket, ReadFutex, CheckHead, FutexWait, Spurious,
      Own, ClearOwner, IncHead, CheckTail, BumpFutex, Wake
  <2>5. \/ wakeup_ticket' = wakeup_ticket \/ wakeup_ticket' = [wakeup_ticket EXCEPT ![u] = 0]
        \/ wakeup_ticket' = [wakeup_ticket EXCEPT ![u] = Plus1(head)]
    BY <1>1 DEF Reset, Acquire, Release, TakeTicket, ReadFutex, CheckHead, FutexWait, Spurious,
      Own, ClearOwner, IncHead, CheckTail, BumpFutex, Wake
  <2>6. head \in UInt
    BY DEF TicketInv
  <2> QED  BY <2>1, <2>2, <2>3, <2>4, <2>5, <2>6, WakeTypes
<1>3. \A t \in Threads : pc'[t] \in {"check", "wait"} =>
        Since(t)' + Cardinality(Bumpers(t)') < Cardinality(Threads)
  BY <1>1, SinceBounded
<1>4. \A t \in Threads : ticket'[t] = head' =>
        /\ pc'[t] = "wait" => Since(t)' > 0 \/ Waker(t, {"tail", "bump"})'
        /\ pc'[t] = "asleep" => Waker(t, {"tail", "bump", "wake"})'
  BY <1>1, WakerStays
<1> QED  BY <1>2, <1>3, <1>4 DEF WakeInv

\* No thread sleeps through its turn, for any number of threads and futexes,
\* and though the futexes' values go around: see NoLostWakeup.
THEOREM WakeupCorrect == SchedSpec => []NoLostWakeup
<1>. DEFINE Inv == sched_lock_ops = "ticket" => WakeInv
<1>1. SchedInit => Inv
  <2>1. SUFFICES ASSUME SchedInit PROVE WakeInv
    OBVIOUS
  <2>2. 0 \in UInt
    BY LockAssumption, FS_CardinalityType DEF UInt
  <2> QED  BY <2>1, <2>2 DEF SchedInit, TicketInit, WakeInv
<1>2. IInv /\ Inv /\ [SchedNext]_schedVars => Inv'
  <2>1. SUFFICES ASSUME IInv, Inv, [SchedNext]_schedVars, sched_lock_ops' = "ticket" PROVE WakeInv'
    OBVIOUS
  <2>2. CASE SchedNext
    BY <2>1, <2>2, WakeStep DEF IInv, SchedNext, Ticket, Generic
  <2>3. CASE UNCHANGED schedVars
    <3>1. UNCHANGED <<pc, ticketVars>> /\ WakeInv
      BY <2>1, <2>3 DEF schedVars
    <3>2. \A t : Since(t)' = Since(t) /\ \A where : Waker(t, where)' = Waker(t, where)
      BY <3>1 DEF ticketVars, Since, Waker
    <3>3. InLine' = InLine /\ Late' = Late /\ \A n : Distance(n)' = Distance(n)
      BY <3>1 DEF ticketVars, InLine, Late, Distance
    <3>4. \A t : Bumpers(t)' = Bumpers(t)
      BY <3>1, <3>3 DEF ticketVars, Bumpers, Ahead, Distance
    <3> QED  BY <3>1, <3>2, <3>4 DEF ticketVars, WakeInv
  <2> QED  BY <2>1, <2>2, <2>3
<1>3. IInv /\ Inv => NoLostWakeup
  <2>1. SUFFICES ASSUME IInv, Inv, NEW t \in Threads, ticket[t] = head, pc[t] \in {"wait", "asleep"}
                 PROVE  /\ pc[t] = "asleep" => Waker(t, {"tail", "bump", "wake"})
                        /\ (pc[t] = "wait" /\ futex[FutexOf(ticket[t])] = futex_value[t]) =>
                             Waker(t, {"tail", "bump"})
    BY DEF NoLostWakeup, Waker
  <2>2. TicketInv /\ WakeInv
    BY <2>1 DEF IInv, SemaInv, Token
  <2>3. Since(t) \in Nat /\ (futex[FutexOf(ticket[t])] = futex_value[t] => Since(t) = 0)
    BY <2>2, SinceIs
  <2> QED  BY <2>1, <2>2, <2>3 DEF WakeInv
<1> QED  BY <1>1, <1>2, <1>3, LockInvariant, PTL DEF SchedSpec

=============================================================================
