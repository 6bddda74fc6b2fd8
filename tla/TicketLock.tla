----------------------------- MODULE TicketLock -----------------------------
(***************************************************************************)
(* The ticket lock of --fair-sched=yes                                     *)
(* (src/coregrind/m_scheduler/ticket-lock-linux.c), one step per access to *)
(* memory that other threads see and per system call.  It has no lock of   *)
(* its own: between any two steps of a thread any number of steps of the   *)
(* others may come.                                                        *)
(*                                                                         *)
(* pc is where a thread is in acquire_sched_lock or release_sched_lock:    *)
(*   "out" in neither and without the lock                                 *)
(*   "read" about to read *futex       "check" about to compare with head  *)
(*   "wait" about to call futex_wait   "asleep" in it                      *)
(*   "own" about to set owner          "held" acquired                     *)
(*   "inc" owner cleared, head next    "tail" about to compare with tail   *)
(*   "bump" about to add to *futex     "wake" about to call futex_wake     *)
(***************************************************************************)
EXTENDS SchedLockState

CONSTANTS
  TL_FUTEX_COUNT,    \* 16 in the code
  UINT_MOD           \* 2^32, the range of an unsigned

ASSUME LockAssumption ==
  /\ IsFiniteSet(Threads) /\ None \notin Threads
  /\ TL_FUTEX_COUNT \in Nat \ {0}
  /\ UINT_MOD \in Nat
  /\ Cardinality(Threads) < UINT_MOD     \* at most VG_N_THREADS, 500 by default

VARIABLES
  head, tail, futex,       \* struct sched_lock, with owner
  ticket, futex_value,     \* locals of acquire_sched_lock
  wakeup_ticket            \* local of release_sched_lock

ticketVars == <<head, tail, futex, ticket, futex_value, wakeup_ticket>>

UInt == 0 .. UINT_MOD - 1
Futexes == 0 .. TL_FUTEX_COUNT - 1

\* n + 1, as an unsigned.
Plus1(n) == (n + 1) % UINT_MOD

\* ticket & TL_FUTEX_MASK
FutexOf(n) == n % TL_FUTEX_COUNT

\* A local that nothing reads any more is 0 again.
Reset(local, t) == local' = [local EXCEPT ![t] = 0]

\* create_sched_lock
TicketInit ==
  /\ head = 0 /\ tail = 0
  /\ futex = [i \in Futexes |-> 0]
  /\ ticket = [t \in Threads |-> 0]
  /\ futex_value = [t \in Threads |-> 0]
  /\ wakeup_ticket = [t \in Threads |-> 0]

(***************************************************************************)
(* acquire_sched_lock                                                      *)
(***************************************************************************)

\* Mutant of TakeTicket: tail is read and written in two steps, and another
\* thread's increment may be lost.
TakeTicket_racy(t) ==
  /\ pc[t] = "out"
  /\ ticket' = [ticket EXCEPT ![t] = tail]
  /\ tail' \in {tail, Plus1(tail)}
  /\ Goto(t, "read")
  /\ UNCHANGED <<head, futex, owner, futex_value, wakeup_ticket>>

\* ticket = __sync_fetch_and_add(&p->tail, 1)
TakeTicket(t) ==
  /\ pc[t] = "out"
  /\ ticket' = [ticket EXCEPT ![t] = tail]
  /\ tail' = Plus1(tail)
  /\ Goto(t, "read")
  /\ UNCHANGED <<head, futex, owner, futex_value, wakeup_ticket>>

ReadFutex(t) ==
  /\ pc[t] = "read"
  /\ futex_value' = [futex_value EXCEPT ![t] = futex[FutexOf(ticket[t])]]
  /\ Goto(t, "check")
  /\ UNCHANGED <<head, tail, futex, owner, ticket, wakeup_ticket>>

\* Mutant of CheckHead: any ticket not ahead of the head is let in.
CheckHead_le(t) ==
  /\ pc[t] = "check"
  /\ \/ ticket[t] <= head /\ Goto(t, "own") /\ Reset(futex_value, t)
     \/ ~ (ticket[t] <= head) /\ Goto(t, "wait") /\ UNCHANGED futex_value
  /\ UNCHANGED <<head, tail, futex, owner, ticket, wakeup_ticket>>

CheckHead(t) ==
  /\ pc[t] = "check"
  /\ \/ ticket[t] = head /\ Goto(t, "own") /\ Reset(futex_value, t)
     \/ ~ (ticket[t] = head) /\ Goto(t, "wait") /\ UNCHANGED futex_value
  /\ UNCHANGED <<head, tail, futex, owner, ticket, wakeup_ticket>>

\* FUTEX_WAIT: the kernel compares and falls asleep in one step, or answers
\* EAGAIN, and the loop starts again.
FutexWait(t) ==
  /\ pc[t] = "wait"
  /\ Goto(t, IF futex[FutexOf(ticket[t])] = futex_value[t] THEN "asleep" ELSE "read")
  /\ Reset(futex_value, t)
  /\ UNCHANGED <<head, tail, futex, owner, ticket, wakeup_ticket>>

\* futex_wait may return with no futex_wake.
Spurious(t) ==
  /\ pc[t] = "asleep"
  /\ Goto(t, "read")
  /\ UNCHANGED <<head, tail, futex, owner, ticket, futex_value, wakeup_ticket>>

\* p->owner = VG_(gettid)()
Own(t) ==
  /\ pc[t] = "own"
  /\ owner' = t
  /\ Goto(t, "held")
  /\ UNCHANGED <<head, tail, futex, ticket, futex_value, wakeup_ticket>>

(***************************************************************************)
(* release_sched_lock                                                      *)
(***************************************************************************)

ClearOwner(t) ==
  /\ pc[t] = "held"
  /\ owner' = None
  /\ Goto(t, "inc")
  /\ UNCHANGED <<head, tail, futex, ticket, futex_value, wakeup_ticket>>

\* Mutant of IncHead: the ticket just served is the one woken.
IncHead_old(t) ==
  /\ pc[t] = "inc"
  /\ head' = Plus1(head)
  /\ wakeup_ticket' = [wakeup_ticket EXCEPT ![t] = head]
  /\ Goto(t, "tail") /\ Reset(ticket, t)
  /\ UNCHANGED <<tail, futex, owner, futex_value>>

\* wakeup_ticket = __sync_fetch_and_add(&p->head, 1) + 1
IncHead(t) ==
  /\ pc[t] = "inc"
  /\ head' = Plus1(head)
  /\ wakeup_ticket' = [wakeup_ticket EXCEPT ![t] = Plus1(head)]
  /\ Goto(t, "tail") /\ Reset(ticket, t)
  /\ UNCHANGED <<tail, futex, owner, futex_value>>

CheckTail(t) ==
  /\ pc[t] = "tail"
  /\ \/ tail # wakeup_ticket[t] /\ Goto(t, "bump") /\ UNCHANGED wakeup_ticket
     \/ tail = wakeup_ticket[t] /\ Goto(t, "out") /\ Reset(wakeup_ticket, t)
  /\ UNCHANGED <<head, tail, futex, owner, ticket, futex_value>>

\* Mutant of BumpFutex: the sleepers are woken, the futex keeps its value.
BumpFutex_none(t) ==
  /\ pc[t] = "bump"
  /\ Goto(t, "wake")
  /\ UNCHANGED <<head, tail, futex, owner, ticket, futex_value, wakeup_ticket>>

BumpFutex(t) ==
  /\ pc[t] = "bump"
  /\ futex' = [futex EXCEPT ![FutexOf(wakeup_ticket[t])] = Plus1(@)]
  /\ Goto(t, "wake")
  /\ UNCHANGED <<head, tail, owner, ticket, futex_value, wakeup_ticket>>

\* FUTEX_WAKE of every thread on the futex: with more than TL_FUTEX_COUNT
\* threads, not only the one whose turn it is.
Wake(t) ==
  /\ pc[t] = "wake"
  /\ pc' = [u \in Threads |->
              IF u = t THEN "out"
              ELSE IF pc[u] = "asleep" /\ FutexOf(ticket[u]) = FutexOf(wakeup_ticket[t])
                THEN "read" ELSE pc[u]]
  /\ Reset(wakeup_ticket, t)
  /\ UNCHANGED <<head, tail, futex, owner, ticket, futex_value>>

Acquire(t) ==
  \/ TakeTicket(t) \/ ReadFutex(t) \/ CheckHead(t) \/ FutexWait(t) \/ Spurious(t) \/ Own(t)

Release(t) ==
  \/ ClearOwner(t) \/ IncHead(t) \/ CheckTail(t) \/ BumpFutex(t) \/ Wake(t)

TicketNext == \E t \in Threads : Acquire(t) \/ Release(t)

\* A thread inside either function, or with the lock, goes on: the kernel
\* schedules it, and it leaves its critical section.  Nobody has to ask for
\* the lock, and nothing rests on spurious wake-ups.
TicketProgress(t) ==
  \/ ReadFutex(t) \/ CheckHead(t) \/ FutexWait(t) \/ Own(t) \/ Release(t)

(***************************************************************************)
(* What holds                                                              *)
(***************************************************************************)

\* Those whose ticket is not served out, and those that have the lock.
InLine == {t \in Threads : pc[t] \in {"read", "check", "wait", "asleep", "own", "held", "inc"}}
TicketInside == {t \in Threads : pc[t] \in {"held", "inc"}}

\* How far a ticket is from being served.
Distance(n) == IF n >= head THEN n - head ELSE n - head + UINT_MOD

Ahead(t) == IF t \in InLine
            THEN {u \in InLine : Distance(ticket[u]) < Distance(ticket[t])}
            ELSE {}

Fair == INSTANCE FairLock WITH
          Fifo <- TRUE, line <- InLine, inside <- TicketInside, ahead <- [t \in Threads |-> Ahead(t)]

=============================================================================
