----------------------------- MODULE SchedLock -----------------------------
(***************************************************************************)
(* The scheduler's lock (src/coregrind/m_scheduler/sched-lock.c): one of   *)
(* two implementations, chosen once by VG_(scheduler_init_phase1) from     *)
(* --fair-sched and from what the build has.                               *)
(***************************************************************************)
EXTENDS TicketLock, PipeSema

VARIABLE sched_lock_ops     \* "generic" or "ticket"

schedVars == <<sched_lock_ops, owner, pc, ticketVars, semaVars>>

\* --fair-sched=yes in a build without the ticket lock ends the program.
set_sched_lock_impl ==
  \E clo_fair_sched \in {"no", "yes", "try"}, available \in BOOLEAN :
    /\ clo_fair_sched = "yes" => available
    /\ sched_lock_ops = IF clo_fair_sched # "no" /\ available THEN "ticket" ELSE "generic"

SchedInit ==
  /\ set_sched_lock_impl
  /\ owner = None /\ pc = [t \in Threads |-> "out"]
  /\ TicketInit /\ SemaInit

Ticket == sched_lock_ops = "ticket" /\ TicketNext /\ UNCHANGED <<sched_lock_ops, semaVars>>

Generic == sched_lock_ops = "generic" /\ SemaNext /\ UNCHANGED <<sched_lock_ops, ticketVars>>

SchedNext == Ticket \/ Generic

\* Thread t goes on: the steps of the lock's functions that do not start an
\* acquisition.
Progress(t) ==
  \/ sched_lock_ops = "ticket" /\ TicketProgress(t) /\ UNCHANGED <<sched_lock_ops, semaVars>>
  \/ sched_lock_ops = "generic" /\ SemaProgress(t) /\ UNCHANGED <<sched_lock_ops, ticketVars>>

\* Every thread is scheduled by the kernel while it is inside the lock's
\* functions, and whoever has the lock gives it back in the end.
SchedFairness == \A t \in Threads : WF_schedVars(Progress(t))

SchedSpec == SchedInit /\ [][SchedNext]_schedVars /\ SchedFairness

(***************************************************************************)
(* What holds                                                              *)
(***************************************************************************)

\* The assertions of acquire and release hold: nobody finds another owner
\* when it sets owner, or no owner when it gives the lock back; sema_down is
\* not called by the owner, and sema_up only by it.
OwnerAsserts ==
  \A t \in Threads :
    /\ pc[t] = "own" => owner = None
    /\ pc[t] = "held" => owner = t
    /\ pc[t] = "out" => owner # t

\* A thread that sleeps on a futex, or is bound to fall asleep, while its
\* ticket is the one served, will be woken: the thread that made it so has
\* its futex_wake, and before that its change of the futex, still to come.
\* acquire reads the futex before it reads head, and release writes head
\* before the futex, for this.
NoLostWakeup ==
  \A t \in Threads :
    LET Waker(where) == \E u \in Threads : pc[u] \in where /\ wakeup_ticket[u] = ticket[t]
    IN ticket[t] = head =>
         /\ pc[t] = "asleep" => Waker({"tail", "bump", "wake"})
         /\ (pc[t] = "wait" /\ futex[FutexOf(ticket[t])] = futex_value[t]) =>
              Waker({"tail", "bump"})

\* Both implementations are locks: one thread inside at a time; and the
\* ticket lock lets threads in by order of arrival (the comment on
\* --fair-sched: "in a round robin fashion").
ImplementsFairLock ==
  /\ IF sched_lock_ops = "ticket" THEN Fair!LockInit ELSE Unordered!LockInit
  /\ [][ IF sched_lock_ops = "ticket"
         THEN Fair!LockNext \/ UNCHANGED Fair!lockVars
         ELSE Unordered!LockNext \/ UNCHANGED Unordered!lockVars ]_schedVars

\* No thread waits forever for the ticket lock.  The pipe only promises that
\* somebody gets the token ("does not guarantee fairness", manual-core.xml).
\* The specification treats all threads alike: what holds of one holds of all.
WaiterIsServed ==
  LET t == CHOOSE t \in Threads : TRUE
  IN (pc[t] \in {"read", "down"}) ~>
       (IF sched_lock_ops = "ticket" THEN pc[t] = "held" ELSE \E u \in Threads : pc[u] = "held")

=============================================================================
