------------------------------ MODULE FairLock ------------------------------
(***************************************************************************)
(* What the scheduler asks of the lock that serialises the guest's threads *)
(* (src/coregrind/m_scheduler/priv_sched-lock.h): one thread inside at a   *)
(* time and, with --fair-sched=yes, the threads let in by order of         *)
(* arrival ("round robin", docs/xml/manual-core.xml).  TicketLock and      *)
(* PipeSema implement it, Scheduler is built on it.                        *)
(***************************************************************************)
CONSTANTS
  Threads,
  Fifo          \* the order of arrival is kept

VARIABLES
  line,         \* the threads that wait or are inside
  ahead,        \* those of them that t has to let in first
  inside        \* the threads that have the lock

lockVars == <<line, ahead, inside>>

LockInit == line = {} /\ ahead = [t \in Threads |-> {}] /\ inside = {}

Arrive(t) ==
  /\ t \notin line
  /\ line' = line \union {t}
  /\ ahead' = [ahead EXCEPT ![t] = IF Fifo THEN line ELSE {}]
  /\ UNCHANGED inside

Enter(t) ==
  /\ t \in line /\ inside = {} /\ ahead[t] = {}
  /\ inside' = {t}
  /\ UNCHANGED <<line, ahead>>

Leave(t) ==
  /\ t \in inside
  /\ line' = line \ {t}
  /\ ahead' = [u \in Threads |-> ahead[u] \ {t}]
  /\ inside' = inside \ {t}

LockNext == \E t \in Threads : Arrive(t) \/ Enter(t) \/ Leave(t)

LockSpec == LockInit /\ [][LockNext]_lockVars

=============================================================================
