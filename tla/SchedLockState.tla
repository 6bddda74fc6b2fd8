--------------------------- MODULE SchedLockState ---------------------------
(***************************************************************************)
(* What the two scheduler locks have in common                             *)
(* (src/coregrind/m_scheduler/priv_sched-lock-impl.h): the threads that    *)
(* call acquire_sched_lock and release_sched_lock, where each of them is   *)
(* in these functions, and the owner that get_sched_lock_owner returns.    *)
(***************************************************************************)
EXTENDS Integers, Sequences, FiniteSets

CONSTANTS
  Threads,
  None         \* the owner 0: a lock that nobody has

VARIABLES owner, pc

Goto(t, where) == pc' = [pc EXCEPT ![t] = where]

=============================================================================
