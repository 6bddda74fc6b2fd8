----------------------------- MODULE Scheduler -----------------------------
(***************************************************************************)
(* The core's threads (src/coregrind/m_scheduler/scheduler.c with the      *)
(* thread and signal parts of m_syswrap and m_signals.c): one big lock, a  *)
(* slot per guest thread, time slices, blocking system calls outside the   *)
(* lock, and the ways a process ends.  A tool's helpers run inside         *)
(* run_thread_for_a_while, its fini in shutdown_actions_NORETURN.          *)
(*                                                                         *)
(* What a thread does while it has the lock is one step, up to the point   *)
(* where it gives the lock back or could be polled for signals: nobody     *)
(* else reads or writes the thread table meanwhile.  The exception is the  *)
(* store to its status by a thread that is dying without the lock, a step  *)
(* of its own; it can come between nuke_all_threads_except's test of a     *)
(* status and the assertion on the same status in                          *)
(* get_thread_out_of_syscall.                                              *)
(*                                                                         *)
(* pc is where the slot's thread is:                                       *)
(*   "none" there is no such thread        "start" in thread_wrapper       *)
(*   "run" in VG_(scheduler), with the lock                                *)
(*   "slice" between release and acquire at the end of a time slice        *)
(*   "setup" in do_syscall_for_client, signals blocked                     *)
(*   "kernel" in the system call, signals open                             *)
(*   "done" behind it, signals blocked again                               *)
(*   "handler" in a signal handler of the core, about to acquire           *)
(*   "nuke" in nuke_all_threads_except, with the lock                      *)
(*   "reap" in reap_threads, with the lock; "yield" in its vg_yield        *)
(*   "shutdown" in shutdown_actions_NORETURN, with the lock                *)
(***************************************************************************)
EXTENDS Integers, FiniteSets

CONSTANTS
  Tids,                   \* the slots of VG_(threads): 1 .. VG_N_THREADS - 1
  SCHEDULING_QUANTUM,     \* 100000 in the code
  MaxSignals              \* bound: fatal signals sent to the process

ASSUME SchedulerAssumption ==
  /\ Tids \subseteq Nat \ {0} /\ 1 \in Tids
  /\ SCHEDULING_QUANTUM \in Nat \ {0}
  /\ MaxSignals \in Nat

VARIABLES
  status, exitreason, running_tid,     \* VG_(threads)[] and VG_(running_tid)
  pc, dispatch_ctr,                    \* of the thread on a slot
  final,                               \* what a thread in reap_threads does next
  nuking,                              \* tid and src in nuke_all_threads_except
  kill,                                \* threads with SIGVGKILL pending
  dying,                               \* slots whose stack a former thread still runs on
  ended,                               \* how the process ended
  signals,                             \* fatal signals so far
  fair,                                \* --fair-sched=yes
  line, ahead, inside                  \* the big lock

threadVars == <<status, exitreason, running_tid, pc, dispatch_ctr, final, nuking, kill, dying>>
lockVars == <<line, ahead, inside>>
vars == <<threadVars, ended, signals, fair, lockVars>>

VG_INVALID_THREADID == 0

NotNuking == [tid |-> VG_INVALID_THREADID, src |-> "None"]

Ordered == INSTANCE FairLock WITH Threads <- Tids, Fifo <- TRUE
Unordered == INSTANCE FairLock WITH Threads <- Tids, Fifo <- FALSE

\* scheduler_init_phase1: slot 1 is the main thread's.
Init ==
  /\ status = [t \in Tids |-> IF t = 1 THEN "Init" ELSE "Empty"]
  /\ exitreason = [t \in Tids |-> "None"]
  /\ running_tid = VG_INVALID_THREADID
  /\ pc = [t \in Tids |-> IF t = 1 THEN "start" ELSE "none"]
  /\ dispatch_ctr = [t \in Tids |-> 0]
  /\ final = [t \in Tids |-> "None"]
  /\ nuking = NotNuking
  /\ kill = {} /\ dying = {} /\ ended = "no" /\ signals = 0
  /\ fair \in BOOLEAN
  /\ Ordered!LockInit

Goto(t, where) == pc' = [pc EXCEPT ![t] = where]

is_exiting(t) == exitreason[t] # "None"

\* count_living_threads() == 1, for a t that is alive
only_thread(t) == \A u \in Tids \ {t} : status[u] \in {"Empty", "Zombie"}

(***************************************************************************)
(* The big lock                                                            *)
(***************************************************************************)

Waiting == {"start", "slice", "done", "handler", "yield"}

\* A thread without the lock asks for it.
Wait(t) ==
  /\ pc[t] \in Waiting
  /\ IF fair THEN Ordered!Arrive(t) ELSE Unordered!Arrive(t)
  /\ UNCHANGED <<threadVars, signals>>

\* acquire_BigLock, once the lock is free for t.
acquire_BigLock(t) ==
  /\ Ordered!Enter(t)
  /\ status' = [status EXCEPT ![t] = "Runnable"]
  /\ running_tid' = t

\* Mutant of release_BigLock: running_tid keeps naming the thread.
release_BigLock_running(t, sleepstate) ==
  /\ Ordered!Leave(t)
  /\ status' = [status EXCEPT ![t] = sleepstate]
  /\ UNCHANGED running_tid

release_BigLock(t, sleepstate) ==
  /\ Ordered!Leave(t)
  /\ status' = [status EXCEPT ![t] = sleepstate]
  /\ running_tid' = VG_INVALID_THREADID

(***************************************************************************)
(* Ending all threads                                                      *)
(***************************************************************************)

\* The loop of nuke_all_threads_except goes on behind slot tid to one that is
\* not empty; when there is none, reap_threads begins.
nuke_from(me, tid, src) ==
  LET others == {u \in Tids \ {me} : u > tid /\ status[u] # "Empty"}
  IN  \/ \E u \in others :
           /\ \A v \in others : u <= v
           /\ nuking' = [tid |-> u, src |-> src]
           /\ Goto(me, "nuke")
      \/ others = {} /\ nuking' = NotNuking /\ Goto(me, "reap")

\* nuke_all_threads_except, and reap_threads: when it is over the thread takes
\* the exit reason, or goes on with execve.
EndOthers(t, src, then) ==
  /\ nuke_from(t, VG_INVALID_THREADID, src)
  /\ final' = [final EXCEPT ![t] = then]

\* The body of the loop, with get_thread_out_of_syscall.
nuke_all_threads_except(me) ==
  LET tid == nuking.tid
  IN  /\ pc[me] = "nuke" /\ status[tid] # "Empty"
      /\ exitreason' = [exitreason EXCEPT ![tid] = nuking.src]
      /\ kill' = IF status[tid] = "WaitSys" THEN kill \union {tid} ELSE kill
      /\ nuke_from(me, tid, nuking.src)
      /\ UNCHANGED <<status, running_tid, dispatch_ctr, final, dying, signals, lockVars>>

\* Mutant of poll_signals: exiting threads poll too.
poll_signals_always(t, before) ==
  /\ signals < MaxSignals
  /\ signals' = signals + 1
  /\ EndOthers(t, "FatalSig", IF before = "yield" THEN final[t] ELSE "FatalSig")

\* poll_signals finds a signal whose default action ends the process
\* (default_action), or a handler was called for one.  When that happens
\* inside reap_threads the inner reap_threads ends first, and the outer
\* caller's reason is set last.
poll_signals(t, before) ==
  /\ ~ is_exiting(t)
  /\ signals < MaxSignals
  /\ signals' = signals + 1
  /\ EndOthers(t, "FatalSig", IF before = "yield" THEN final[t] ELSE "FatalSig")

(***************************************************************************)
(* Getting the lock                                                        *)
(***************************************************************************)

\* Where a thread goes on with the lock when no signal ends the process.  A
\* slice that begins is a full one.
Resume(t) ==
  /\ pc[t] \in Waiting
  /\ acquire_BigLock(t)
  /\ Goto(t, IF pc[t] = "yield" THEN "reap" ELSE "run")
  /\ dispatch_ctr' = [dispatch_ctr EXCEPT ![t] =
       IF pc[t] \in {"start", "slice"} THEN SCHEDULING_QUANTUM ELSE @]
  /\ UNCHANGED <<exitreason, final, nuking, kill, dying, signals>>

\* The same, and a fatal signal is found: after a slice, after a system call
\* that asks for a poll, by async_signalhandler, or in reap_threads.
ResumeFatal(t) ==
  /\ pc[t] \in {"slice", "done", "handler", "yield"}
  /\ acquire_BigLock(t)
  /\ poll_signals(t, pc[t])
  /\ UNCHANGED <<exitreason, dispatch_ctr, kill, dying>>

(***************************************************************************)
(* VG_(scheduler)                                                          *)
(***************************************************************************)

\* In the loop, with some of the slice left: the thread runs translations,
\* and a system call or a fault ends the run.
run_thread_for_a_while(t) ==
  /\ pc[t] = "run" /\ ~ is_exiting(t) /\ dispatch_ctr[t] > 0
  /\ dispatch_ctr' = [dispatch_ctr EXCEPT ![t] = @ - 1]

Guest(t) ==
  /\ run_thread_for_a_while(t)
  /\ UNCHANGED <<status, exitreason, running_tid, pc, final, nuking, kill, dying, signals, lockVars>>

\* Mutant of Timeslice: a new slice begins without the lock being given back.
Timeslice_keep(t) ==
  /\ pc[t] = "run" /\ ~ is_exiting(t) /\ dispatch_ctr[t] = 0
  /\ dispatch_ctr' = [dispatch_ctr EXCEPT ![t] = SCHEDULING_QUANTUM]
  /\ UNCHANGED <<status, exitreason, running_tid, pc, final, nuking, kill, dying, signals, lockVars>>

\* The slice is over.
Timeslice(t) ==
  /\ pc[t] = "run" /\ ~ is_exiting(t) /\ dispatch_ctr[t] = 0
  /\ release_BigLock(t, "Yielding")
  /\ Goto(t, "slice")
  /\ UNCHANGED <<exitreason, dispatch_ctr, final, nuking, kill, dying, signals>>

\* A fault whose signal ends the process, or kill(SIGKILL) of one of its
\* threads (do_sigkill).
Fatal(t) ==
  /\ run_thread_for_a_while(t)
  /\ EndOthers(t, "FatalSig", "FatalSig")
  /\ UNCHANGED <<status, exitreason, running_tid, kill, dying, signals, lockVars>>

\* PRE(sys_exit)
sys_exit(t) ==
  /\ run_thread_for_a_while(t)
  /\ exitreason' = [exitreason EXCEPT ![t] = "ExitThread"]
  /\ UNCHANGED <<status, running_tid, pc, final, nuking, kill, dying, signals, lockVars>>

\* PRE(sys_exit_group)
sys_exit_group(t) ==
  /\ run_thread_for_a_while(t)
  /\ EndOthers(t, "ExitProcess", "ExitThread")
  /\ UNCHANGED <<status, exitreason, running_tid, kill, dying, signals, lockVars>>

\* handle_pre_sys_execve, once it can no longer fail with an error code.
sys_execve(t) ==
  /\ run_thread_for_a_while(t)
  /\ EndOthers(t, "ExitThread", "execve")
  /\ UNCHANGED <<status, exitreason, running_tid, kill, dying, signals, lockVars>>

\* do_clone into the first empty slot; nothing is left of a clone that fails.
do_clone(t) ==
  /\ run_thread_for_a_while(t)
  /\ \E c \in Tids :
       /\ status[c] = "Empty" /\ \A u \in Tids : status[u] = "Empty" => c <= u
       /\ status' = [status EXCEPT ![c] = "Init"]
       /\ exitreason' = [exitreason EXCEPT ![c] = "None"]
       /\ Goto(c, "start")
  /\ UNCHANGED <<running_tid, final, nuking, kill, dying, signals, lockVars>>

\* PRE(sys_fork), followed into the child: sched_fork_cleanup empties the
\* other slots and makes a new lock.
sys_fork(t) ==
  /\ run_thread_for_a_while(t)
  /\ status' = [u \in Tids |-> IF u = t THEN status[u] ELSE "Empty"]
  /\ pc' = [u \in Tids |-> IF u = t THEN pc[u] ELSE "none"]
  /\ kill' = {} /\ dying' = {}
  /\ line' = {t} /\ inside' = {t} /\ ahead' = [u \in Tids |-> {}]
  /\ UNCHANGED <<exitreason, running_tid, final, nuking, signals>>

(***************************************************************************)
(* A system call that may block, and the signals that end it               *)
(***************************************************************************)

\* VG_(client_syscall): the lock is given back.
SysBegin(t) ==
  /\ run_thread_for_a_while(t)
  /\ release_BigLock(t, "WaitSys")
  /\ Goto(t, "setup")
  /\ UNCHANGED <<exitreason, final, nuking, kill, dying, signals>>

\* The signal mask opens, and the call is made.
SysEnter(t) ==
  /\ pc[t] = "setup"
  /\ Goto(t, "kernel")
  /\ UNCHANGED <<status, exitreason, running_tid, dispatch_ctr, final, nuking, kill, dying, signals, lockVars>>

\* It returns, and the mask is closed.
SysReturn(t) ==
  /\ pc[t] = "kernel"
  /\ Goto(t, "done")
  /\ UNCHANGED <<status, exitreason, running_tid, dispatch_ctr, final, nuking, kill, dying, signals, lockVars>>

\* SIGVGKILL arrives: sigvgkill_handler.
Killed(t) ==
  /\ pc[t] = "kernel" /\ t \in kill
  /\ kill' = kill \ {t}
  /\ Goto(t, "handler")
  /\ UNCHANGED <<status, exitreason, running_tid, dispatch_ctr, final, nuking, dying, signals, lockVars>>

\* Any other signal does: async_signalhandler.
Signalled(t) ==
  /\ pc[t] = "kernel"
  /\ Goto(t, "handler")
  /\ UNCHANGED <<status, exitreason, running_tid, dispatch_ctr, final, nuking, kill, dying, signals, lockVars>>

(***************************************************************************)
(* reap_threads, and the end of a thread                                   *)
(***************************************************************************)

reap_yield(t) ==
  /\ pc[t] = "reap" /\ ~ only_thread(t)
  /\ release_BigLock(t, "Yielding")
  /\ Goto(t, "yield")
  /\ UNCHANGED <<exitreason, dispatch_ctr, final, nuking, kill, dying, signals>>

reap_done(t) ==
  /\ pc[t] = "reap" /\ only_thread(t) /\ final[t] # "execve"
  /\ exitreason' = [exitreason EXCEPT ![t] = final[t]]
  /\ final' = [final EXCEPT ![t] = "None"]
  /\ Goto(t, "run")
  /\ UNCHANGED <<status, running_tid, dispatch_ctr, nuking, kill, dying, signals, lockVars>>

\* Mutant of exit_thread: the slot is empty at once.
exit_thread_Empty(t) ==
  /\ release_BigLock(t, "Empty")
  /\ dying' = dying \union {t}
  /\ Goto(t, "none")
  /\ UNCHANGED signals

\* The record is cleared and the lock given back; the thread still has a few
\* instructions to run on its stack.
exit_thread(t) ==
  /\ release_BigLock(t, "Zombie")
  /\ dying' = dying \union {t}
  /\ Goto(t, "none")
  /\ UNCHANGED signals

\* Mutant of run_a_thread_NORETURN: a thread that leaves because of a fatal
\* signal shuts the process down whoever else is alive.
run_a_thread_fatal(t) ==
  /\ pc[t] = "run" /\ is_exiting(t)
  /\ \/ ~ only_thread(t) /\ exitreason[t] # "FatalSig" /\ exit_thread(t)
     \/ /\ only_thread(t) \/ exitreason[t] = "FatalSig"
        /\ Goto(t, "shutdown")
        /\ UNCHANGED <<status, running_tid, dying, signals, lockVars>>
  /\ kill' = kill \ {t}
  /\ UNCHANGED <<exitreason, dispatch_ctr, final, nuking>>

\* run_a_thread_NORETURN after the scheduler has returned: the last thread
\* keeps the lock.
run_a_thread_NORETURN(t) ==
  /\ pc[t] = "run" /\ is_exiting(t)
  /\ \/ ~ only_thread(t) /\ exit_thread(t)
     \/ /\ only_thread(t)
        /\ Goto(t, "shutdown")
        /\ UNCHANGED <<status, running_tid, dying, signals, lockVars>>
  /\ kill' = kill \ {t}
  /\ UNCHANGED <<exitreason, dispatch_ctr, final, nuking>>

\* The assembler at its end: status = VgTs_Empty, and exit, off the stack.
Die(t) ==
  /\ t \in dying
  /\ status' = [status EXCEPT ![t] = "Empty"]
  /\ dying' = dying \ {t}
  /\ UNCHANGED <<exitreason, running_tid, pc, dispatch_ctr, final, nuking, kill, signals, lockVars>>

(***************************************************************************)
(* The end of the process                                                  *)
(***************************************************************************)

Ending(how) ==
  /\ ended' = how
  /\ UNCHANGED <<threadVars, signals, lockVars>>

\* shutdown_actions_NORETURN: the tool's fini, and exit.
shutdown_actions(t) == pc[t] = "shutdown" /\ Ending("shutdown")

\* execve of another program, or VG_(exit) when that fails.
execve_done(t) == pc[t] = "reap" /\ only_thread(t) /\ final[t] = "execve" /\ Ending("execve")

\* alloc_ThreadState without an empty slot.
clone_panic(t) ==
  /\ pc[t] = "run" /\ ~ is_exiting(t) /\ dispatch_ctr[t] > 0
  /\ \A u \in Tids : status[u] # "Empty"
  /\ Ending("panic")

\* The assertion of get_thread_out_of_syscall: the thread is no longer there.
nuke_asserts(t) == pc[t] = "nuke" /\ status[nuking.tid] = "Empty" /\ Ending("assert")

\* What t does without waiting for anybody but the lock.
Step(t) ==
  \/ Wait(t) \/ Resume(t) \/ ResumeFatal(t)
  \/ Guest(t) \/ Timeslice(t) \/ Fatal(t)
  \/ sys_exit(t) \/ sys_exit_group(t) \/ sys_execve(t) \/ do_clone(t) \/ sys_fork(t)
  \/ SysBegin(t) \/ SysEnter(t) \/ Killed(t)
  \/ nuke_all_threads_except(t)
  \/ reap_yield(t) \/ reap_done(t) \/ run_a_thread_NORETURN(t)

End(t) == shutdown_actions(t) \/ execve_done(t) \/ clone_panic(t) \/ nuke_asserts(t)

Ended == ended # "no" /\ UNCHANGED vars

Next ==
  \/ \E t \in Tids :
       /\ ended = "no"
       /\ \/ (Step(t) \/ SysReturn(t) \/ Signalled(t) \/ Die(t)) /\ UNCHANGED <<ended, fair>>
          \/ End(t) /\ UNCHANGED fair
  \/ Ended

\* The kernel runs every thread that can run.  A system call may block for
\* ever, and no signal has to come but SIGVGKILL.
Fairness ==
  \A t \in Tids :
    /\ WF_vars(ended = "no" /\ Step(t) /\ UNCHANGED <<ended, fair>>)
    /\ WF_vars(ended = "no" /\ Die(t) /\ UNCHANGED <<ended, fair>>)
    /\ WF_vars(ended = "no" /\ End(t) /\ UNCHANGED fair)

Spec == Init /\ [][Next]_vars /\ Fairness

(***************************************************************************)
(* What holds                                                              *)
(***************************************************************************)

\* Where a thread has the lock, and where it is in a system call.
Holding == {"run", "nuke", "reap", "shutdown"}
InSyscall == {"setup", "kernel", "done", "handler"}

\* Whoever runs is the one thread with the lock, and is known as the running
\* thread: so no two threads are ever in a tool's helpers, and the assertions
\* of acquire_BigLock, release_BigLock, exit_thread and the signal handlers
\* hold.
RunningHasLock ==
  /\ inside = {t \in Tids : pc[t] \in Holding}
  /\ inside = IF running_tid = VG_INVALID_THREADID THEN {} ELSE {running_tid}
  /\ \A t \in Tids :
       /\ status[t] = "Runnable" <=> pc[t] \in Holding
       /\ status[t] = "WaitSys" <=> pc[t] \in InSyscall
       /\ status[t] = "Init" <=> pc[t] = "start"
       /\ status[t] = "Yielding" <=> pc[t] \in {"slice", "yield"}

\* A slot is not given to a new thread while an old one still runs on its
\* stack ("a subtle race", run_a_thread_NORETURN).
StackNotShared == \A t \in dying : status[t] = "Zombie" /\ pc[t] = "none"

\* When the tool's fini is called nobody else is alive ("last one standing"),
\* and who calls it was not told to die by an exit_group of another thread:
\* that one outlives it.
FiniIsLast ==
  \A t \in Tids : pc[t] = "shutdown" =>
    /\ \A u \in Tids \ {t} : pc[u] = "none"
    /\ exitreason[t] \in {"ExitThread", "FatalSig"}

\* exit_group, execve and fatal signals end the process: reap_threads returns
\* whatever the other threads do ("Can this give a deadlock ...? The answer
\* is no", PRE(sys_exit_group)), when the lock is fair and none of them is in a
\* system call that blocks SIGVGKILL (ClientSyscall).
ReapEnds ==
  (fair /\ \E t \in Tids : pc[t] \in {"nuke", "reap"}) ~> (ended # "no")

\* Under the fair lock a thread that is waiting for it (it is new, its slice
\* is over, its system call has returned, a signal came) gets to run, unless
\* the process ends or forks without it: no thread runs for ever, since a
\* slice ends and whoever gives the lock back queues behind the others.
ThreadsTakeTurns ==
  \A t \in Tids : (fair /\ pc[t] \in Waiting) ~> (pc[t] \notin Waiting \/ ended # "no")

\* A thread that nuke_all_threads_except found is still there for
\* get_thread_out_of_syscall, which asserts it (scheduler.c:467).  It does not
\* hold of a thread that is dying, and no configuration checks it.
NukeFindsThread == \A t \in Tids : pc[t] = "nuke" => status[nuking.tid] # "Empty"

=============================================================================
