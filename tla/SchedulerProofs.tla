-------------------------- MODULE SchedulerProofs --------------------------
(***************************************************************************)
(* One thread runs at a time, a stack is not shared and the tool's fini is *)
(* the last thing that happens, for any number of thread slots.            *)
(*                                                                         *)
(* RunningHasLock is nearly inductive: a new thread takes an Empty slot,   *)
(* and that nobody is on it follows from the table and from where the      *)
(* dying threads are.  FiniIsLast needs more.  A thread that was told to   *)
(* die with the process must never be the last one: whoever told it is     *)
(* still telling others or waiting for it, and is the only one that does.  *)
(***************************************************************************)
EXTENDS Scheduler, TLAPS

PCs == {"none", "start", "slice", "yield"} \union Holding \union InSyscall

Reasons == {"None", "ExitThread", "ExitProcess", "FatalSig"}

Types ==
  /\ status \in [Tids -> {"Empty", "Init", "Runnable", "WaitSys", "Yielding", "Zombie"}]
  /\ exitreason \in [Tids -> Reasons]
  /\ final \in [Tids -> {"None", "ExitThread", "FatalSig", "execve"}]
  /\ pc \in [Tids -> PCs]
  /\ nuking \in [tid : Tids \union {VG_INVALID_THREADID}, src : Reasons]
  /\ running_tid \in Tids \union {VG_INVALID_THREADID}
  /\ inside \subseteq Tids
  /\ dying \subseteq Tids

\* The threads in reap_threads.
Reaping == {"reap", "yield"}

\* The thread in nuke_all_threads_except has told everybody in front of the
\* slot it is at, and nobody is in reap_threads then.
NukeInv ==
  \A u \in Tids : pc[u] = "nuke" =>
    /\ exitreason[u] = "None" /\ final[u] # "None"
    /\ nuking.tid \in Tids \ {u} /\ nuking.src # "None"
    /\ \A t \in Tids \ {u} : pc[t] \notin Reaping
    /\ \A t \in Tids \ {u} : pc[t] # "none" /\ t < nuking.tid => exitreason[t] # "None"

\* Everybody but the thread in reap_threads has been told to die, so nobody
\* else gets there; and a thread that was told to die with the process has
\* somebody waiting for it, or about to.
ReapInv ==
  /\ \A u \in Tids : pc[u] \in Reaping =>
       /\ exitreason[u] = "None" /\ final[u] # "None"
       /\ \A t \in Tids \ {u} : pc[t] # "none" => exitreason[t] # "None"
  /\ \A t \in Tids : pc[t] # "none" /\ exitreason[t] = "ExitProcess" =>
       \E u \in Tids \ {t} : pc[u] \in Reaping \union {"nuke"}

IInv == Types /\ RunningHasLock /\ StackNotShared /\ NukeInv /\ ReapInv /\ FiniIsLast

-----------------------------------------------------------------------------
(* What the invariant says of one thread.                                  *)

\* A slot is free, or about to be, exactly when there is no thread on it.
LEMMA Vacant ==
  ASSUME IInv, NEW t \in Tids
  PROVE  status[t] \in {"Empty", "Zombie"} <=> pc[t] = "none"
BY DEF IInv, Types, RunningHasLock, PCs, Holding, InSyscall

\* Nobody else is where a thread has the lock.
LEMMA OneHolder ==
  ASSUME IInv, NEW t \in Tids, pc[t] \in Holding
  PROVE  \A u \in Tids \ {t} : pc[u] \notin Holding
BY DEF IInv, Types, RunningHasLock

\* While some running thread is not exiting nobody is in reap_threads, nor on
\* the way to it.
LEMMA NobodyReaps ==
  ASSUME IInv, NEW t \in Tids, pc[t] = "run", ~ is_exiting(t)
  PROVE  \A u \in Tids : /\ pc[u] \notin Reaping \union {"nuke"}
                         /\ pc[u] # "none" => exitreason[u] # "ExitProcess"
<1>1. \A u \in Tids : pc[u] # "nuke"
  BY OneHolder DEF Holding
<1>2. \A u \in Tids : pc[u] \notin Reaping
  BY DEF IInv, ReapInv, is_exiting, Reaping
<1> QED  BY <1>1, <1>2 DEF IInv, ReapInv

\* Where the loop of nuke_all_threads_except goes from slot k: to a slot
\* behind it, or into reap_threads, and there is nobody in between.
LEMMA NukeFrom ==
  ASSUME IInv, NEW t \in Tids, NEW k \in Tids \union {VG_INVALID_THREADID},
         NEW src \in Reasons \ {"None"}, nuke_from(t, k, src)
  PROVE  /\ nuking' \in [tid : Tids \union {VG_INVALID_THREADID}, src : Reasons]
         /\ \/ /\ pc' = [pc EXCEPT ![t] = "nuke"]
               /\ nuking'.tid \in Tids \ {t} /\ nuking'.src # "None"
               /\ \A u \in Tids \ {t} : k < u /\ u < nuking'.tid => pc[u] = "none"
            \/ /\ pc' = [pc EXCEPT ![t] = "reap"]
               /\ \A u \in Tids \ {t} : k < u => pc[u] = "none"
<1>. DEFINE others == {u \in Tids \ {t} : u > k /\ status[u] # "Empty"}
<1>1. \A u \in Tids \ {t} : k < u /\ u \notin others => pc[u] = "none"
  <2>1. \A u \in Tids \ {t} : k < u /\ u \notin others => status[u] = "Empty"
    BY SchedulerAssumption DEF VG_INVALID_THREADID
  <2> QED  BY <2>1, Vacant
<1>2. CASE others = {} /\ nuking' = NotNuking /\ Goto(t, "reap")
  <2>1. nuking' \in [tid : Tids \union {VG_INVALID_THREADID}, src : Reasons]
    BY <1>2 DEF NotNuking, Reasons
  <2> QED  BY <1>1, <1>2, <2>1 DEF Goto
<1>3. ASSUME NEW u \in others, \A v \in others : u <= v,
             nuking' = [tid |-> u, src |-> src], Goto(t, "nuke")
      PROVE  /\ nuking' \in [tid : Tids \union {VG_INVALID_THREADID}, src : Reasons]
             /\ pc' = [pc EXCEPT ![t] = "nuke"]
             /\ nuking'.tid \in Tids \ {t} /\ nuking'.src # "None"
             /\ \A v \in Tids \ {t} : k < v /\ v < nuking'.tid => pc[v] = "none"
  <2>1. u \in Nat /\ \A v \in Tids : v \in Nat
    BY SchedulerAssumption
  <2>2. \A v \in Tids \ {t} : k < v /\ v < u => v \notin others
    BY <1>3, <2>1
  <2> QED  BY <1>1, <1>3, <2>2 DEF Goto
<1>4. \/ others = {} /\ nuking' = NotNuking /\ Goto(t, "reap")
      \/ \E u \in others : /\ \A v \in others : u <= v
                           /\ nuking' = [tid |-> u, src |-> src]
                           /\ Goto(t, "nuke")
  BY DEF nuke_from
<1> QED  BY <1>2, <1>3, <1>4

-----------------------------------------------------------------------------
(* Every action keeps the invariant.                                       *)

\* Asking for the lock changes nothing the invariant speaks of.
LEMMA WaitInv ==
  ASSUME IInv, NEW t \in Tids, Wait(t)
  PROVE  IInv'
<1>. USE DEF IInv, Wait, threadVars, Ordered!Arrive, Unordered!Arrive, Goto,
             Holding, InSyscall, Reaping, PCs, Waiting, Reasons
<1>1. Types'
  BY DEF Types, VG_INVALID_THREADID
<1>2. RunningHasLock'
  BY DEF Types, RunningHasLock, VG_INVALID_THREADID
<1>3. StackNotShared'
  BY DEF Types, StackNotShared
<1>n. NukeInv'
  BY DEF Types, NukeInv
<1>4. ReapInv'
  BY DEF Types, ReapInv
<1>5. FiniIsLast'
  BY DEF Types, FiniIsLast
<1> QED  BY <1>n, <1>1, <1>2, <1>3, <1>4, <1>5

\* Getting the lock: it was free, so nobody was running.
LEMMA ResumeInv ==
  ASSUME IInv, NEW t \in Tids, Resume(t)
  PROVE  IInv'
<1>. USE DEF IInv, Resume, acquire_BigLock, Ordered!Enter, Goto, Holding,
             InSyscall, Reaping, PCs, Waiting, Reasons
<1>1. Types'
  BY DEF Types, VG_INVALID_THREADID
<1>2. RunningHasLock'
  <2>1. \A u \in Tids : u \in inside' <=> pc'[u] \in Holding
    BY DEF Types, RunningHasLock
  <2>2. inside' = IF running_tid' = VG_INVALID_THREADID THEN {} ELSE {running_tid'}
    BY SchedulerAssumption DEF Types, RunningHasLock, VG_INVALID_THREADID
  <2>3. \A u \in Tids :
          /\ status'[u] = "Runnable" <=> pc'[u] \in Holding
          /\ status'[u] = "WaitSys" <=> pc'[u] \in InSyscall
          /\ status'[u] = "Init" <=> pc'[u] = "start"
          /\ status'[u] = "Yielding" <=> pc'[u] \in {"slice", "yield"}
    BY DEF Types, RunningHasLock
  <2>4. inside' = {u \in Tids : pc'[u] \in Holding}
    BY <1>1, <2>1 DEF Types
  <2> QED  BY <2>2, <2>3, <2>4 DEF RunningHasLock
<1>3. StackNotShared'
  BY DEF Types, StackNotShared
<1>n. NukeInv'
  BY DEF Types, NukeInv
<1>4. ReapInv'
  BY DEF Types, ReapInv
<1>5. FiniIsLast'
  BY DEF Types, FiniIsLast
<1> QED  BY <1>n, <1>1, <1>2, <1>3, <1>4, <1>5

\* Getting the lock and finding a fatal signal: a thread that polls is not
\* exiting, so if anybody is in reap_threads it is this one.
LEMMA ResumeFatalInv ==
  ASSUME IInv, NEW t \in Tids, ResumeFatal(t)
  PROVE  IInv'
<1>. USE DEF Holding, InSyscall, Reaping, PCs, Reasons
<1>1. /\ pc[t] \in {"slice", "done", "handler", "yield"} /\ exitreason[t] = "None"
      /\ acquire_BigLock(t) /\ nuke_from(t, VG_INVALID_THREADID, "FatalSig")
      /\ final' = [final EXCEPT ![t] = IF pc[t] = "yield" THEN @ ELSE "FatalSig"]
      /\ UNCHANGED <<exitreason, dying>>
  BY DEF ResumeFatal, poll_signals, EndOthers, is_exiting
<1>2. PICK where \in {"nuke", "reap"} :
        /\ pc' = [pc EXCEPT ![t] = where]
        /\ nuking' \in [tid : Tids \union {VG_INVALID_THREADID}, src : Reasons]
        /\ where = "nuke" =>
             /\ nuking'.tid \in Tids \ {t} /\ nuking'.src # "None"
             /\ \A u \in Tids \ {t} : u < nuking'.tid => pc[u] = "none"
        /\ where = "reap" => \A u \in Tids \ {t} : pc[u] = "none"
  BY <1>1, NukeFrom, SchedulerAssumption DEF VG_INVALID_THREADID
<1>. USE DEF IInv, acquire_BigLock, Ordered!Enter
<1>3. Types'
  BY <1>1, <1>2 DEF Types
<1>4. RunningHasLock'
  <2>1. \A u \in Tids : u \in inside' <=> pc'[u] \in Holding
    BY <1>1, <1>2 DEF Types, RunningHasLock
  <2>2. inside' = IF running_tid' = VG_INVALID_THREADID THEN {} ELSE {running_tid'}
    BY <1>1, SchedulerAssumption DEF Types, RunningHasLock, VG_INVALID_THREADID
  <2>3. \A u \in Tids :
          /\ status'[u] = "Runnable" <=> pc'[u] \in Holding
          /\ status'[u] = "WaitSys" <=> pc'[u] \in InSyscall
          /\ status'[u] = "Init" <=> pc'[u] = "start"
          /\ status'[u] = "Yielding" <=> pc'[u] \in {"slice", "yield"}
    BY <1>1, <1>2 DEF Types, RunningHasLock
  <2>4. inside' = {u \in Tids : pc'[u] \in Holding}
    BY <1>3, <2>1 DEF Types
  <2> QED  BY <2>2, <2>3, <2>4 DEF RunningHasLock
<1>5. StackNotShared'
  BY <1>1, <1>2 DEF Types, StackNotShared
<1>6. \A u \in Tids \ {t} : pc[u] \notin Reaping \union {"nuke"}
  BY <1>1 DEF Types, RunningHasLock, ReapInv
<1>7. final'[t] # "None"
  BY <1>1 DEF Types, ReapInv
<1>8. NukeInv'
  BY <1>1, <1>2, <1>6, <1>7 DEF Types, NukeInv
<1>9. ReapInv'
  BY <1>1, <1>2, <1>6, <1>7 DEF Types, ReapInv
<1>10. FiniIsLast'
  BY <1>1, <1>2 DEF Types, FiniIsLast
<1> QED  BY <1>3, <1>4, <1>5, <1>8, <1>9, <1>10

\* A block of the guest: the thread keeps the lock.
LEMMA GuestInv ==
  ASSUME IInv, NEW t \in Tids, Guest(t)
  PROVE  IInv'
<1>. USE DEF IInv, Guest, run_thread_for_a_while, lockVars, Goto, Holding,
             InSyscall, Reaping, PCs, Waiting, Reasons
<1>1. Types'
  BY DEF Types, VG_INVALID_THREADID
<1>2. RunningHasLock'
  BY DEF Types, RunningHasLock, VG_INVALID_THREADID
<1>3. StackNotShared'
  BY DEF Types, StackNotShared
<1>n. NukeInv'
  BY OneHolder DEF Types, NukeInv
<1>4. ReapInv'
  BY DEF Types, ReapInv
<1>5. FiniIsLast'
  BY DEF Types, FiniIsLast
<1> QED  BY <1>n, <1>1, <1>2, <1>3, <1>4, <1>5

\* The end of a slice: the lock is given back.
LEMMA TimesliceInv ==
  ASSUME IInv, NEW t \in Tids, Timeslice(t)
  PROVE  IInv'
<1>. USE DEF IInv, Timeslice, release_BigLock, Ordered!Leave, Goto, Holding,
             InSyscall, Reaping, PCs, Waiting, Reasons
<1>1. Types'
  BY DEF Types, VG_INVALID_THREADID
<1>2. RunningHasLock'
  BY DEF Types, RunningHasLock, VG_INVALID_THREADID
<1>3. StackNotShared'
  BY DEF Types, StackNotShared
<1>n. NukeInv'
  BY OneHolder DEF Types, NukeInv
<1>4. ReapInv'
  BY DEF Types, ReapInv
<1>5. FiniIsLast'
  BY DEF Types, FiniIsLast
<1> QED  BY <1>n, <1>1, <1>2, <1>3, <1>4, <1>5

\* A running thread ends all others: exit_group, execve and fatal signals.
LEMMA EndOthersInv ==
  ASSUME IInv, NEW t \in Tids, run_thread_for_a_while(t), NEW src \in Reasons \ {"None"},
         NEW then \in {"ExitThread", "FatalSig", "execve"}, EndOthers(t, src, then),
         UNCHANGED <<status, exitreason, running_tid, dying, lockVars>>
  PROVE  IInv'
<1>. USE DEF Holding, InSyscall, Reaping, PCs, Reasons, lockVars
<1>1. /\ pc[t] = "run" /\ exitreason[t] = "None"
      /\ nuke_from(t, VG_INVALID_THREADID, src) /\ final' = [final EXCEPT ![t] = then]
  BY DEF run_thread_for_a_while, EndOthers, is_exiting
<1>2. PICK where \in {"nuke", "reap"} :
        /\ pc' = [pc EXCEPT ![t] = where]
        /\ nuking' \in [tid : Tids \union {VG_INVALID_THREADID}, src : Reasons]
        /\ where = "nuke" =>
             /\ nuking'.tid \in Tids \ {t} /\ nuking'.src # "None"
             /\ \A u \in Tids \ {t} : u < nuking'.tid => pc[u] = "none"
        /\ where = "reap" => \A u \in Tids \ {t} : pc[u] = "none"
  BY <1>1, NukeFrom, SchedulerAssumption DEF VG_INVALID_THREADID
<1>3. \A u \in Tids : pc[u] \notin Reaping \union {"nuke"}
  BY <1>1, NobodyReaps DEF is_exiting
<1>. USE DEF IInv
<1>4. Types'
  BY <1>1, <1>2 DEF Types
<1>5. RunningHasLock'
  BY <1>1, <1>2 DEF Types, RunningHasLock
<1>6. StackNotShared'
  BY <1>1, <1>2 DEF Types, StackNotShared
<1>7. NukeInv'
  BY <1>1, <1>2, <1>3 DEF Types, NukeInv
<1>8. ReapInv'
  BY <1>1, <1>2, <1>3 DEF Types, ReapInv
<1>9. FiniIsLast'
  BY <1>1, <1>2 DEF Types, FiniIsLast
<1> QED  BY <1>4, <1>5, <1>6, <1>7, <1>8, <1>9

\* Another thread is told to die.
LEMMA nukeInv ==
  ASSUME IInv, NEW t \in Tids, nuke_all_threads_except(t)
  PROVE  IInv'
<1>. USE DEF Holding, InSyscall, Reaping, PCs, Reasons, lockVars
<1>. DEFINE k == nuking.tid
<1>1. /\ pc[t] = "nuke" /\ exitreason' = [exitreason EXCEPT ![k] = nuking.src]
      /\ nuke_from(t, k, nuking.src)
      /\ UNCHANGED <<status, running_tid, final, dying, lockVars>>
  BY DEF nuke_all_threads_except
<1>2. /\ k \in Tids \ {t} /\ nuking.src \in Reasons \ {"None"}
      /\ exitreason[t] = "None" /\ final[t] # "None"
      /\ \A u \in Tids \ {t} : pc[u] \notin Reaping
      /\ \A u \in Tids \ {t} : pc[u] # "none" /\ u < k => exitreason[u] # "None"
  <2>1. nuking.src \in Reasons
    BY DEF IInv, Types
  <2>2. NukeInv
    BY DEF IInv
  <2> QED  BY <1>1, <2>1, <2>2 DEF NukeInv
<1>3. PICK where \in {"nuke", "reap"} :
        /\ pc' = [pc EXCEPT ![t] = where]
        /\ nuking' \in [tid : Tids \union {VG_INVALID_THREADID}, src : Reasons]
        /\ where = "nuke" =>
             /\ nuking'.tid \in Tids \ {t} /\ nuking'.src # "None"
             /\ \A u \in Tids \ {t} : k < u /\ u < nuking'.tid => pc[u] = "none"
        /\ where = "reap" => \A u \in Tids \ {t} : k < u => pc[u] = "none"
  BY <1>1, <1>2, NukeFrom
<1>. HIDE DEF k
<1>4. \A u \in Tids \ {t} : pc[u] \notin Holding
  BY <1>1, OneHolder
<1>5. \A u \in Tids \ {t} : pc[u] # "none" /\ ~ (k < u) => exitreason'[u] # "None"
  <2>1. \A u \in Tids : u = k \/ u < k \/ k < u
    <3>1. k \in Nat /\ \A u \in Tids : u \in Nat
      BY <1>2, SchedulerAssumption
    <3> QED  BY <3>1
  <2>2. \A u \in Tids : exitreason'[u] = IF u = k THEN nuking.src ELSE exitreason[u]
    BY <1>1 DEF IInv, Types
  <2>3. nuking.src # "None"
    BY <1>2
  <2> QED  BY <1>2, <2>1, <2>2, <2>3, Zenon
<1>6. exitreason' \in [Tids -> Reasons] /\ exitreason'[t] = "None"
  BY <1>1, <1>2 DEF IInv, Types
<1>7. Types'
  BY <1>1, <1>3, <1>6 DEF IInv, Types
<1>8. RunningHasLock'
  BY <1>1, <1>3 DEF IInv, Types, RunningHasLock
<1>9. StackNotShared'
  BY <1>1, <1>3 DEF IInv, Types, StackNotShared
<1>10. NukeInv'
  <2>1. SUFFICES ASSUME where = "nuke"
                 PROVE  /\ \A u \in Tids \ {t} : pc'[u] \notin Reaping
                        /\ \A u \in Tids \ {t} :
                             pc'[u] # "none" /\ u < nuking'.tid => exitreason'[u] # "None"
    BY <1>1, <1>2, <1>3, <1>4, <1>6 DEF IInv, Types, NukeInv
  <2>2. \A u \in Tids \ {t} : pc'[u] = pc[u]
    BY <1>3 DEF IInv, Types
  <2>3. \A u \in Tids \ {t} : pc[u] # "none" /\ u < nuking'.tid => ~ (k < u)
    BY <1>3, <2>1, Zenon
  <2> QED  BY <1>2, <1>5, <2>2, <2>3, Zenon
<1>11. ReapInv'
  <2>1. \A u \in Tids : pc'[u] = IF u = t THEN where ELSE pc[u]
    BY <1>3 DEF IInv, Types
  <2>2. \A u \in Tids \ {t} : where = "reap" /\ pc[u] # "none" => exitreason'[u] # "None"
    BY <1>3, <1>5
  <2>3. \A u \in Tids : pc'[u] \in Reaping =>
          /\ exitreason'[u] = "None" /\ final'[u] # "None"
          /\ \A v \in Tids \ {u} : pc'[v] # "none" => exitreason'[v] # "None"
    <3>1. SUFFICES ASSUME NEW u \in Tids, pc'[u] \in Reaping
                   PROVE  /\ exitreason'[u] = "None" /\ final'[u] # "None"
                          /\ \A v \in Tids \ {u} : pc'[v] # "none" => exitreason'[v] # "None"
      OBVIOUS
    <3>2. u = t /\ where = "reap"
      BY <1>2, <2>1, <3>1
    <3> QED  BY <1>1, <1>2, <1>6, <2>1, <2>2, <3>2
  <2>4. \A u \in Tids : pc'[u] # "none" /\ exitreason'[u] = "ExitProcess" =>
          \E v \in Tids \ {u} : pc'[v] \in Reaping \union {"nuke"}
    BY <1>6, <2>1
  <2> QED  BY <2>3, <2>4 DEF ReapInv
<1>12. FiniIsLast'
  BY <1>1, <1>3, <1>4 DEF IInv, Types, FiniIsLast
<1> QED  BY <1>7, <1>8, <1>9, <1>10, <1>11, <1>12 DEF IInv

\* A thread ends itself.
LEMMA sys_exitInv ==
  ASSUME IInv, NEW t \in Tids, sys_exit(t)
  PROVE  IInv'
<1>. USE DEF IInv, sys_exit, run_thread_for_a_while, lockVars, Goto, Holding,
             InSyscall, Reaping, PCs, Waiting, Reasons
<1>1. Types'
  BY DEF Types, VG_INVALID_THREADID
<1>2. RunningHasLock'
  BY DEF Types, RunningHasLock, VG_INVALID_THREADID
<1>3. StackNotShared'
  BY DEF Types, StackNotShared
<1>n. NukeInv'
  BY OneHolder DEF Types, NukeInv
<1>4. ReapInv'
  BY DEF Types, ReapInv
<1>5. FiniIsLast'
  BY DEF Types, FiniIsLast
<1> QED  BY <1>n, <1>1, <1>2, <1>3, <1>4, <1>5

\* A thread is created: the slot is Empty, so there was nobody on it, and the
\* creator is not exiting, so nobody is in reap_threads.
LEMMA do_cloneInv ==
  ASSUME IInv, NEW t \in Tids, do_clone(t)
  PROVE  IInv'
<1>. USE DEF IInv, do_clone, run_thread_for_a_while, lockVars, Goto, Holding,
             InSyscall, Reaping, PCs, Waiting, Reasons
<1>1. \A u \in Tids : /\ pc[u] \notin Reaping
                      /\ pc[u] # "none" => exitreason[u] # "ExitProcess"
  BY NobodyReaps DEF is_exiting
<1>2. Types'
  BY DEF Types, VG_INVALID_THREADID
<1>3. RunningHasLock'
  BY DEF Types, RunningHasLock, VG_INVALID_THREADID
<1>4. StackNotShared'
  BY DEF Types, StackNotShared, RunningHasLock
<1>n. NukeInv'
  BY OneHolder DEF Types, NukeInv
<1>5. ReapInv'
  BY <1>1 DEF Types, ReapInv
<1>6. FiniIsLast'
  BY DEF Types, FiniIsLast
<1> QED  BY <1>n, <1>2, <1>3, <1>4, <1>5, <1>6

\* The child of a fork has one thread.
LEMMA sys_forkInv ==
  ASSUME IInv, NEW t \in Tids, sys_fork(t)
  PROVE  IInv'
<1>. USE DEF IInv, sys_fork, run_thread_for_a_while, Goto, Holding, InSyscall,
             Reaping, PCs, Waiting, Reasons
<1>1. \A u \in Tids : /\ pc[u] \notin Reaping
                      /\ pc[u] # "none" => exitreason[u] # "ExitProcess"
  BY NobodyReaps DEF is_exiting
<1>2. Types'
  BY DEF Types, VG_INVALID_THREADID
<1>3. RunningHasLock'
  BY DEF Types, RunningHasLock, VG_INVALID_THREADID
<1>4. StackNotShared'
  BY DEF Types, StackNotShared
<1>n. NukeInv'
  BY OneHolder DEF Types, NukeInv
<1>5. ReapInv'
  BY <1>1 DEF Types, ReapInv
<1>6. FiniIsLast'
  BY DEF Types, FiniIsLast
<1> QED  BY <1>n, <1>2, <1>3, <1>4, <1>5, <1>6

\* The lock is given back for a system call.
LEMMA SysBeginInv ==
  ASSUME IInv, NEW t \in Tids, SysBegin(t)
  PROVE  IInv'
<1>. USE DEF IInv, SysBegin, run_thread_for_a_while, release_BigLock,
             Ordered!Leave, Goto, Holding, InSyscall, Reaping, PCs, Waiting,
             Reasons
<1>1. Types'
  BY DEF Types, VG_INVALID_THREADID
<1>2. RunningHasLock'
  BY DEF Types, RunningHasLock, VG_INVALID_THREADID
<1>3. StackNotShared'
  BY DEF Types, StackNotShared
<1>n. NukeInv'
  BY OneHolder DEF Types, NukeInv
<1>4. ReapInv'
  BY DEF Types, ReapInv
<1>5. FiniIsLast'
  BY DEF Types, FiniIsLast
<1> QED  BY <1>n, <1>1, <1>2, <1>3, <1>4, <1>5

\* Into the kernel, and back by itself or by a signal.
LEMMA KernelInv ==
  ASSUME IInv, NEW t \in Tids, SysEnter(t) \/ SysReturn(t) \/ Killed(t) \/ Signalled(t)
  PROVE  IInv'
<1>. USE DEF IInv, SysEnter, SysReturn, Killed, Signalled, lockVars, Goto,
             Holding, InSyscall, Reaping, PCs, Waiting, Reasons
<1>1. Types'
  BY DEF Types, VG_INVALID_THREADID
<1>2. RunningHasLock'
  <2>1. \A u \in Tids : u \in inside' <=> pc'[u] \in Holding
    BY DEF Types, RunningHasLock
  <2>2. inside' = IF running_tid' = VG_INVALID_THREADID THEN {} ELSE {running_tid'}
    BY DEF Types, RunningHasLock, VG_INVALID_THREADID
  <2>3. \A u \in Tids :
          /\ status'[u] = "Runnable" <=> pc'[u] \in Holding
          /\ status'[u] = "WaitSys" <=> pc'[u] \in InSyscall
          /\ status'[u] = "Init" <=> pc'[u] = "start"
          /\ status'[u] = "Yielding" <=> pc'[u] \in {"slice", "yield"}
    BY DEF Types, RunningHasLock
  <2>4. inside' = {u \in Tids : pc'[u] \in Holding}
    BY <1>1, <2>1 DEF Types
  <2> QED  BY <2>2, <2>3, <2>4 DEF RunningHasLock
<1>3. StackNotShared'
  BY DEF Types, StackNotShared
<1>n. NukeInv'
  BY DEF Types, NukeInv
<1>4. ReapInv'
  BY DEF Types, ReapInv
<1>5. FiniIsLast'
  BY DEF Types, FiniIsLast
<1> QED  BY <1>n, <1>1, <1>2, <1>3, <1>4, <1>5

\* A round of reap_threads: the lock is given back for the others to die.
LEMMA reap_yieldInv ==
  ASSUME IInv, NEW t \in Tids, reap_yield(t)
  PROVE  IInv'
<1>. USE DEF IInv, reap_yield, release_BigLock, Ordered!Leave, Goto, Holding,
             InSyscall, Reaping, PCs, Waiting, Reasons
<1>1. Types'
  BY DEF Types, VG_INVALID_THREADID
<1>2. RunningHasLock'
  BY DEF Types, RunningHasLock, VG_INVALID_THREADID
<1>3. StackNotShared'
  BY DEF Types, StackNotShared
<1>n. NukeInv'
  BY OneHolder DEF Types, NukeInv
<1>4. ReapInv'
  BY DEF Types, ReapInv
<1>5. FiniIsLast'
  BY DEF Types, FiniIsLast
<1> QED  BY <1>n, <1>1, <1>2, <1>3, <1>4, <1>5

\* The others are gone, so nobody is left who was told to die with the process.
LEMMA reap_doneInv ==
  ASSUME IInv, NEW t \in Tids, reap_done(t)
  PROVE  IInv'
<1>. USE DEF IInv, reap_done, lockVars, only_thread, Goto, Holding, InSyscall,
             Reaping, PCs, Waiting, Reasons
<1>1. \A u \in Tids : status[u] \in {"Empty", "Zombie"} <=> pc[u] = "none"
  BY Vacant
<1>2. Types'
  BY DEF Types, VG_INVALID_THREADID
<1>3. RunningHasLock'
  BY DEF Types, RunningHasLock, VG_INVALID_THREADID
<1>4. StackNotShared'
  BY DEF Types, StackNotShared
<1>n. NukeInv'
  BY OneHolder DEF Types, NukeInv
<1>5. ReapInv'
  BY <1>1 DEF Types, ReapInv
<1>6. FiniIsLast'
  BY DEF Types, FiniIsLast
<1> QED  BY <1>n, <1>2, <1>3, <1>4, <1>5, <1>6

\* A thread leaves the scheduler, and others are alive.
LEMMA exit_threadInv ==
  ASSUME IInv, NEW t \in Tids, pc[t] = "run", is_exiting(t), exit_thread(t),
         UNCHANGED <<exitreason, final, nuking>>
  PROVE  IInv'
<1>. USE DEF IInv, exit_thread, release_BigLock, Ordered!Leave, is_exiting,
             Goto, Holding, InSyscall, Reaping, PCs, Waiting, Reasons
<1>1. Types'
  BY DEF Types, VG_INVALID_THREADID
<1>2. RunningHasLock'
  <2>1. \A u \in Tids : u \in inside' <=> pc'[u] \in Holding
    BY DEF Types, RunningHasLock
  <2>2. inside' = IF running_tid' = VG_INVALID_THREADID THEN {} ELSE {running_tid'}
    BY DEF Types, RunningHasLock, VG_INVALID_THREADID
  <2>3. \A u \in Tids :
          /\ status'[u] = "Runnable" <=> pc'[u] \in Holding
          /\ status'[u] = "WaitSys" <=> pc'[u] \in InSyscall
          /\ status'[u] = "Init" <=> pc'[u] = "start"
          /\ status'[u] = "Yielding" <=> pc'[u] \in {"slice", "yield"}
    BY DEF Types, RunningHasLock
  <2>4. inside' = {u \in Tids : pc'[u] \in Holding}
    BY <1>1, <2>1 DEF Types
  <2> QED  BY <2>2, <2>3, <2>4 DEF RunningHasLock
<1>3. StackNotShared'
  BY DEF Types, StackNotShared, RunningHasLock
<1>n. NukeInv'
  BY OneHolder DEF Types, NukeInv
<1>4. ReapInv'
  BY DEF Types, ReapInv
<1>5. FiniIsLast'
  BY DEF Types, FiniIsLast
<1> QED  BY <1>n, <1>1, <1>2, <1>3, <1>4, <1>5

\* The last thread leaves it.  Nobody is in reap_threads, so it was not told to
\* die with the process.
LEMMA shutdownInv ==
  ASSUME IInv, NEW t \in Tids, pc[t] = "run", is_exiting(t), only_thread(t),
         Goto(t, "shutdown"),
         UNCHANGED <<status, running_tid, dying, lockVars, exitreason, final, nuking>>
  PROVE  IInv'
<1>. USE DEF IInv, lockVars, only_thread, is_exiting, Goto, Holding,
             InSyscall, Reaping, PCs, Waiting, Reasons
<1>1. \A u \in Tids : status[u] \in {"Empty", "Zombie"} <=> pc[u] = "none"
  BY Vacant
<1>2. Types'
  BY DEF Types, VG_INVALID_THREADID
<1>3. RunningHasLock'
  BY DEF Types, RunningHasLock, VG_INVALID_THREADID
<1>4. StackNotShared'
  BY DEF Types, StackNotShared, RunningHasLock
<1>n. NukeInv'
  BY OneHolder DEF Types, NukeInv
<1>5. ReapInv'
  BY DEF Types, ReapInv
<1>6. FiniIsLast'
  BY <1>1 DEF Types, FiniIsLast, ReapInv
<1> QED  BY <1>n, <1>2, <1>3, <1>4, <1>5, <1>6

\* The last instructions of a thread: its slot is free from now on.
LEMMA DieInv ==
  ASSUME IInv, NEW t \in Tids, Die(t)
  PROVE  IInv'
<1>. USE DEF IInv, Die, lockVars, Goto, Holding, InSyscall, Reaping, PCs,
             Waiting, Reasons
<1>1. Types'
  BY DEF Types, VG_INVALID_THREADID
<1>2. RunningHasLock'
  <2>1. \A u \in Tids : u \in inside' <=> pc'[u] \in Holding
    BY DEF Types, RunningHasLock, StackNotShared
  <2>2. inside' = IF running_tid' = VG_INVALID_THREADID THEN {} ELSE {running_tid'}
    BY DEF Types, RunningHasLock, StackNotShared, VG_INVALID_THREADID
  <2>3. \A u \in Tids :
          /\ status'[u] = "Runnable" <=> pc'[u] \in Holding
          /\ status'[u] = "WaitSys" <=> pc'[u] \in InSyscall
          /\ status'[u] = "Init" <=> pc'[u] = "start"
          /\ status'[u] = "Yielding" <=> pc'[u] \in {"slice", "yield"}
    BY DEF Types, RunningHasLock, StackNotShared
  <2>4. inside' = {u \in Tids : pc'[u] \in Holding}
    BY <1>1, <2>1 DEF Types
  <2> QED  BY <2>2, <2>3, <2>4 DEF RunningHasLock
<1>3. StackNotShared'
  BY DEF Types, StackNotShared
<1>n. NukeInv'
  BY DEF Types, NukeInv
<1>4. ReapInv'
  BY DEF Types, ReapInv
<1>5. FiniIsLast'
  BY DEF Types, FiniIsLast
<1> QED  BY <1>n, <1>1, <1>2, <1>3, <1>4, <1>5

-----------------------------------------------------------------------------

\* A step of a thread, by cases on the action.
LEMMA StepInv ==
  ASSUME IInv, NEW t \in Tids, Step(t)
  PROVE  IInv'
<1>1. CASE Wait(t) \/ Resume(t) \/ ResumeFatal(t)
  BY <1>1, WaitInv, ResumeInv, ResumeFatalInv
<1>2. CASE Guest(t) \/ Timeslice(t) \/ sys_exit(t)
  BY <1>2, GuestInv, TimesliceInv, sys_exitInv
<1>3. CASE Fatal(t)
  BY <1>3, EndOthersInv DEF Fatal, Reasons
<1>4. CASE sys_exit_group(t)
  BY <1>4, EndOthersInv DEF sys_exit_group, Reasons
<1>5. CASE sys_execve(t)
  BY <1>5, EndOthersInv DEF sys_execve, Reasons
<1>6. CASE do_clone(t) \/ sys_fork(t) \/ SysBegin(t)
  BY <1>6, do_cloneInv, sys_forkInv, SysBeginInv
<1>7. CASE SysEnter(t) \/ Killed(t)
  BY <1>7, KernelInv
<1>8. CASE nuke_all_threads_except(t) \/ reap_yield(t) \/ reap_done(t)
  BY <1>8, nukeInv, reap_yieldInv, reap_doneInv
<1>9. CASE run_a_thread_NORETURN(t)
  <2>1. CASE exit_thread(t)
    BY <1>9, <2>1, exit_threadInv DEF run_a_thread_NORETURN
  <2>2. CASE ~ exit_thread(t)
    BY <1>9, <2>2, shutdownInv DEF run_a_thread_NORETURN
  <2> QED  BY <2>1, <2>2
<1> QED  BY <1>1, <1>2, <1>3, <1>4, <1>5, <1>6, <1>7, <1>8, <1>9 DEF Step

\* The ends of the process change nothing but ended.
LEMMA QuietInv ==
  ASSUME IInv, UNCHANGED <<threadVars, lockVars>>
  PROVE  IInv'
<1>. USE DEF threadVars, lockVars
<1>1. Types'
  BY DEF IInv, Types
<1>2. RunningHasLock'
  BY DEF IInv, RunningHasLock
<1>3. StackNotShared'
  BY DEF IInv, StackNotShared
<1>n. NukeInv'
  BY DEF IInv, NukeInv
<1>4. ReapInv'
  BY DEF IInv, ReapInv
<1>5. FiniIsLast'
  BY DEF IInv, FiniIsLast
<1> QED  BY <1>n, <1>1, <1>2, <1>3, <1>4, <1>5 DEF IInv

\* The inductive invariant of the scheduler (scheduler.c, run_a_thread_NORETURN,
\* reap_threads), for any number of slots, slices and signals: the table, the
\* lock and the places of the threads agree, at most one thread is in
\* reap_threads, and who was told to die with the process is waited for.
THEOREM SchedulerInvariant == Spec => []IInv
<1>1. Init => IInv
  <2>1. SUFFICES ASSUME Init PROVE IInv
    OBVIOUS
  <2>. USE <2>1, SchedulerAssumption DEF Init, Ordered!LockInit
  <2>2. Types
    BY DEF Types, PCs, Reasons, Holding, InSyscall, VG_INVALID_THREADID, NotNuking
  <2>3. RunningHasLock
    BY DEF RunningHasLock, Holding, InSyscall, VG_INVALID_THREADID
  <2>4. StackNotShared
    BY DEF StackNotShared
  <2>n. NukeInv
    BY DEF NukeInv, Reaping
  <2>5. ReapInv
    BY DEF ReapInv, Reaping
  <2>6. FiniIsLast
    BY DEF FiniIsLast
  <2> QED  BY <2>n, <2>2, <2>3, <2>4, <2>5, <2>6 DEF IInv
<1>2. IInv /\ [Next]_vars => IInv'
  <2>1. SUFFICES ASSUME IInv, [Next]_vars PROVE IInv'
    OBVIOUS
  <2>2. CASE UNCHANGED vars
    BY <2>1, <2>2, QuietInv DEF vars
  <2>3. ASSUME NEW t \in Tids, Step(t) PROVE IInv'
    BY <2>1, <2>3, StepInv
  <2>4. ASSUME NEW t \in Tids, SysReturn(t) \/ Signalled(t) \/ Die(t) PROVE IInv'
    BY <2>1, <2>4, KernelInv, DieInv
  <2>5. ASSUME NEW t \in Tids, End(t) PROVE IInv'
    BY <2>1, <2>5, QuietInv DEF End, shutdown_actions, execve_done, clone_panic, nuke_asserts, Ending
  <2> QED  BY <2>1, <2>2, <2>3, <2>4, <2>5 DEF Next, Ended
<1> QED  BY <1>1, <1>2, PTL DEF Spec

\* Whoever runs, in translated code, in a tool's helpers or in its fini, is the
\* one thread with the big lock.
THEOREM RunningCorrect == Spec => []RunningHasLock
<1>1. IInv => RunningHasLock
  BY DEF IInv
<1> QED  BY <1>1, SchedulerInvariant, PTL

\* The "subtle race" of run_a_thread_NORETURN does not happen: nobody is put on
\* a slot whose former thread is still on its stack.
THEOREM StackCorrect == Spec => []StackNotShared
<1>1. IInv => StackNotShared
  BY DEF IInv
<1> QED  BY <1>1, SchedulerInvariant, PTL

\* The tool's fini is called when all other threads are gone, by a thread that
\* ended by itself or by a fatal signal: ct_fini and cl_fini close the file
\* with no helper left to run.
THEOREM FiniCorrect == Spec => []FiniIsLast
<1>1. IInv => FiniIsLast
  BY DEF IInv
<1> QED  BY <1>1, SchedulerInvariant, PTL

=============================================================================
