--------------------------- MODULE ClientSyscall ---------------------------
(***************************************************************************)
(* The system calls and signals of one guest thread: VG_(client_syscall),  *)
(* the assembler that hands a call to the kernel with the guest's signal   *)
(* mask (syscall-amd64-linux.S), and the signal handlers of the core,      *)
(* which find out from the host's instruction pointer how far the call     *)
(* was and repair the guest's state (syswrap-main.c, m_signals.c).  The    *)
(* kernel is external.  What the thread does with the big lock is one      *)
(* step; the other threads, the kernel and senders of signals come in      *)
(* between.                                                                *)
(*                                                                         *)
(* pc is where the host thread is:                                         *)
(*   "guest" in VG_(scheduler), running the guest, with the lock           *)
(*   "masked" in do_syscall_for_client_WRK, before the mask is open        *)
(*   "setup", "at", "complete", "committed": labels [1,2), 2, [3,4), [4,5) *)
(*   "kernel" in the guest's system call                                   *)
(*   "finished" behind label 5, about to take the lock                     *)
(*   "async", "sigvgkill" in a handler of the core, about to take the lock *)
(*   "jumped" back in handle_syscall by longjmp; "dead" out of the loop    *)
(***************************************************************************)
EXTENDS Integers, Sequences

CONSTANTS
  Signals,          \* signals the guest may get
  SIGVGKILL,        \* the core's own signal
  SigSets,          \* signal sets the guest passes to the kernel
  Actions,          \* the handlers it sets up: [flags, mask]
  MaxCalls,         \* bound: system calls of the guest
  MaxSignals        \* bound: signals sent to it

ASSUME SyscallAssumption ==
  /\ SIGVGKILL \notin Signals
  /\ \A m \in SigSets : m \subseteq Signals \union {SIGVGKILL}
  /\ Actions \subseteq [flags : SUBSET {"RESTART", "ONESHOT", "NOMASK"},
                        mask : SUBSET (Signals \union {SIGVGKILL})]
  /\ MaxCalls \in Nat /\ MaxSignals \in Nat

VARIABLES
  pc, ip, host_rax,      \* the host thread, and its registers in a handler
  tst,                   \* the guest thread, below
  action,                \* scss: [flags, mask] of every signal
  pending, current,      \* in the kernel; the one being handled
  made, sent             \* history: system calls made, signals sent

vars == <<pc, ip, host_rax, tst, action, pending, current, made, sent>>

\* The calls that may block (SfMayBlock): the kernel makes the first again
\* after a signal and ends the others with EINTR; the last two come with a mask
\* to wait under.  The calls after which signals are looked for (SfPollAfter).
WithMask == {"rt_sigsuspend", "epoll_pwait"}
MayBlock == {"accept", "poll"} \union WithMask
PollAfter == {"kill", "rt_sigprocmask"}

\* The guest's registers: it is behind its latest system call .kind, or at it,
\* about to make it again.  History: how often this call took effect and how
\* often its post-handler ran.
Fresh == [kind |-> "none", arg |-> {}, rip |-> "after", rax |-> "none",
          effects |-> 0, posts |-> 0]

\* The guest has handlers for its signals; ONESHOT takes one away.
Init ==
  /\ pc = "guest" /\ ip = "setup" /\ host_rax = "none"
  /\ action \in [Signals -> Actions]
  /\ tst = [guest |-> Fresh, frames |-> << >>, sig_mask |-> {}, tmp_sig_mask |-> {},
            handler |-> [s \in Signals |-> "fn"], exitreason |-> "None",
            what |-> "SsIdle"]
  /\ pending = {} /\ current = SIGVGKILL /\ made = 0 /\ sent = 0

is_exiting(t) == t.exitreason # "None"

(***************************************************************************)
(* Delivering a signal to the guest                                        *)
(***************************************************************************)

\* sigframe_create saves the guest's state and mask.
push_signal_frame(t, s) ==
  [t EXCEPT !.frames = Append(@, [sig |-> s, mask |-> t.sig_mask, guest |-> t.guest]),
            !.guest = Fresh]

\* Mutant of deliver_signal: the frame is made with the handler's mask.
deliver_signal_late(t, s) ==
  IF s = SIGVGKILL THEN t
  ELSE IF t.handler[s] = "DFL" THEN [t EXCEPT !.exitreason = "FatalSig"]
  ELSE LET mask == IF "NOMASK" \in action[s].flags
                   THEN t.tmp_sig_mask
                   ELSE t.tmp_sig_mask \union action[s].mask \union {s}
       IN  push_signal_frame([t EXCEPT
              !.handler[s] = IF "ONESHOT" \in action[s].flags THEN "DFL" ELSE @,
              !.sig_mask = mask,
              !.tmp_sig_mask = mask], s)

\* The default action ends the process.  For SIGVGKILL there is nothing to do.
deliver_signal(t, s) ==
  IF s = SIGVGKILL THEN t
  ELSE IF t.handler[s] = "DFL" THEN [t EXCEPT !.exitreason = "FatalSig"]
  ELSE LET mask == IF "NOMASK" \in action[s].flags
                   THEN t.tmp_sig_mask
                   ELSE t.tmp_sig_mask \union action[s].mask \union {s}
       IN  [push_signal_frame(t, s) EXCEPT
              !.handler[s] = IF "ONESHOT" \in action[s].flags THEN "DFL" ELSE @,
              !.sig_mask = mask,
              !.tmp_sig_mask = mask]

\* poll_signals in state t, of the signals in pend.
poll_signals(t, pend) ==
  LET found == pend \ t.sig_mask
  IN  IF is_exiting(t) \/ found = {}
      THEN tst' = t /\ pending' = pend
      ELSE \E s \in found : tst' = deliver_signal(t, s) /\ pending' = pend \ {s}

\* The loop of VG_(scheduler) goes on or is left.  The registers of a host
\* thread that is not in a system call are of no account.
Loop ==
  /\ pc' = IF is_exiting(tst') THEN "dead" ELSE "guest"
  /\ ip' = "setup" /\ host_rax' = "none" /\ current' = SIGVGKILL
  /\ UNCHANGED action

(***************************************************************************)
(* The end of a system call                                                *)
(***************************************************************************)

\* The result, in sci->status and in the guest's RAX.
Complete(t, res) == [t EXCEPT !.what = "SsComplete", !.guest.rax = res]

\* What the post-handler may make of a success: open and accept fail when the
\* core does not like the descriptor.
AfterPost(t) ==
  IF t.guest.kind \in {"open", "accept"} THEN {"ok", "refused"} ELSE {"ok"}

post_syscall(t, r) ==
  IF t.what # "SsComplete" \/ t.guest.rax # "ok" THEN [t EXCEPT !.what = "SsIdle"]
  ELSE [t EXCEPT !.what = "SsIdle", !.guest = [t.guest EXCEPT !.rax = r, !.posts = @ + 1]]

\* fixup_guest_state_to_restart_syscall: RAX still has the number.
Restart(t) == [t EXCEPT !.guest.rip = "at", !.what = "SsIdle"]

\* fixup_guest_state_after_syscall_interrupted
fixup(t, restart, r) ==
  IF ip = "setup" \/ (ip = "at" /\ restart) THEN Restart(t)
  ELSE post_syscall(Complete(t, CASE ip = "at" -> "EINTR"
                                  [] ip = "complete" -> host_rax
                                  [] ip = "committed" -> t.guest.rax), r)

(***************************************************************************)
(* VG_(client_syscall)                                                     *)
(***************************************************************************)

Calling == pc = "guest" /\ ~ is_exiting(tst)

\* The thread in the pre-handler of call k with argument m: a new call, or one
\* that was interrupted and is made again.
NewCall(k, m) ==
  [tst EXCEPT !.guest = [Fresh EXCEPT !.kind = k, !.arg = m, !.rax = "sysno"],
              !.what = "SsHandToKernel"]

SameCall == [tst EXCEPT !.guest.rip = "after", !.what = "SsHandToKernel"]

CanCall ==
  /\ Calling /\ tst.guest.rip = "after"
  /\ made < MaxCalls /\ made' = made + 1

\* The call takes effect.
Effect(t) == [t EXCEPT !.guest.effects = @ + 1]

\* It is over without having left the lock.
Return(t, res, pend) ==
  /\ \E r \in AfterPost(t) :
       LET p == post_syscall(Complete(t, res), r)
       IN  IF t.guest.kind \in PollAfter
           THEN poll_signals(p, pend)
           ELSE tst' = p /\ pending' = pend
  /\ Loop

\* A call that is made directly, or that its pre-handler refuses.
open ==
  /\ CanCall
  /\ LET t == NewCall("open", {})
     IN  Return(Effect(t), "ok", pending) \/ Return(t, "err", pending)
  /\ UNCHANGED sent

\* To the process itself.
sys_kill(s) ==
  /\ CanCall /\ sent < MaxSignals
  /\ sent' = sent + 1
  /\ Return(Effect(NewCall("kill", {})), "ok", pending \union {s})

do_setmask(t, m) == [t EXCEPT !.sig_mask = m, !.tmp_sig_mask = m]

rt_sigprocmask(m) ==
  /\ CanCall
  /\ Return(Effect(do_setmask(NewCall("rt_sigprocmask", {}), m)), "ok", pending)
  /\ UNCHANGED sent

\* The end of a handler: sigframe_destroy puts everything back, and the result
\* is not written.
rt_sigreturn ==
  /\ Calling /\ tst.guest.rip = "after" /\ tst.frames # << >>
  /\ LET n == Len(tst.frames)
         f == tst.frames[n]
     IN  poll_signals([do_setmask(tst, f.mask) EXCEPT !.guest = f.guest,
                                                      !.frames = SubSeq(@, 1, n - 1)],
                      pending)
  /\ Loop
  /\ UNCHANGED <<made, sent>>

\* Mutant of sanitize_client_sigmask: the guest's set as it is.
sanitize_client_sigmask_not(m) == m

sanitize_client_sigmask(m) == m \ {SIGVGKILL}

\* The mask of a call in WithMask as its pre-handler lets it through.
rt_sigsuspend(m) == m \ {SIGVGKILL}
epoll_pwait(m) == m

MaskArg(k, m) ==
  CASE k = "rt_sigsuspend" -> rt_sigsuspend(m)
    [] k = "epoll_pwait" -> epoll_pwait(m)
    [] OTHER -> {}

\* A call that may block: the lock is given back.
BlockingCall(k, m) ==
  /\ CanCall /\ tst' = NewCall(k, MaskArg(k, m))
  /\ pc' = "masked"
  /\ UNCHANGED <<ip, host_rax, action, pending, current, sent>>

RestartedCall ==
  /\ Calling /\ tst.guest.rip = "at"
  /\ tst' = SameCall
  /\ pc' = "masked"
  /\ UNCHANGED <<ip, host_rax, action, pending, current, made, sent>>

(***************************************************************************)
(* do_syscall_for_client_WRK and the kernel                                *)
(***************************************************************************)

Goto(from, to) == pc = from /\ pc' = to

\* The first sigprocmask
OpenMask ==
  /\ Goto("masked", "setup")
  /\ UNCHANGED <<ip, host_rax, tst, action, pending, current, made, sent>>

LoadArgs ==
  /\ Goto("setup", "at")
  /\ UNCHANGED <<ip, host_rax, tst, action, pending, current, made, sent>>

EnterKernel ==
  /\ Goto("at", "kernel")
  /\ UNCHANGED <<ip, host_rax, tst, action, pending, current, made, sent>>

\* The kernel is done with the call.  sigsuspend only ends by a signal.
KernelReturns ==
  /\ Goto("kernel", "complete")
  /\ tst.guest.kind # "rt_sigsuspend"
  /\ \/ host_rax' = "ok" /\ tst' = Effect(tst)
     \/ host_rax' = "err" /\ UNCHANGED tst
  /\ UNCHANGED <<ip, action, pending, current, made, sent>>

Commit ==
  /\ Goto("complete", "committed")
  /\ tst' = [tst EXCEPT !.guest.rax = host_rax]
  /\ UNCHANGED <<ip, host_rax, action, pending, current, made, sent>>

\* The second sigprocmask
CloseMask ==
  /\ Goto("committed", "finished")
  /\ UNCHANGED <<ip, host_rax, tst, action, pending, current, made, sent>>

\* VG_(client_syscall) goes on with the lock.
Finish ==
  /\ pc = "finished"
  /\ Return(tst, tst.guest.rax, pending)
  /\ UNCHANGED <<made, sent>>

(***************************************************************************)
(* Signals                                                                 *)
(***************************************************************************)

\* The mask the kernel has for the thread between the two sigprocmask calls.
HostMask ==
  IF pc = "kernel" /\ tst.guest.kind \in WithMask
  THEN tst.guest.arg ELSE sanitize_client_sigmask(tst.sig_mask)

\* A handler of the core is entered, with all signals blocked.  A call that
\* is waiting is left: the kernel would make it again (the handlers have
\* SA_RESTART), or has ended it with EINTR.
Interrupt(s) ==
  /\ pc \in {"setup", "at", "kernel", "complete", "committed"}
  /\ s \in pending \ HostMask
  /\ pending' = pending \ {s}
  /\ current' = s
  /\ pc' = IF s = SIGVGKILL THEN "sigvgkill" ELSE "async"
  /\ IF pc # "kernel" THEN ip' = pc /\ UNCHANGED host_rax
     ELSE IF tst.guest.kind = "accept" THEN ip' = "at" /\ host_rax' = "sysno"
     ELSE ip' = "complete" /\ host_rax' = "EINTR"
  /\ UNCHANGED <<tst, action, made, sent>>

\* Mutant of async_signalhandler: (2), then (1).
async_signalhandler_swapped ==
  /\ Goto("async", "jumped")
  /\ \E r \in AfterPost(tst) :
       tst' = IF is_exiting(tst) THEN tst
              ELSE fixup(deliver_signal(tst, current), "RESTART" \in action[current].flags, r)
  /\ UNCHANGED <<ip, host_rax, action, pending, current, made, sent>>

async_signalhandler ==
  /\ Goto("async", "jumped")
  /\ \E r \in AfterPost(tst) :
       tst' = IF is_exiting(tst) THEN tst
              ELSE deliver_signal(fixup(tst, "RESTART" \in action[current].flags, r), current)
  /\ UNCHANGED <<ip, host_rax, action, pending, current, made, sent>>

sigvgkill_handler ==
  /\ Goto("sigvgkill", "jumped")
  /\ \E r \in AfterPost(tst) : tst' = post_syscall(tst, r)
  /\ UNCHANGED <<ip, host_rax, action, pending, current, made, sent>>

\* handle_syscall after the longjmp
Jumped ==
  /\ pc = "jumped"
  /\ poll_signals(tst, pending)
  /\ Loop
  /\ UNCHANGED <<made, sent>>

\* Mutant of Timeslice: signals are not looked for.
Timeslice_nopoll ==
  /\ pc = "guest"
  /\ UNCHANGED <<tst, pending, made, sent>>
  /\ Loop

\* The end of a time slice
Timeslice ==
  /\ pc = "guest"
  /\ poll_signals(tst, pending)
  /\ Loop
  /\ UNCHANGED <<made, sent>>

\* A signal is sent to the thread.
Send(s) ==
  /\ pc # "dead" /\ sent < MaxSignals
  /\ sent' = sent + 1
  /\ pending' = pending \union {s}
  /\ UNCHANGED <<pc, ip, host_rax, tst, action, current, made>>

\* Another thread ends the process (nuke_all_threads_except): this one is in a
\* system call, or between two slices.
Nuke ==
  /\ pc \notin {"jumped", "dead"} /\ ~ is_exiting(tst)
  /\ tst' = [tst EXCEPT !.exitreason = "ExitProcess"]
  /\ pending' = IF pc = "guest" THEN pending ELSE pending \union {SIGVGKILL}
  /\ UNCHANGED <<pc, ip, host_rax, action, current, made, sent>>

-----------------------------------------------------------------------------

Guest ==
  \/ open \/ rt_sigreturn
  \/ \E s \in Signals : sys_kill(s)
  \/ \E m \in SigSets : rt_sigprocmask(m)
  \/ \E k \in MayBlock, m \in SigSets : BlockingCall(k, m)

\* What the host thread does by itself.
Progress ==
  \/ RestartedCall \/ Timeslice
  \/ OpenMask \/ LoadArgs \/ EnterKernel \/ Commit \/ CloseMask \/ Finish
  \/ async_signalhandler \/ sigvgkill_handler \/ Jumped

Interrupts == \E s \in Signals \union {SIGVGKILL} : Interrupt(s)

Next ==
  \/ Guest \/ Progress \/ Interrupts \/ KernelReturns \/ Nuke
  \/ \E s \in Signals : Send(s)

\* The thread is scheduled and gets the lock (ThreadsTakeTurns), and the
\* kernel delivers a signal that stays open.  A call may block for ever.
Spec == Init /\ [][Next]_vars /\ WF_vars(Progress) /\ WF_vars(Interrupts)

(***************************************************************************)
(* What holds                                                              *)
(***************************************************************************)

GuestStates == {tst.frames[i].guest : i \in DOMAIN tst.frames}
               \union (IF pc = "guest" THEN {tst.guest} ELSE {})

\* A call the guest is behind has taken effect and been through its
\* post-handler once if the guest sees a result of it, and not at all if it
\* sees an error or EINTR; one that it will make again has left no trace.
\* So wherever in the sequence a signal comes, and however many do, no call
\* is made twice, lost or reported wrongly, also in states that wait in a
\* signal frame.
CallTakesEffectOnce ==
  \A g \in GuestStates :
    LET n == IF g.rip = "after" /\ g.rax \in {"ok", "refused"} THEN 1 ELSE 0
    IN  /\ g.effects = n /\ g.posts = n
        /\ g.rip = "after" => g.rax # "sysno"
        /\ g.rip = "at" => g.kind \in MayBlock

\* A handler runs only for a signal that was not blocked where it interrupted
\* the guest, or that a call waited for under a mask of its own, and when the
\* guest goes on its mask is the one the kernel will be given: the assertions
\* on the masks and on syscallInfo in client_syscall and the handlers hold.
HandlersRespectMask ==
  /\ \A i \in DOMAIN tst.frames :
       LET f == tst.frames[i]
       IN  \/ f.sig \notin f.mask
           \/ /\ f.guest.kind \in WithMask /\ f.guest.rax = "EINTR"
              /\ f.sig \notin f.guest.arg
  /\ pc = "guest" => tst.what = "SsIdle" /\ tst.sig_mask = tst.tmp_sig_mask
  /\ pc = "async" => tst.what = "SsHandToKernel"
  /\ SIGVGKILL \in pending => is_exiting(tst)

\* A signal that is not blocked gets to the guest, or the thread ends: none is
\* left behind by a restart, a longjmp or a poll that came too early.
SignalIsHandled ==
  \A s \in Signals :
    (s \in pending /\ s \notin HostMask) ~> (s \notin pending \/ s \in HostMask \/ pc = "dead")

\* The thread waits under a mask that no pre-handler took SIGVGKILL from.
Deaf == pc = "kernel" /\ tst.guest.kind = "epoll_pwait" /\ SIGVGKILL \in tst.guest.arg

\* A thread that is told to die does, whatever its mask and wherever in its
\* system call the order comes, unless it stays for ever in an epoll_pwait
\* whose mask has SIGVGKILL.
KilledThreadDies == is_exiting(tst) ~> (pc = "dead" \/ []Deaf)

\* A thread that is told to die does: "We cannot mask VG_SIGVGKILL, as
\* otherwise this thread would not be killable by VG_(nuke_all_threads_except)"
\* (syswrap-linux.c:4612-4613).  It does not hold of epoll_pwait.
Killable == is_exiting(tst) ~> (pc = "dead")

\* A handler that interrupts sigsuspend runs with the signals blocked that
\* sigsuspend blocked: tmp_sig_mask "is the temporary mask which sigsuspend
\* installs" (pub_core_threadstate.h:354-361).  It does not hold, as nothing
\* stores that mask there; no configuration checks it.
SuspendMaskInHandler ==
  [][LET n == Len(tst.frames) + 1
         g == tst'.frames[n].guest
     IN  pc = "async" /\ Len(tst'.frames) = n /\ g.kind = "rt_sigsuspend" /\ g.rax = "EINTR"
           => g.arg \subseteq tst'.sig_mask]_vars

=============================================================================
