------------------------ MODULE ClientSyscallProofs ------------------------
(***************************************************************************)
(* However signals fall on a guest's system calls, every call takes effect *)
(* as the guest is told, and every handler runs for a signal that was open *)
(* when it came: for any signals, masks and flags, any number of calls and *)
(* signals, and any depth of handlers.                                     *)
(*                                                                         *)
(* The invariant follows a call from label to label.  The host's           *)
(* instruction pointer, or what a handler found in it, tells how much of   *)
(* the call has happened; the guest's registers are in order whenever the  *)
(* thread is not in a call, and so in every frame that was saved.          *)
(***************************************************************************)
EXTENDS ClientSyscall, TLAPS

Masks == SUBSET (Signals \union {SIGVGKILL})

Kinds == {"none", "open", "kill", "rt_sigprocmask"} \union MayBlock
Results == {"none", "sysno", "ok", "err", "refused", "EINTR"}

GuestState ==
  [kind : Kinds, arg : Masks, rip : {"after", "at"}, rax : Results, effects : Nat, posts : Nat]

Frame == [sig : Signals, mask : Masks, guest : GuestState]

Frames == Seq(Frame)
Handlers == [Signals -> {"fn", "DFL"}]
ExitReasons == {"None", "FatalSig", "ExitProcess"}
Whats == {"SsIdle", "SsHandToKernel", "SsComplete"}

ThreadState ==
  [guest : GuestState, frames : Frames, sig_mask : Masks, tmp_sig_mask : Masks,
   handler : Handlers, exitreason : ExitReasons, what : Whats]

\* What CallTakesEffectOnce says of one state of the guest; and RAX still has
\* the number of a call that is to be made again.
Settled(g) ==
  LET n == IF g.rip = "after" /\ g.rax \in {"ok", "refused"} THEN 1 ELSE 0
  IN  /\ g.effects = n /\ g.posts = n
      /\ g.rip = "after" => g.rax # "sysno"
      /\ g.rip = "at" => g.kind \in MayBlock /\ g.rax = "sysno"

\* Signal s may interrupt a guest in state g that has this mask.
Open(s, mask, g) ==
  \/ s \notin mask
  \/ g.kind \in WithMask /\ g.rax = "EINTR" /\ s \notin g.arg

FramesOK(t) ==
  \A i \in DOMAIN t.frames :
    /\ Settled(t.frames[i].guest)
    /\ Open(t.frames[i].sig, t.frames[i].mask, t.frames[i].guest)

Sound(t) == t \in ThreadState /\ FramesOK(t) /\ t.sig_mask = t.tmp_sig_mask

\* A thread between two calls.
Clean(t) == Sound(t) /\ Settled(t.guest) /\ t.what = "SsIdle"

\* A thread whose call has got as far as label p.
InCall(t, p) ==
  /\ Sound(t) /\ t.what = "SsHandToKernel"
  /\ t.guest.kind \in MayBlock /\ t.guest.rip = "after" /\ t.guest.posts = 0
  /\ p \in {"masked", "setup", "at", "kernel"} => t.guest.rax = "sysno" /\ t.guest.effects = 0
  /\ p = "complete" => /\ t.guest.rax = "sysno" /\ host_rax \in {"ok", "err", "EINTR"}
                       /\ t.guest.effects = IF host_rax = "ok" THEN 1 ELSE 0
  /\ p \in {"committed", "finished"} => /\ t.guest.rax \in {"ok", "err", "EINTR"}
                                        /\ t.guest.effects = IF t.guest.rax = "ok" THEN 1 ELSE 0

CallLabels == {"masked", "setup", "at", "kernel", "complete", "committed", "finished"}

IInv ==
  /\ Sound(tst)
  /\ action \in [Signals -> Actions]
  /\ pending \subseteq Signals \union {SIGVGKILL}
  /\ SIGVGKILL \in pending => is_exiting(tst)
  /\ current \in Signals \union {SIGVGKILL}
  /\ pc \in {"guest", "jumped", "dead", "async", "sigvgkill"} \union CallLabels
  /\ pc = "guest" => Clean(tst)
  /\ pc = "jumped" => Clean(tst) \/ is_exiting(tst)
  /\ pc \in CallLabels => InCall(tst, pc)
  /\ pc \in {"async", "sigvgkill"} =>
       ip \in {"setup", "at", "complete", "committed"} /\ InCall(tst, ip)
  /\ pc = "sigvgkill" => is_exiting(tst)
  /\ pc = "async" =>
       /\ current # SIGVGKILL
       /\ \/ current \notin tst.sig_mask
          \/ /\ ip = "complete" /\ host_rax = "EINTR"
             /\ tst.guest.kind \in WithMask /\ current \notin tst.guest.arg

-----------------------------------------------------------------------------
(* The operators                                                           *)

\* Two threads that differ in their registers and the state of the call only.
SameRest(t, u) ==
  /\ u.frames = t.frames /\ u.exitreason = t.exitreason
  /\ u.sig_mask = t.sig_mask /\ u.tmp_sig_mask = t.tmp_sig_mask

\* Such a change leaves a thread sound.
LEMMA StaysSound ==
  ASSUME NEW t, Sound(t), NEW u \in ThreadState, SameRest(t, u)
  PROVE  Sound(u)
BY DEF Sound, FramesOK, SameRest

\* The end of a call: its result is in the guest's registers, and the
\* post-handler has run if it was a success.
LEMMA PostIsClean ==
  ASSUME NEW t, Sound(t), t.guest.rip = "after", t.guest.posts = 0,
         NEW res \in {"ok", "err", "EINTR"},
         t.guest.effects = IF res = "ok" THEN 1 ELSE 0,
         NEW r \in {"ok", "refused"}
  PROVE  LET p == post_syscall(Complete(t, res), r)
         IN  /\ Clean(p) /\ SameRest(t, p)
             /\ p.guest.kind = t.guest.kind /\ p.guest.arg = t.guest.arg
             /\ res # "ok" => p.guest.rax = res
<1>. DEFINE x == [t.guest EXCEPT !.rax = res]
            c == Complete(t, res)
            p == post_syscall(c, r)
<1>1. t \in ThreadState /\ t.guest \in GuestState
  BY DEF Sound, ThreadState
<1>2. /\ x \in GuestState /\ x.rax = res /\ x.rip = "after" /\ x.posts = 0
      /\ x.effects = (IF res = "ok" THEN 1 ELSE 0) /\ x.kind = t.guest.kind /\ x.arg = t.guest.arg
  BY <1>1 DEF GuestState, Results
<1>3. c = [t EXCEPT !.what = "SsComplete", !.guest = x]
  BY <1>1 DEF Complete, ThreadState
<1>. HIDE DEF x, c
<1>4. c \in ThreadState /\ c.guest = x /\ c.what = "SsComplete" /\ SameRest(t, c)
  BY <1>1, <1>2, <1>3, Zenon DEF ThreadState, SameRest, Whats
<1>5. CASE res = "ok"
  <2>. DEFINE g == [x EXCEPT !.rax = r, !.posts = @ + 1]
  <2>1. p = [c EXCEPT !.what = "SsIdle", !.guest = g]
    BY <1>2, <1>4, <1>5, Zenon DEF post_syscall
  <2>2. /\ g.rax = r /\ g.posts = 1 /\ g.rip = "after" /\ g.effects = 1
        /\ g.kind = t.guest.kind /\ g.arg = t.guest.arg
    BY <1>2, <1>5 DEF GuestState
  <2>3. g = [x EXCEPT !.rax = r, !.posts = 1]
    BY <1>2 DEF GuestState
  <2>4. g \in GuestState /\ Settled(g)
    BY <1>2, <2>2, <2>3, Zenon DEF GuestState, Results, Settled
  <2>. HIDE DEF g, p
  <2>5. p \in ThreadState /\ p.guest = g /\ p.what = "SsIdle" /\ SameRest(c, p)
    BY <1>4, <2>1, <2>4, Zenon DEF ThreadState, SameRest, Whats
  <2>6. Sound(p) /\ SameRest(t, p)
    BY <1>4, <2>5, StaysSound DEF SameRest
  <2> QED  BY <1>5, <2>2, <2>4, <2>5, <2>6 DEF Clean, p, c
<1>6. CASE res # "ok"
  <2>1. p = [c EXCEPT !.what = "SsIdle", !.guest = x]
    BY <1>2, <1>4, <1>6, Zenon DEF post_syscall, ThreadState
  <2>2. Settled(x)
    BY <1>2, <1>6 DEF Settled
  <2>. HIDE DEF p
  <2>3. p \in ThreadState /\ p.guest = x /\ p.what = "SsIdle" /\ SameRest(c, p)
    BY <1>2, <1>4, <2>1, Zenon DEF ThreadState, SameRest, Whats
  <2>4. Sound(p) /\ SameRest(t, p)
    BY <1>4, <2>3, StaysSound DEF SameRest
  <2> QED  BY <1>2, <1>6, <2>2, <2>3, <2>4 DEF Clean, p, c
<1> QED  BY <1>5, <1>6

\* The registers a handler starts with.
LEMMA FreshIs == /\ Fresh \in GuestState /\ Settled(Fresh) /\ Fresh.rip = "after"
                 /\ Fresh.effects = 0 /\ Fresh.posts = 0
BY DEF Fresh, GuestState, Kinds, Results, Settled, Masks

\* A signal that is open is delivered: its handler starts from a clean state,
\* the one it interrupts waits in the frame.
LEMMA DeliverIsClean ==
  ASSUME NEW t, Clean(t), action \in [Signals -> Actions],
         NEW s \in Signals \union {SIGVGKILL}, Open(s, t.sig_mask, t.guest)
  PROVE  /\ Clean(deliver_signal(t, s))
         /\ is_exiting(t) => is_exiting(deliver_signal(t, s))
<1>. DEFINE d == deliver_signal(t, s)
<1>0. t \in ThreadState
  BY DEF Clean, Sound
<1>1. CASE s = SIGVGKILL
  BY <1>1 DEF deliver_signal
<1>2. CASE s # SIGVGKILL /\ t.handler[s] = "DFL"
  <2>1. d = [t EXCEPT !.exitreason = "FatalSig"]
    BY <1>2 DEF deliver_signal
  <2> QED  BY <1>0, <2>1 DEF Clean, Sound, FramesOK, ThreadState, ExitReasons, is_exiting
<1>3. CASE s # SIGVGKILL /\ t.handler[s] # "DFL"
  <2>. DEFINE f == [sig |-> s, mask |-> t.sig_mask, guest |-> t.guest]
              mask == IF "NOMASK" \in action[s].flags THEN t.tmp_sig_mask
                      ELSE t.tmp_sig_mask \union action[s].mask \union {s}
              h == [t.handler EXCEPT ![s] = IF "ONESHOT" \in action[s].flags THEN "DFL" ELSE @]
  <2>1. d = [t EXCEPT !.frames = Append(t.frames, f), !.guest = Fresh, !.handler = h,
                      !.sig_mask = mask, !.tmp_sig_mask = mask]
    BY <1>0, <1>3 DEF deliver_signal, push_signal_frame, ThreadState
  <2>2. s \in Signals /\ mask \in Masks
    <3>1. s \in Signals /\ action[s].mask \in Masks
      BY <1>3, SyscallAssumption DEF Masks
    <3> QED  BY <1>0, <3>1 DEF ThreadState, Masks
  <2>3. h \in Handlers
    BY <1>0, <2>2 DEF ThreadState, Handlers
  <2>4. f \in Frame /\ Settled(f.guest) /\ Open(f.sig, f.mask, f.guest)
    BY <1>0, <2>2 DEF ThreadState, Frame, Clean
  <2>5. Fresh \in GuestState /\ Settled(Fresh)
    BY FreshIs
  <2>6. Append(t.frames, f) \in Frames
    BY <1>0, <2>4 DEF ThreadState, Frames
  <2>7. d \in ThreadState
    BY <1>0, <2>1, <2>2, <2>3, <2>5, <2>6, Zenon DEF ThreadState
  <2>8. FramesOK(d)
    <3>1. d.frames = Append(t.frames, f) /\ t.frames \in Seq(Frame)
      BY <1>0, <2>1 DEF ThreadState, Frames
    <3>2. FramesOK(t)
      BY DEF Clean, Sound
    <3>3. ASSUME NEW i \in DOMAIN d.frames
          PROVE  d.frames[i] = f \/ (i \in DOMAIN t.frames /\ d.frames[i] = t.frames[i])
      BY <3>1
    <3> QED  BY <2>4, <3>2, <3>3 DEF FramesOK
  <2>9. d.sig_mask = d.tmp_sig_mask /\ d.guest = Fresh /\ d.what = t.what /\ d.exitreason = t.exitreason
    BY <1>0, <2>1 DEF ThreadState
  <2> QED  BY <2>5, <2>7, <2>8, <2>9 DEF Clean, Sound, is_exiting
<1> QED  BY <1>1, <1>2, <1>3

\* Looking for a signal leaves a clean thread clean, and never finds SIGVGKILL.
LEMMA PollIsClean ==
  ASSUME NEW t, Clean(t), action \in [Signals -> Actions],
         NEW pend \in SUBSET (Signals \union {SIGVGKILL}), SIGVGKILL \in pend => is_exiting(t),
         poll_signals(t, pend)
  PROVE  /\ Clean(tst') /\ pending' \subseteq Signals \union {SIGVGKILL}
         /\ SIGVGKILL \in pending' => is_exiting(tst')
<1>1. CASE tst' = t /\ pending' = pend
  BY <1>1
<1>2. CASE \E s \in pend \ t.sig_mask : tst' = deliver_signal(t, s) /\ pending' = pend \ {s}
  <2>1. PICK s \in pend \ t.sig_mask : tst' = deliver_signal(t, s) /\ pending' = pend \ {s}
    BY <1>2
  <2>2. Open(s, t.sig_mask, t.guest) /\ s \in Signals \union {SIGVGKILL}
    BY DEF Open
  <2>3. Clean(tst') /\ (is_exiting(t) => is_exiting(tst'))
    BY <2>1, <2>2, DeliverIsClean
  <2> QED  BY <2>1, <2>3
<1> QED  BY <1>1, <1>2 DEF poll_signals

\* A call as it is when its pre-handler runs.
LEMMA NewCallIs ==
  ASSUME Sound(tst), NEW k \in Kinds, NEW m \in Masks
  PROVE  LET t == NewCall(k, m)
         IN  /\ Sound(t) /\ SameRest(tst, t) /\ t.what = "SsHandToKernel"
             /\ t.guest.kind = k /\ t.guest.rip = "after" /\ t.guest.rax = "sysno"
             /\ t.guest.effects = 0 /\ t.guest.posts = 0
<1>. DEFINE g == [Fresh EXCEPT !.kind = k, !.arg = m, !.rax = "sysno"]
            t == NewCall(k, m)
<1>1. /\ g.kind = k /\ g.rax = "sysno" /\ g.rip = "after" /\ g.effects = 0 /\ g.posts = 0
  BY FreshIs DEF GuestState
<1>2. t = [tst EXCEPT !.guest = g, !.what = "SsHandToKernel"]
  BY DEF NewCall
<1>3. g \in GuestState
  BY FreshIs, Zenon DEF GuestState, Results
<1>. HIDE DEF g, t
<1>4. t \in ThreadState /\ t.guest = g /\ t.what = "SsHandToKernel" /\ SameRest(tst, t)
  BY <1>2, <1>3, Zenon DEF Sound, ThreadState, SameRest, Whats
<1>5. Sound(t)
  BY <1>4, StaysSound
<1> QED  BY <1>1, <1>4, <1>5 DEF t

\* Its effect changes nothing but the count.
LEMMA EffectIs ==
  ASSUME NEW t, Sound(t), t.guest.effects = 0
  PROVE  LET e == Effect(t)
         IN  /\ Sound(e) /\ SameRest(t, e) /\ e.what = t.what
             /\ e.guest.effects = 1 /\ e.guest.posts = t.guest.posts
             /\ e.guest.kind = t.guest.kind /\ e.guest.rip = t.guest.rip
             /\ e.guest.rax = t.guest.rax
<1>. DEFINE g == [t.guest EXCEPT !.effects = 1]
            e == Effect(t)
<1>1. t \in ThreadState /\ t.guest \in GuestState
  BY DEF Sound, ThreadState
<1>2. e = [t EXCEPT !.guest = g]
  BY <1>1 DEF Effect, ThreadState
<1>3. /\ g \in GuestState /\ g.effects = 1 /\ g.posts = t.guest.posts
      /\ g.kind = t.guest.kind /\ g.rip = t.guest.rip /\ g.rax = t.guest.rax
  BY <1>1 DEF GuestState
<1>. HIDE DEF g, e
<1>4. e \in ThreadState /\ e.guest = g /\ e.what = t.what /\ SameRest(t, e)
  BY <1>1, <1>2, <1>3, Zenon DEF ThreadState, SameRest
<1>5. Sound(e)
  BY <1>4, StaysSound
<1> QED  BY <1>3, <1>4, <1>5 DEF e

\* Both masks of a thread are set at once.
LEMMA SetMaskIs ==
  ASSUME NEW t, Sound(t), NEW m \in Masks
  PROVE  LET d == do_setmask(t, m)
         IN  /\ Sound(d) /\ d.guest = t.guest /\ d.frames = t.frames /\ d.what = t.what
             /\ d.exitreason = t.exitreason /\ d.sig_mask = m
<1>. DEFINE d == do_setmask(t, m)
<1>1. t \in ThreadState
  BY DEF Sound
<1>2. d = [t EXCEPT !.sig_mask = m, !.tmp_sig_mask = m]
  BY DEF do_setmask
<1>3. d \in ThreadState
  BY <1>1, <1>2, Zenon DEF ThreadState
<1>4. /\ d.guest = t.guest /\ d.frames = t.frames /\ d.what = t.what
      /\ d.exitreason = t.exitreason /\ d.sig_mask = m /\ d.tmp_sig_mask = m
  BY <1>1, <1>2 DEF ThreadState
<1> QED  BY <1>3, <1>4 DEF Sound, FramesOK

\* What is said of a thread in a new state is said of the new thread.
LEMMA Primed ==
  /\ Sound(tst)' = Sound(tst')
  /\ Clean(tst)' = Clean(tst')
  /\ is_exiting(tst)' = is_exiting(tst')
BY DEF Sound, Clean, FramesOK, Settled, Open, is_exiting

-----------------------------------------------------------------------------
(* The steps                                                               *)

\* The end of the loop of VG_(scheduler).
LEMMA LoopStep ==
  ASSUME IInv, Loop, Sound(tst'), Clean(tst') \/ is_exiting(tst'),
         pending' \subseteq Signals \union {SIGVGKILL},
         SIGVGKILL \in pending' => is_exiting(tst')
  PROVE  IInv'
<1>1. pc' = IF is_exiting(tst') THEN "dead" ELSE "guest"
  BY DEF Loop
<1>2. /\ action' \in [Signals -> Actions]
      /\ current' \in Signals \union {SIGVGKILL}
  BY DEF Loop, IInv
<1>3. /\ pc' \in {"guest", "dead"}
      /\ pc' \in {"guest", "jumped", "dead", "async", "sigvgkill"} \union CallLabels
      /\ pc' \notin CallLabels
  BY <1>1 DEF CallLabels
<1>4. pc' = "guest" => Clean(tst')
  BY <1>1
<1> QED  BY <1>2, <1>3, <1>4, Primed DEF IInv

\* A call that ends with the lock held.
LEMMA ReturnStep ==
  ASSUME IInv, NEW t, Sound(t), t.guest.rip = "after", t.guest.posts = 0,
         NEW res \in {"ok", "err", "EINTR"}, t.guest.effects = IF res = "ok" THEN 1 ELSE 0,
         NEW pend \in SUBSET (Signals \union {SIGVGKILL}), SIGVGKILL \in pend => is_exiting(t),
         Return(t, res, pend)
  PROVE  IInv'
<1>1. PICK r \in AfterPost(t) :
        LET p == post_syscall(Complete(t, res), r)
        IN  IF t.guest.kind \in PollAfter
            THEN poll_signals(p, pend)
            ELSE tst' = p /\ pending' = pend
  BY DEF Return
<1>. DEFINE p == post_syscall(Complete(t, res), r)
<1>2. r \in {"ok", "refused"}
  BY DEF AfterPost
<1>3. Clean(p) /\ SameRest(t, p)
  BY <1>2, PostIsClean
<1>4. SIGVGKILL \in pend => is_exiting(p)
  BY <1>3 DEF SameRest, is_exiting
<1>5. action \in [Signals -> Actions]
  BY DEF IInv
<1>. HIDE DEF p
<1>6. poll_signals(p, pend) \/ (tst' = p /\ pending' = pend)
  BY <1>1 DEF p
<1>7. /\ Clean(tst') /\ pending' \subseteq Signals \union {SIGVGKILL}
      /\ SIGVGKILL \in pending' => is_exiting(tst')
  BY <1>3, <1>4, <1>5, <1>6, PollIsClean
<1>8. Sound(tst') /\ Loop
  BY <1>7 DEF Clean, Return
<1> QED  BY <1>7, <1>8, LoopStep

\* A step from one label of a call to another.
LEMMA CallStep ==
  ASSUME IInv, pc' \in CallLabels, InCall(tst, pc)', UNCHANGED <<action, pending, current>>,
         is_exiting(tst) => is_exiting(tst')
  PROVE  IInv'
<1>1. pc' \notin {"guest", "jumped", "async", "sigvgkill"}
  BY DEF CallLabels
<1>2. Sound(tst)'
  BY DEF InCall
<1>3. SIGVGKILL \in pending' => is_exiting(tst)'
  BY Primed DEF IInv
<1> QED  BY <1>1, <1>2, <1>3 DEF IInv

\* The guest makes a system call or ends a handler.
LEMMA GuestStep ==
  ASSUME IInv, Guest
  PROVE  IInv'
<1>1. /\ Calling /\ Clean(tst) /\ Sound(tst) /\ SIGVGKILL \notin pending
      /\ pending \in SUBSET (Signals \union {SIGVGKILL}) /\ tst.guest.rip = "after"
  BY Zenon DEF IInv, Clean, Guest, open, rt_sigreturn, sys_kill, rt_sigprocmask, BlockingCall, CanCall, Calling
<1>2. {} \in Masks /\ \A m \in SigSets : m \in Masks /\ rt_sigsuspend(m) \in Masks
  BY SyscallAssumption DEF Masks, rt_sigsuspend
<1>3. CASE open
  <2>. DEFINE t == NewCall("open", {})
  <2>1. /\ Sound(t) /\ t.guest.rip = "after" /\ t.guest.effects = 0 /\ t.guest.posts = 0
    BY <1>1, <1>2, NewCallIs DEF Kinds
  <2>. HIDE DEF t
  <2>2. CASE Return(t, "err", pending)
    BY <1>1, <2>1, <2>2, ReturnStep
  <2>3. CASE Return(Effect(t), "ok", pending)
    <3>1. /\ Sound(Effect(t)) /\ Effect(t).guest.rip = "after" /\ Effect(t).guest.posts = 0
          /\ Effect(t).guest.effects = 1
      BY <2>1, EffectIs
    <3> QED  BY <1>1, <2>3, <3>1, ReturnStep
  <2> QED  BY <1>3, <2>2, <2>3 DEF open, t
<1>4. ASSUME NEW s \in Signals, sys_kill(s) PROVE IInv'
  <2>. DEFINE t == NewCall("kill", {})
  <2>1. /\ Sound(t) /\ t.guest.rip = "after" /\ t.guest.effects = 0 /\ t.guest.posts = 0
    BY <1>1, <1>2, NewCallIs DEF Kinds
  <2>2. Return(Effect(t), "ok", pending \union {s})
    BY <1>4 DEF sys_kill
  <2>. HIDE DEF t
  <2>3. /\ Sound(Effect(t)) /\ Effect(t).guest.rip = "after" /\ Effect(t).guest.posts = 0
        /\ Effect(t).guest.effects = 1
    BY <2>1, EffectIs
  <2>4. SIGVGKILL \notin pending \union {s} /\ pending \union {s} \in SUBSET (Signals \union {SIGVGKILL})
    BY <1>1, SyscallAssumption
  <2> QED  BY <2>2, <2>3, <2>4, ReturnStep
<1>5. ASSUME NEW m \in SigSets, rt_sigprocmask(m) PROVE IInv'
  <2>. DEFINE n == NewCall("rt_sigprocmask", {})
              t == do_setmask(n, m)
  <2>1. /\ Sound(n) /\ n.guest.rip = "after" /\ n.guest.effects = 0 /\ n.guest.posts = 0
    BY <1>1, <1>2, NewCallIs DEF Kinds
  <2>2. Return(Effect(t), "ok", pending)
    BY <1>5 DEF rt_sigprocmask
  <2>. HIDE DEF n
  <2>3. Sound(t) /\ t.guest = n.guest
    BY <1>2, <2>1, SetMaskIs
  <2>. HIDE DEF t
  <2>4. /\ Sound(Effect(t)) /\ Effect(t).guest.rip = "after" /\ Effect(t).guest.posts = 0
        /\ Effect(t).guest.effects = 1
    BY <2>1, <2>3, EffectIs
  <2> QED  BY <1>1, <2>2, <2>4, ReturnStep
<1>6. ASSUME NEW k \in MayBlock, NEW m \in SigSets, BlockingCall(k, m) PROVE IInv'
  <2>. DEFINE a == MaskArg(k, m)
  <2>1. a \in Masks /\ k \in Kinds
    BY <1>2 DEF Kinds, MaskArg, epoll_pwait
  <2>2. tst' = NewCall(k, a) /\ pc' = "masked" /\ UNCHANGED <<action, pending, current>>
    BY <1>6 DEF BlockingCall
  <2>. HIDE DEF a
  <2>3. /\ Sound(tst') /\ tst'.what = "SsHandToKernel"
        /\ tst'.guest.kind = k /\ tst'.guest.rip = "after" /\ tst'.guest.rax = "sysno"
        /\ tst'.guest.effects = 0 /\ tst'.guest.posts = 0
    BY <1>1, <2>1, <2>2, NewCallIs
  <2>4. InCall(tst, pc)'
    BY <2>2, <2>3, Primed DEF InCall
  <2> QED  BY <1>1, <2>2, <2>4, CallStep DEF CallLabels, Calling
<1>7. CASE rt_sigreturn
  <2>. DEFINE n == Len(tst.frames)
              f == tst.frames[n]
              d == do_setmask(tst, f.mask)
              t == [d EXCEPT !.guest = f.guest, !.frames = SubSeq(@, 1, n - 1)]
  <2>1. tst.frames \in Seq(Frame) /\ tst.frames # << >>
    BY <1>1, <1>7 DEF rt_sigreturn, Sound, ThreadState, Frames
  <2>2. n \in DOMAIN tst.frames
    BY <2>1
  <2>3. f \in Frame /\ Settled(f.guest)
    BY <1>1, <2>1, <2>2 DEF Sound, FramesOK
  <2>4. f.mask \in Masks /\ f.guest \in GuestState
    BY <2>3 DEF Frame
  <2>5. poll_signals(t, pending) /\ Loop
    BY <1>7 DEF rt_sigreturn
  <2>. HIDE DEF f
  <2>6. /\ Sound(d) /\ d.frames = tst.frames /\ d.what = "SsIdle"
    BY <1>1, <2>4, SetMaskIs DEF Clean
  <2>. HIDE DEF d
  <2>7. SubSeq(d.frames, 1, n - 1) \in Seq(Frame)
    BY <2>1, <2>6
  <2>8. d \in ThreadState
    BY <2>6 DEF Sound
  <2>9. t \in ThreadState
    BY <2>4, <2>7, <2>8, Zenon DEF ThreadState, Frames
  <2>10. /\ t.guest = f.guest /\ t.frames = SubSeq(d.frames, 1, n - 1) /\ t.what = d.what
         /\ t.sig_mask = d.sig_mask /\ t.tmp_sig_mask = d.tmp_sig_mask
    BY <2>8 DEF ThreadState
  <2>. HIDE DEF t
  <2>11. FramesOK(t)
    <3>1. ASSUME NEW i \in DOMAIN t.frames
          PROVE  i \in DOMAIN tst.frames /\ t.frames[i] = tst.frames[i]
      BY <2>1, <2>6, <2>10
    <3> QED  BY <1>1, <3>1 DEF FramesOK, Sound
  <2>12. Clean(t)
    BY <2>3, <2>6, <2>9, <2>10, <2>11 DEF Clean, Sound
  <2>13. action \in [Signals -> Actions]
    BY DEF IInv
  <2>14. /\ Clean(tst') /\ pending' \subseteq Signals \union {SIGVGKILL}
         /\ SIGVGKILL \in pending' => is_exiting(tst')
    BY <1>1, <2>5, <2>12, <2>13, PollIsClean
  <2> QED  BY <2>5, <2>14, LoopStep DEF Clean
<1> QED  BY <1>3, <1>4, <1>5, <1>6, <1>7 DEF Guest

\* The steps of do_syscall_for_client_WRK and of the kernel.
LEMMA WrkStep ==
  ASSUME IInv, RestartedCall \/ OpenMask \/ LoadArgs \/ EnterKernel \/ KernelReturns \/ Commit \/ CloseMask
  PROVE  IInv'
<1>. DEFINE t == tst'
<1>1. CASE RestartedCall
  <2>. DEFINE g == [tst.guest EXCEPT !.rip = "after"]
  <2>1. Clean(tst) /\ Sound(tst) /\ tst.guest.rip = "at" /\ tst \in ThreadState /\ tst.guest \in GuestState
    BY <1>1 DEF IInv, RestartedCall, Calling, Clean, Sound, ThreadState
  <2>2. /\ tst.guest.effects = 0 /\ tst.guest.posts = 0 /\ tst.guest.kind \in MayBlock
        /\ tst.guest.rax = "sysno"
    BY <2>1 DEF Clean, Settled
  <2>3. /\ g \in GuestState /\ g.rip = "after" /\ g.effects = 0 /\ g.posts = 0
        /\ g.kind \in MayBlock /\ g.rax = "sysno"
    BY <2>1, <2>2 DEF GuestState
  <2>4. t = [tst EXCEPT !.guest = g, !.what = "SsHandToKernel"]
    BY <1>1, <2>1 DEF RestartedCall, SameCall, ThreadState
  <2>. HIDE DEF g
  <2>5. t \in ThreadState /\ t.guest = g /\ t.what = "SsHandToKernel" /\ SameRest(tst, t)
    BY <2>1, <2>3, <2>4, Zenon DEF ThreadState, SameRest, Whats
  <2>6. Sound(t)
    BY <2>1, <2>5, StaysSound
  <2>7. pc' = "masked" /\ UNCHANGED <<action, pending, current>>
    BY <1>1 DEF RestartedCall
  <2>8. InCall(tst, pc)'
    BY <2>3, <2>5, <2>6, <2>7, Primed DEF InCall
  <2>9. is_exiting(tst) => is_exiting(tst')
    BY <2>5 DEF SameRest, is_exiting
  <2> QED  BY <2>7, <2>8, <2>9, CallStep DEF CallLabels
<1>2. CASE OpenMask \/ LoadArgs \/ EnterKernel \/ CloseMask
  <2>. USE DEF OpenMask, LoadArgs, EnterKernel, CloseMask, Goto
  <2>1. pc \in CallLabels /\ pc' \in CallLabels /\ UNCHANGED <<host_rax, tst, action, pending, current>>
    BY <1>2 DEF CallLabels
  <2>2. InCall(tst, pc)
    BY <2>1 DEF IInv
  <2>3. InCall(tst, pc)'
    BY <1>2, <2>2, Primed DEF InCall
  <2> QED  BY <2>1, <2>3, CallStep
<1>3. CASE KernelReturns
  <2>1. InCall(tst, "kernel") /\ Sound(tst)
    BY <1>3 DEF KernelReturns, Goto, IInv, CallLabels
  <2>2. /\ tst.what = "SsHandToKernel" /\ tst.guest.kind \in MayBlock /\ tst.guest.rip = "after"
        /\ tst.guest.posts = 0 /\ tst.guest.rax = "sysno" /\ tst.guest.effects = 0
    BY <2>1 DEF InCall
  <2>3. pc' = "complete" /\ UNCHANGED <<action, pending, current>>
    BY <1>3 DEF KernelReturns, Goto
  <2>4. CASE host_rax' = "err" /\ tst' = tst
    <3>1. InCall(tst, pc)'
      BY <2>1, <2>2, <2>3, <2>4, Primed DEF InCall
    <3> QED  BY <2>3, <2>4, <3>1, CallStep DEF CallLabels
  <2>5. CASE host_rax' = "ok" /\ tst' = Effect(tst)
    <3>1. /\ Sound(t) /\ SameRest(tst, t) /\ t.what = "SsHandToKernel"
          /\ t.guest.effects = 1 /\ t.guest.posts = 0 /\ t.guest.kind \in MayBlock
          /\ t.guest.rip = "after" /\ t.guest.rax = "sysno"
      BY <2>1, <2>2, <2>5, EffectIs
    <3>2. InCall(tst, pc)'
      BY <2>3, <2>5, <3>1, Primed DEF InCall
    <3> QED  BY <2>3, <3>1, <3>2, CallStep DEF CallLabels, SameRest, is_exiting
  <2> QED  BY <1>3, <2>4, <2>5 DEF KernelReturns
<1>4. CASE Commit
  <2>. DEFINE g == [tst.guest EXCEPT !.rax = host_rax]
  <2>1. InCall(tst, "complete") /\ Sound(tst) /\ tst \in ThreadState /\ tst.guest \in GuestState
    BY <1>4 DEF Commit, Goto, IInv, CallLabels, Sound, ThreadState
  <2>2. /\ tst.what = "SsHandToKernel" /\ tst.guest.kind \in MayBlock /\ tst.guest.rip = "after"
        /\ tst.guest.posts = 0 /\ host_rax \in {"ok", "err", "EINTR"}
        /\ tst.guest.effects = IF host_rax = "ok" THEN 1 ELSE 0
    BY <2>1 DEF InCall
  <2>3. /\ g \in GuestState /\ g.rip = "after" /\ g.posts = 0 /\ g.kind \in MayBlock
        /\ g.rax = host_rax /\ g.effects = IF host_rax = "ok" THEN 1 ELSE 0
    BY <2>1, <2>2 DEF GuestState, Results
  <2>4. t = [tst EXCEPT !.guest = g]
    BY <1>4, <2>1 DEF Commit, ThreadState
  <2>5. pc' = "committed" /\ UNCHANGED <<host_rax, action, pending, current>>
    BY <1>4 DEF Commit, Goto
  <2>. HIDE DEF g
  <2>6. t \in ThreadState /\ t.guest = g /\ t.what = tst.what /\ SameRest(tst, t)
    BY <2>1, <2>3, <2>4, Zenon DEF ThreadState, SameRest
  <2>7. Sound(t)
    BY <2>1, <2>6, StaysSound
  <2>8. InCall(tst, pc)'
    BY <2>2, <2>3, <2>5, <2>6, <2>7, Primed DEF InCall
  <2> QED  BY <2>5, <2>6, <2>8, CallStep DEF CallLabels, SameRest, is_exiting
<1> QED  BY <1>1, <1>2, <1>3, <1>4

\* The call is over and the lock is held again.
LEMMA FinishStep ==
  ASSUME IInv, Finish
  PROVE  IInv'
<1>1. InCall(tst, "finished") /\ Sound(tst)
  BY DEF Finish, IInv, CallLabels
<1>2. /\ tst.guest.rip = "after" /\ tst.guest.posts = 0 /\ tst.guest.rax \in {"ok", "err", "EINTR"}
      /\ tst.guest.effects = IF tst.guest.rax = "ok" THEN 1 ELSE 0
  BY <1>1 DEF InCall
<1>3. Return(tst, tst.guest.rax, pending)
  BY DEF Finish
<1>4. pending \in SUBSET (Signals \union {SIGVGKILL}) /\ (SIGVGKILL \in pending => is_exiting(tst))
  BY DEF IInv
<1> QED  BY <1>1, <1>2, <1>3, <1>4, ReturnStep

\* Looking for signals between two slices, or after the longjmp.
LEMMA PollStep ==
  ASSUME IInv, Timeslice \/ Jumped
  PROVE  IInv'
<1>1. /\ Clean(tst) \/ is_exiting(tst)
      /\ Sound(tst)
      /\ pending \in SUBSET (Signals \union {SIGVGKILL}) /\ (SIGVGKILL \in pending => is_exiting(tst))
      /\ action \in [Signals -> Actions]
  BY DEF IInv, Timeslice, Jumped
<1>2. poll_signals(tst, pending) /\ Loop
  BY DEF Timeslice, Jumped
<1>3. CASE Clean(tst)
  <2>1. /\ Clean(tst') /\ pending' \subseteq Signals \union {SIGVGKILL}
        /\ SIGVGKILL \in pending' => is_exiting(tst')
    BY <1>1, <1>2, <1>3, PollIsClean
  <2> QED  BY <1>2, <2>1, LoopStep DEF Clean
<1>4. CASE is_exiting(tst)
  <2>1. tst' = tst /\ pending' = pending
    BY <1>2, <1>4 DEF poll_signals
  <2>2. Sound(tst') /\ is_exiting(tst')
    BY <1>1, <1>4, <2>1
  <2> QED  BY <1>1, <1>2, <2>1, <2>2, LoopStep
<1> QED  BY <1>1, <1>3, <1>4

\* A handler of the core is entered.
LEMMA InterruptStep ==
  ASSUME IInv, NEW s \in Signals \union {SIGVGKILL}, Interrupt(s)
  PROVE  IInv'
<1>1. pc \in {"setup", "at", "kernel", "complete", "committed"} /\ InCall(tst, pc)
  BY DEF Interrupt, IInv, CallLabels
<1>2. /\ UNCHANGED <<tst, action>> /\ current' = s /\ pending' = pending \ {s}
      /\ s \in pending /\ s \notin HostMask
      /\ pc' = IF s = SIGVGKILL THEN "sigvgkill" ELSE "async"
  BY DEF Interrupt
<1>3. ip' \in {"setup", "at", "complete", "committed"} /\ InCall(tst, ip)'
  <2>1. CASE pc # "kernel"
    <3>1. ip' = pc /\ host_rax' = host_rax
      BY <2>1 DEF Interrupt
    <3> QED  BY <1>1, <1>2, <2>1, <3>1, Primed DEF InCall
  <2>2. CASE pc = "kernel"
    <3>1. \/ ip' = "at"
          \/ ip' = "complete" /\ host_rax' = "EINTR"
      BY <2>2 DEF Interrupt
    <3>2. tst.guest.rax = "sysno" /\ tst.guest.effects = 0
      BY <1>1, <2>2 DEF InCall
    <3> QED  BY <1>1, <1>2, <3>1, <3>2, Primed DEF InCall
  <2> QED  BY <2>1, <2>2
<1>4. s # SIGVGKILL =>
        \/ s \notin tst.sig_mask
        \/ /\ ip' = "complete" /\ host_rax' = "EINTR"
           /\ tst.guest.kind \in WithMask /\ s \notin tst.guest.arg
  <2>1. CASE pc = "kernel" /\ tst.guest.kind \in WithMask
    <3>1. s \notin tst.guest.arg
      BY <1>2, <2>1, Zenon DEF HostMask
    <3>2. tst.guest.kind # "accept"
      BY <2>1 DEF WithMask
    <3> QED  BY <2>1, <3>1, <3>2 DEF Interrupt
  <2>2. CASE ~ (pc = "kernel" /\ tst.guest.kind \in WithMask)
    BY <1>2, <2>2 DEF HostMask, sanitize_client_sigmask
  <2> QED  BY <2>1, <2>2
<1>5. /\ pc' \in {"async", "sigvgkill"}
      /\ pc' \in {"guest", "jumped", "dead", "async", "sigvgkill"} \union CallLabels
      /\ pc' \notin CallLabels
  BY <1>2 DEF CallLabels
<1>6. /\ Sound(tst)' /\ pending' \subseteq Signals \union {SIGVGKILL}
      /\ action' \in [Signals -> Actions]
      /\ SIGVGKILL \in pending => is_exiting(tst)
  BY <1>2, <1>3 DEF IInv, InCall
<1>7. SIGVGKILL \in pending' \/ s = SIGVGKILL => is_exiting(tst)'
  BY <1>2, <1>6 DEF is_exiting
<1> QED  BY <1>2, <1>3, <1>4, <1>5, <1>6, <1>7 DEF IInv

\* A thread between two calls, or on its way out, is back from a handler.
LEMMA JumpedIs ==
  ASSUME IInv, pc' = "jumped", Sound(tst'), Clean(tst') \/ is_exiting(tst'),
         UNCHANGED <<action, pending, current>>, is_exiting(tst) => is_exiting(tst')
  PROVE  IInv'
<1>1. pc' \in {"guest", "jumped", "dead", "async", "sigvgkill"} \union CallLabels /\ pc' \notin CallLabels
  BY DEF CallLabels
<1>2. Sound(tst)' /\ (Clean(tst)' \/ is_exiting(tst)')
  BY Primed
<1>3. SIGVGKILL \in pending' => is_exiting(tst)'
  BY Primed DEF IInv
<1> QED  BY <1>1, <1>2, <1>3 DEF IInv

\* A signal ends the call or takes it back, and is delivered.
LEMMA AsyncStep ==
  ASSUME IInv, async_signalhandler
  PROVE  IInv'
<1>1. /\ pc = "async" /\ pc' = "jumped" /\ UNCHANGED <<action, pending, current>>
  BY DEF async_signalhandler, Goto
<1>2. /\ Sound(tst) /\ ip \in {"setup", "at", "complete", "committed"} /\ InCall(tst, ip)
      /\ current \in Signals \union {SIGVGKILL}
      /\ action \in [Signals -> Actions]
      /\ \/ current \notin tst.sig_mask
         \/ /\ ip = "complete" /\ host_rax = "EINTR"
            /\ tst.guest.kind \in WithMask /\ current \notin tst.guest.arg
  BY <1>1 DEF IInv
<1>3. tst \in ThreadState /\ tst.guest \in GuestState
  BY <1>2 DEF Sound, ThreadState
<1>4. CASE is_exiting(tst)
  <2>1. tst' = tst
    BY <1>4 DEF async_signalhandler
  <2>2. Sound(tst') /\ is_exiting(tst')
    BY <1>2, <1>4, <2>1
  <2> QED  BY <1>1, <2>2, JumpedIs
<1>5. CASE ~ is_exiting(tst)
  <2>. DEFINE restart == "RESTART" \in action[current].flags
  <2>1. PICK r \in AfterPost(tst) : tst' = deliver_signal(fixup(tst, restart, r), current)
    BY <1>5 DEF async_signalhandler
  <2>2. r \in {"ok", "refused"}
    BY DEF AfterPost
  <2>. HIDE DEF restart
  <2>. DEFINE t == fixup(tst, restart, r)
  <2>3. Clean(t) /\ Open(current, t.sig_mask, t.guest)
    <3>1. CASE ip = "setup" \/ (ip = "at" /\ restart)
      <4>. DEFINE g == [tst.guest EXCEPT !.rip = "at"]
      <4>1. /\ tst.guest.rax = "sysno" /\ tst.guest.effects = 0 /\ tst.guest.posts = 0
            /\ tst.guest.kind \in MayBlock /\ current \notin tst.sig_mask
        BY <1>2, <3>1 DEF InCall
      <4>2. t = [tst EXCEPT !.guest = g, !.what = "SsIdle"]
        BY <1>3, <3>1 DEF fixup, Restart, ThreadState
      <4>3. /\ g \in GuestState /\ g.rip = "at" /\ g.rax = "sysno" /\ g.effects = 0 /\ g.posts = 0
            /\ g.kind \in MayBlock
        BY <1>3, <4>1 DEF GuestState
      <4>. HIDE DEF g, t
      <4>4. t \in ThreadState /\ t.guest = g /\ t.what = "SsIdle" /\ SameRest(tst, t)
        BY <1>3, <4>2, <4>3, Zenon DEF ThreadState, SameRest, Whats
      <4>5. Sound(t)
        BY <1>2, <4>4, StaysSound
      <4> QED  BY <4>1, <4>3, <4>4, <4>5 DEF Clean, Settled, Open, SameRest, t
    <3>2. CASE ~ (ip = "setup" \/ (ip = "at" /\ restart))
      <4>. DEFINE res == IF ip = "at" THEN "EINTR" ELSE IF ip = "complete" THEN host_rax ELSE tst.guest.rax
      <4>1. t = post_syscall(Complete(tst, res), r)
        BY <1>2, <3>2 DEF fixup
      <4>2. /\ tst.guest.rip = "after" /\ tst.guest.posts = 0
            /\ res \in {"ok", "err", "EINTR"} /\ tst.guest.effects = IF res = "ok" THEN 1 ELSE 0
            /\ ip = "complete" => res = host_rax
        BY <1>2, <3>2 DEF InCall
      <4>. HIDE DEF res, t
      <4>3. /\ Clean(t) /\ SameRest(tst, t)
            /\ t.guest.kind = tst.guest.kind /\ t.guest.arg = tst.guest.arg
            /\ res # "ok" => t.guest.rax = res
        BY <1>2, <2>2, <4>1, <4>2, PostIsClean
      <4>4. \/ current \notin t.sig_mask
            \/ t.guest.kind \in WithMask /\ t.guest.rax = "EINTR" /\ current \notin t.guest.arg
        <5>1. t.sig_mask = tst.sig_mask
          BY <4>3 DEF SameRest
        <5>2. CASE current \notin tst.sig_mask
          BY <5>1, <5>2
        <5>3. CASE /\ ip = "complete" /\ host_rax = "EINTR"
                   /\ tst.guest.kind \in WithMask /\ current \notin tst.guest.arg
          BY <4>2, <4>3, <5>3
        <5> QED  BY <1>2, <5>2, <5>3
      <4> QED  BY <4>3, <4>4 DEF Open, t
    <3> QED  BY <3>1, <3>2
  <2>. HIDE DEF t
  <2>4. Clean(tst')
    BY <1>2, <2>1, <2>3, DeliverIsClean DEF t
  <2> QED  BY <1>1, <1>5, <2>4, JumpedIs DEF Clean
<1> QED  BY <1>4, <1>5

\* The thread is to die: the call is given up.
LEMMA VgkillStep ==
  ASSUME IInv, sigvgkill_handler
  PROVE  IInv'
<1>1. /\ pc = "sigvgkill" /\ pc' = "jumped" /\ UNCHANGED <<action, pending, current>>
      /\ tst.what = "SsHandToKernel" /\ Sound(tst) /\ is_exiting(tst)
  BY DEF sigvgkill_handler, Goto, IInv, InCall
<1>2. tst' = [tst EXCEPT !.what = "SsIdle"]
  BY <1>1 DEF sigvgkill_handler, post_syscall
<1>3. tst' \in ThreadState /\ SameRest(tst, tst')
  BY <1>1, <1>2, Zenon DEF Sound, ThreadState, Whats, SameRest
<1>4. Sound(tst') /\ is_exiting(tst')
  BY <1>1, <1>3, StaysSound DEF SameRest, is_exiting
<1> QED  BY <1>1, <1>4, JumpedIs

\* What the invariant says of the thread depends on it and host_rax only.
LEMMA Unmoved ==
  ASSUME UNCHANGED <<tst, host_rax>>
  PROVE  /\ Sound(tst)' = Sound(tst) /\ Clean(tst)' = Clean(tst)
         /\ is_exiting(tst)' = is_exiting(tst)
         /\ \A p : InCall(tst, p)' = InCall(tst, p)
BY Primed DEF InCall

\* A signal is sent.
LEMMA SendStep ==
  ASSUME IInv, NEW s \in Signals, Send(s)
  PROVE  IInv'
<1>1. UNCHANGED <<pc, ip, host_rax, tst, action, current>> /\ pending' = pending \union {s}
  BY DEF Send
<1>2. s # SIGVGKILL
  BY SyscallAssumption
<1>3. /\ Sound(tst)' = Sound(tst) /\ Clean(tst)' = Clean(tst)
      /\ is_exiting(tst)' = is_exiting(tst) /\ InCall(tst, pc)' = InCall(tst, pc)
      /\ InCall(tst, ip)' = InCall(tst, ip)
  BY <1>1, Unmoved
<1> QED  BY <1>1, <1>2, <1>3 DEF IInv

\* The process ends around the thread.
LEMMA NukeStep ==
  ASSUME IInv, Nuke
  PROVE  IInv'
<1>. DEFINE t == tst'
<1>1. /\ UNCHANGED <<pc, ip, host_rax, action, current>>
      /\ pending' \subseteq pending \union {SIGVGKILL}
      /\ t = [tst EXCEPT !.exitreason = "ExitProcess"]
  BY DEF Nuke
<1>2. tst \in ThreadState /\ Sound(tst)
  BY DEF IInv, Sound
<1>3. /\ t \in ThreadState /\ t.guest = tst.guest /\ t.frames = tst.frames /\ t.what = tst.what
      /\ t.sig_mask = tst.sig_mask /\ t.tmp_sig_mask = tst.tmp_sig_mask /\ t.exitreason = "ExitProcess"
  BY <1>1, <1>2, Zenon DEF ThreadState, ExitReasons
<1>4. Sound(tst)' /\ is_exiting(tst)' /\ (Clean(tst) => Clean(tst)')
  BY <1>2, <1>3, Primed DEF Clean, Sound, FramesOK, is_exiting
<1>5. \A p : InCall(tst, p) => InCall(tst, p)'
  BY <1>1, <1>3, <1>4 DEF InCall
<1>6. pending' \subseteq Signals \union {SIGVGKILL}
  BY <1>1 DEF IInv
<1> QED  BY <1>1, <1>3, <1>4, <1>5, <1>6 DEF IInv, InCall

-----------------------------------------------------------------------------
(* The theorems                                                            *)

\* The invariant holds in every behaviour: wherever the thread is, its
\* registers, its frames and its masks are those of a call that has got that
\* far.
THEOREM SyscallInvariant == Spec => []IInv
<1>1. Init => IInv
  <2>1. SUFFICES ASSUME Init PROVE IInv
    OBVIOUS
  <2>2. tst = [guest |-> Fresh, frames |-> << >>, sig_mask |-> {}, tmp_sig_mask |-> {},
               handler |-> [s \in Signals |-> "fn"], exitreason |-> "None", what |-> "SsIdle"]
    BY <2>1 DEF Init
  <2>3. /\ << >> \in Frames /\ {} \in Masks /\ [s \in Signals |-> "fn"] \in Handlers
        /\ "None" \in ExitReasons /\ "SsIdle" \in Whats
    BY DEF Frames, Masks, Handlers, ExitReasons, Whats
  <2>4. tst \in ThreadState
    BY <2>2, <2>3, FreshIs DEF ThreadState
  <2>5. Clean(tst) /\ Sound(tst)
    BY <2>2, <2>4, FreshIs DEF Clean, Sound, FramesOK
  <2>6. action \in [Signals -> Actions]
    BY <2>1 DEF Init
  <2> QED  BY <2>1, <2>5, <2>6 DEF Init, IInv, CallLabels
<1>2. IInv /\ [Next]_vars => IInv'
  <2>1. SUFFICES ASSUME IInv, [Next]_vars PROVE IInv'
    OBVIOUS
  <2>2. CASE Guest
    BY <2>1, <2>2, GuestStep
  <2>3. CASE Progress
    BY <2>1, <2>3, WrkStep, FinishStep, PollStep, AsyncStep, VgkillStep DEF Progress
  <2>4. CASE Interrupts
    BY <2>1, <2>4, InterruptStep DEF Interrupts
  <2>5. CASE KernelReturns
    BY <2>1, <2>5, WrkStep
  <2>6. CASE Nuke
    BY <2>1, <2>6, NukeStep
  <2>7. CASE \E s \in Signals : Send(s)
    BY <2>1, <2>7, SendStep
  <2>8. CASE UNCHANGED vars
    <3>1. UNCHANGED <<pc, ip, host_rax, tst, action, pending, current>>
      BY <2>8 DEF vars
    <3>2. /\ Sound(tst)' = Sound(tst) /\ Clean(tst)' = Clean(tst)
          /\ is_exiting(tst)' = is_exiting(tst) /\ InCall(tst, pc)' = InCall(tst, pc)
          /\ InCall(tst, ip)' = InCall(tst, ip)
      BY <3>1, Unmoved
    <3> QED  BY <2>1, <3>1, <3>2 DEF IInv
  <2> QED  BY <2>1, <2>2, <2>3, <2>4, <2>5, <2>6, <2>7, <2>8 DEF Next
<1> QED  BY <1>1, <1>2, PTL DEF Spec

\* Every call takes effect as often as the guest is told, once or not at all,
\* whatever signals interrupt it: see CallTakesEffectOnce.
THEOREM CallsCorrect == Spec => []CallTakesEffectOnce
<1>1. IInv => CallTakesEffectOnce
  <2>1. SUFFICES ASSUME IInv, NEW g \in GuestStates PROVE Settled(g)
    BY DEF CallTakesEffectOnce, Settled
  <2>2. CASE pc = "guest" /\ g = tst.guest
    BY <2>1, <2>2 DEF IInv, Clean
  <2>3. CASE \E i \in DOMAIN tst.frames : g = tst.frames[i].guest
    BY <2>1, <2>3 DEF IInv, Sound, FramesOK
  <2> QED  BY <2>1, <2>2, <2>3 DEF GuestStates
<1> QED  BY <1>1, SyscallInvariant, PTL

\* Handlers run for open signals only, and the assertions on masks and on the
\* state of the call hold: see HandlersRespectMask.
THEOREM MasksCorrect == Spec => []HandlersRespectMask
<1>1. IInv => HandlersRespectMask
  <2>1. SUFFICES ASSUME IInv PROVE HandlersRespectMask
    OBVIOUS
  <2>2. \A i \in DOMAIN tst.frames :
          Open(tst.frames[i].sig, tst.frames[i].mask, tst.frames[i].guest)
    BY <2>1 DEF IInv, Sound, FramesOK
  <2>3. pc = "guest" => tst.what = "SsIdle" /\ tst.sig_mask = tst.tmp_sig_mask
    BY <2>1 DEF IInv, Clean, Sound
  <2>4. pc = "async" => tst.what = "SsHandToKernel"
    BY <2>1 DEF IInv, InCall
  <2>5. SIGVGKILL \in pending => is_exiting(tst)
    BY <2>1 DEF IInv
  <2> QED  BY <2>2, <2>3, <2>4, <2>5 DEF HandlersRespectMask, Open
<1> QED  BY <1>1, SyscallInvariant, PTL

=============================================================================
