------------------------------ MODULE PipeSema ------------------------------
(***************************************************************************)
(* The default scheduler lock: a token passed through a pipe               *)
(* (src/coregrind/m_scheduler/sema.c, sched-lock-generic.c).  The pipe is  *)
(* the sequence of the bytes in it; a byte 'A'..'Z' is its number from 0,  *)
(* of which Chars are kept.                                                *)
(*                                                                         *)
(* pc: "out"; "down" in read(); "got" with the token, sema_char and the    *)
(* owner still to be set; "held"; "up" owner cleared, write() next.        *)
(***************************************************************************)
EXTENDS SchedLockState

CONSTANTS
  Chars         \* the length of the cycle, 26 in the code

ASSUME CharsAssumption == Chars \in Nat \ {0}

VARIABLES pipe, sema_char

semaVars == <<pipe, sema_char>>

\* sema_init: the token is 'A' and sema_char the character after it.
SemaInit == pipe = <<0>> /\ sema_char = 1 % Chars

\* Up to the read().
Down(t) ==
  /\ pc[t] = "out"
  /\ Goto(t, "down")
  /\ UNCHANGED <<pipe, sema_char, owner>>

\* read() returns one byte.  When it is interrupted, -EINTR, it is called
\* again: nothing has changed.
ReadToken(t) ==
  /\ pc[t] = "down" /\ pipe # <<>>
  /\ pipe' = Tail(pipe)
  /\ Goto(t, "got")
  /\ UNCHANGED <<sema_char, owner>>

Got(t) ==
  /\ pc[t] = "got"
  /\ sema_char' = (sema_char + 1) % Chars
  /\ owner' = t
  /\ Goto(t, "held")
  /\ UNCHANGED pipe

Up(t) ==
  /\ pc[t] = "held"
  /\ owner' = None
  /\ Goto(t, "up")
  /\ UNCHANGED <<pipe, sema_char>>

\* buf[0] is read from sema_char before the owner is cleared; nobody else
\* can change it before the write.
WriteToken(t) ==
  /\ pc[t] = "up"
  /\ pipe' = Append(pipe, sema_char)
  /\ Goto(t, "out")
  /\ UNCHANGED <<sema_char, owner>>

SemaNext == \E t \in Threads : Down(t) \/ ReadToken(t) \/ Got(t) \/ Up(t) \/ WriteToken(t)

SemaProgress(t) == ReadToken(t) \/ Got(t) \/ Up(t) \/ WriteToken(t)

SemaInside == {t \in Threads : pc[t] \in {"held", "up"}}

Unordered == INSTANCE FairLock WITH
               Fifo <- FALSE, ahead <- [t \in Threads |-> {}],
               line <- {t \in Threads : pc[t] # "out"},
               inside <- SemaInside

=============================================================================
