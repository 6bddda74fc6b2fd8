-------------------------- MODULE ClientSyscallMC --------------------------
(***************************************************************************)
(* ClientSyscall for TLC: two signals, a set with one of them and the      *)
(* core's own, a handler that blocks this set and has calls restarted, and *)
(* one that is reset when it is entered and blocks nothing.                *)
(***************************************************************************)
EXTENDS ClientSyscall

CONSTANTS USR1, USR2

MCSignals == {USR1, USR2}
Some == {USR1, SIGVGKILL}
MCSigSets == {{}, Some}
MCActions ==
  {[flags |-> {"RESTART"}, mask |-> Some], [flags |-> {"ONESHOT", "NOMASK"}, mask |-> {}]}

=============================================================================
