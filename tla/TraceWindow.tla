---------------------------- MODULE TraceWindow ----------------------------
(***************************************************************************)
(* What cstracer promises about the instructions in a trace, without the   *)
(* tool's flags, its counter or its record.  The instructions a program    *)
(* executes are numbered from 1.  The window starts behind the first       *)
(* instructions, which are skipped.  An instruction of the window is added *)
(* to the trace when the next one starts, provided that is in the window   *)
(* too; the instruction that follows the window closes the trace.          *)
(***************************************************************************)
EXTENDS Naturals, Sequences

CONSTANTS
  Options,     \* values of --skip and --trace
  MayLose      \* whether the operating system may refuse a write

VARIABLES
  first,       \* --skip
  count,       \* --trace
  executed,    \* instructions started
  trace,       \* numbers of the instructions in the file
  open         \* whether the file is open

vars == <<first, count, executed, trace, open>>

Init ==
  /\ first \in Options
  /\ count \in Options
  /\ executed = 0
  /\ trace = <<>>
  /\ open = TRUE

Completed == first < executed /\ executed < first + count

Execute ==
  /\ executed' = executed + 1
  /\ open' = (open /\ executed' # first + count + 1)
  /\ \/ open /\ Completed /\ trace' = Append(trace, executed)
     \/ (open /\ Completed => MayLose) /\ trace' = trace
  /\ UNCHANGED <<first, count>>

Close ==
  /\ open' = FALSE
  /\ UNCHANGED <<first, count, executed, trace>>

Next == Execute \/ Close

Spec == Init /\ [][Next]_vars

=============================================================================
