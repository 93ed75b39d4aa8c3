---------------------------- MODULE ExecutionSpec ----------------------------
(***************************************************************************)
(* What the execution phase promises, stated without channels or reply     *)
(* counting: the remote executor runs the generated instructions one at a  *)
(* time, in generation order, each at most once; it stops for good when it *)
(* acknowledges a cancellation; and the session reports Done only once     *)
(* every instruction has run, Cancelled only once the executor stopped.    *)
(* ExecutionDriver is checked to implement this specification.             *)
(***************************************************************************)
EXTENDS Naturals

CONSTANT None            \* no instruction is running

VARIABLES
  n,        \* number of instructions to run
  ran,      \* instructions 0 .. ran-1 have run to completion
  running,  \* the instruction being run, or None
  stopped,  \* the executor stopped on a cancel request
  verdict   \* what the session reported: "none", "Done", "Cancelled", "ProtocolError"

vars == <<n, ran, running, stopped, verdict>>

Verdicts == {"none", "Done", "Cancelled", "ProtocolError"}

Init ==
  /\ n \in Nat
  /\ ran = 0
  /\ running = None
  /\ stopped = FALSE
  /\ verdict = "none"

\* The next instruction in generation order starts; nothing else may.
Begin ==
  /\ running = None
  /\ ~stopped
  /\ ran < n
  /\ running' = ran
  /\ UNCHANGED <<n, ran, stopped, verdict>>

Finish ==
  /\ running # None
  /\ ran' = ran + 1
  /\ running' = None
  /\ UNCHANGED <<n, stopped, verdict>>

\* A cancel request abandons the running instruction, if any.
Stop ==
  /\ ~stopped
  /\ stopped' = TRUE
  /\ running' = None
  /\ UNCHANGED <<n, ran, verdict>>

Conclude(v) ==
  /\ verdict = "none"
  /\ v = "Done" => ran = n /\ running = None
  /\ v = "Cancelled" => stopped
  /\ verdict' = v
  /\ UNCHANGED <<n, ran, running, stopped>>

Next ==
  \/ Begin
  \/ Finish
  \/ Stop
  \/ \E v \in Verdicts \ {"none"} : Conclude(v)

Spec == Init /\ [][Next]_vars
=============================================================================
