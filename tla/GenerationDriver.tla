-------------------------- MODULE GenerationDriver --------------------------
(***************************************************************************)
(* The generation phase of a command: request_command in                  *)
(* assets/scripts/run_command.js, with the command generator at the other  *)
(* end of /api/orchestration/gui.                                          *)
(*                                                                         *)
(* On open the client sends the command request.  The generator answers    *)
(* with an init message (was the request understood?), then streams the    *)
(* generated instructions, possibly with status messages, and closes.      *)
(* Any message flagged was_error sets command_generation_failure, and on   *)
(* the close event the client either hands generated_commands to the       *)
(* execution phase or reports the failure and resets the running state.    *)
(* The generator is not in these sources: it is modelled from the wire     *)
(* contract of the specification, and may also send a frame that is not   *)
(* JSON, and the network may drop the connection.                          *)
(***************************************************************************)
EXTENDS Naturals, Sequences, SequencesExt

CONSTANTS
  Instrs,         \* the instructions a generator can emit (model values)
  MaxPlan,        \* bound on the length of a generated plan
  MaxStatus,      \* bound on the status messages the generator sends
  AllowDrop,      \* whether the network may drop the connection
  AllowMalformed  \* whether the generator may send a frame that is not JSON

ASSUME /\ MaxPlan \in Nat /\ MaxStatus \in Nat
       /\ AllowDrop \in BOOLEAN /\ AllowMalformed \in BOOLEAN

VARIABLES
  gws,                         \* readyState of command_generator_websocket
  request_sent,                \* onopen sent the command request
  generated_commands,          \* instructions stored by onmessage
  command_generation_failure,  \* a message was flagged was_error
  indicator_active,            \* the connection-state badge says active
  handover,                    \* "pending", "execute" (run_orchestration) or "abort"
  handed,                      \* the list given to run_orchestration
  g_s2c,                       \* frames in flight from generator to client
  plan,                        \* generator: the instructions it will emit
  gen_phase,                   \* generator: "wait", "generating", "closed"
  emitted,                     \* generator: instructions of plan sent so far
  statuses,                    \* generator: status messages sent so far
  init_ok_seen,                \* history: an init message with was_error false was handled
  error_seen,                  \* history: a message flagged was_error was handled
  dropped                      \* history: the connection dropped

client == <<gws, request_sent, generated_commands, command_generation_failure,
            indicator_active, handover, handed>>
generator == <<g_s2c, plan, gen_phase, emitted, statuses>>
history == <<init_ok_seen, error_seen, dropped>>
vars == <<client, generator, history>>

NoInstr == "none"

\* The frames of the generation channel: init and status messages carry
\* was_error, instruction frames carry the instruction, a close marker ends
\* the stream, and a malformed frame is text that is not JSON.
InitMsg(err)   == [kind |-> "Init", err |-> err, instr |-> NoInstr]
StatusMsg(err) == [kind |-> "Status", err |-> err, instr |-> NoInstr]
InstrMsg(i)    == [kind |-> "Instr", err |-> FALSE, instr |-> i]
Malformed      == [kind |-> "Malformed", err |-> FALSE, instr |-> NoInstr]
CloseMarker    == [kind |-> "Close", err |-> FALSE, instr |-> NoInstr]

-----------------------------------------------------------------------------
Init ==
  /\ gws = "connecting"
  /\ request_sent = FALSE
  /\ generated_commands = <<>>
  /\ command_generation_failure = FALSE
  /\ indicator_active = FALSE
  /\ handover = "pending"
  /\ handed = <<>>
  /\ g_s2c = <<>>
  /\ plan \in BoundedSeq(Instrs, MaxPlan)
  /\ gen_phase = "wait"
  /\ emitted = 0
  /\ statuses = 0
  /\ init_ok_seen = FALSE
  /\ error_seen = FALSE
  /\ dropped = FALSE

\* Fault: the request is not sent from onopen.
OnOpen_noSend ==
  /\ gws = "connecting"
  /\ gws' = "open"
  /\ indicator_active' = TRUE
  /\ UNCHANGED <<request_sent, generated_commands, command_generation_failure,
                 handover, handed, generator, history>>

\* onopen: clear the terminal, send the request, badge active, RUNNING.
OnOpen ==
  /\ gws = "connecting"
  /\ gws' = "open"
  /\ request_sent' = TRUE
  /\ indicator_active' = TRUE
  /\ UNCHANGED <<generated_commands, command_generation_failure, handover,
                 handed, generator, history>>

\* onmessage takes the frame at the head of the channel.
Deliver(kinds) ==
  /\ gws = "open"
  /\ g_s2c # <<>>
  /\ Head(g_s2c).kind \in kinds
  /\ g_s2c' = Tail(g_s2c)

\* JSON.parse throws: the handler ends before any branch.
ReceiveMalformed ==
  /\ Deliver({"Malformed"})
  /\ UNCHANGED <<client, plan, gen_phase, emitted, statuses, history>>

\* Fault: the flag is overwritten by every message instead of latched.
ReceiveInitOrStatus_overwrite ==
  /\ Deliver({"Init", "Status"})
  /\ command_generation_failure' = Head(g_s2c).err
  /\ init_ok_seen' = (init_ok_seen \/ Head(g_s2c) = InitMsg(FALSE))
  /\ error_seen' = (error_seen \/ Head(g_s2c).err)
  /\ UNCHANGED dropped
  /\ UNCHANGED <<gws, request_sent, generated_commands, indicator_active,
                 handover, handed, plan, gen_phase, emitted, statuses>>

\* Fault: init_msg is tested for truth instead of presence, so a status
\* message (init_msg false) is stored as an instruction.
ReceiveInitOrStatus_statusStored ==
  /\ Deliver({"Init", "Status"})
  /\ command_generation_failure' =
       (command_generation_failure \/ (Head(g_s2c).kind = "Init" /\ Head(g_s2c).err))
  /\ generated_commands' =
       IF Head(g_s2c).kind = "Status"
       THEN Append(generated_commands, Head(g_s2c).instr)
       ELSE generated_commands
  /\ init_ok_seen' = (init_ok_seen \/ Head(g_s2c) = InitMsg(FALSE))
  /\ error_seen' = (error_seen \/ Head(g_s2c).err)
  /\ UNCHANGED dropped
  /\ UNCHANGED <<gws, request_sent, indicator_active,
                 handover, handed, plan, gen_phase, emitted, statuses>>

\* A message with init_msg: the init message or a status message.  Either
\* way was_error false is displayed and anything else flags the failure.
ReceiveInitOrStatus ==
  /\ Deliver({"Init", "Status"})
  /\ command_generation_failure' = (command_generation_failure \/ Head(g_s2c).err)
  /\ init_ok_seen' = (init_ok_seen \/ Head(g_s2c) = InitMsg(FALSE))
  /\ error_seen' = (error_seen \/ Head(g_s2c).err)
  /\ UNCHANGED dropped
  /\ UNCHANGED <<gws, request_sent, generated_commands, indicator_active,
                 handover, handed, plan, gen_phase, emitted, statuses>>

\* A message without init_msg is an instruction and is stored.
ReceiveInstruction ==
  /\ Deliver({"Instr"})
  /\ generated_commands' = Append(generated_commands, Head(g_s2c).instr)
  /\ UNCHANGED <<gws, request_sent, command_generation_failure, indicator_active,
                 handover, handed, plan, gen_phase, emitted, statuses, history>>

\* The close listener: hand the list over, or report and reset_running_state.
CloseListener ==
  /\ gws' = "closed"
  /\ \/ /\ ~command_generation_failure
        /\ handover' = "execute"
        /\ handed' = generated_commands
        /\ UNCHANGED indicator_active
     \/ /\ command_generation_failure
        /\ handover' = "abort"
        /\ indicator_active' = FALSE
        /\ UNCHANGED handed

\* The generator's close arrives after every frame it sent before it.
ReceiveClose ==
  /\ Deliver({"Close"})
  /\ CloseListener
  /\ UNCHANGED <<request_sent, generated_commands, command_generation_failure,
                 plan, gen_phase, emitted, statuses, history>>

\* The connection drops: the close event fires and frames in flight are lost.
Drop ==
  /\ AllowDrop
  /\ gws \in {"connecting", "open"}
  /\ g_s2c' = <<>>
  /\ gen_phase' = "closed"
  /\ CloseListener
  /\ dropped' = TRUE
  /\ UNCHANGED <<request_sent, generated_commands, command_generation_failure,
                 plan, emitted, statuses, init_ok_seen, error_seen>>

-----------------------------------------------------------------------------
(* Generator (spec_modelled).                                               *)

Emit(f) == g_s2c' = Append(g_s2c, f)

\* The request is read and answered with an init message; a request that is
\* not understood is answered with was_error and the channel is closed.
GenInit ==
  /\ gen_phase = "wait"
  /\ request_sent
  /\ \/ /\ Emit(InitMsg(FALSE))
        /\ gen_phase' = "generating"
     \/ /\ g_s2c' = g_s2c \o <<InitMsg(TRUE), CloseMarker>>
        /\ gen_phase' = "closed"
  /\ UNCHANGED <<client, plan, emitted, statuses, history>>

\* A generator that answers with a frame that is not JSON.
GenMalformedInit ==
  /\ AllowMalformed
  /\ gen_phase = "wait"
  /\ request_sent
  /\ Emit(Malformed)
  /\ gen_phase' = "generating"
  /\ UNCHANGED <<client, plan, emitted, statuses, history>>

GenInstruction ==
  /\ gen_phase = "generating"
  /\ emitted < Len(plan)
  /\ Emit(InstrMsg(plan[emitted + 1]))
  /\ emitted' = emitted + 1
  /\ UNCHANGED <<client, plan, gen_phase, statuses, history>>

\* A status message, successful or flagging an error in generation.
GenStatus ==
  /\ gen_phase = "generating"
  /\ statuses < MaxStatus
  /\ \E err \in BOOLEAN : Emit(StatusMsg(err))
  /\ statuses' = statuses + 1
  /\ UNCHANGED <<client, plan, gen_phase, emitted, history>>

GenClose ==
  /\ gen_phase = "generating"
  /\ emitted = Len(plan)
  /\ Emit(CloseMarker)
  /\ gen_phase' = "closed"
  /\ UNCHANGED <<client, plan, emitted, statuses, history>>

\* Generation is over; the page waits for the next phase.
Finished ==
  /\ gws = "closed"
  /\ UNCHANGED vars

Next ==
  \/ OnOpen
  \/ ReceiveMalformed
  \/ ReceiveInitOrStatus
  \/ ReceiveInstruction
  \/ ReceiveClose
  \/ Drop
  \/ GenInit
  \/ GenMalformedInit
  \/ GenInstruction
  \/ GenStatus
  \/ GenClose
  \/ Finished

\* The browser delivers every frame and the close event; the generator
\* answers the request, emits its plan and closes.  The network is not fair.
Fairness ==
  /\ WF_vars(OnOpen)
  /\ WF_vars(ReceiveMalformed)
  /\ WF_vars(ReceiveInitOrStatus)
  /\ WF_vars(ReceiveInstruction)
  /\ WF_vars(ReceiveClose)
  /\ WF_vars(GenInit)
  /\ WF_vars(GenInstruction)
  /\ WF_vars(GenClose)

Spec == Init /\ [][Next]_vars /\ Fairness

-----------------------------------------------------------------------------
TypeOK ==
  /\ gws \in {"connecting", "open", "closed"}
  /\ request_sent \in BOOLEAN
  /\ generated_commands \in Seq(Instrs)
  /\ command_generation_failure \in BOOLEAN
  /\ indicator_active \in BOOLEAN
  /\ handover \in {"pending", "execute", "abort"}
  /\ handed \in Seq(Instrs)
  /\ gen_phase \in {"wait", "generating", "closed"}
  /\ emitted \in 0 .. MaxPlan
  /\ statuses \in 0 .. MaxStatus

(* A message flagged was_error stops the pipeline: once onmessage has       *)
(* handled one, whatever arrives after it, the close listener never calls   *)
(* run_orchestration.                                                       *)
FailureBlocksExecution ==
  error_seen => handover # "execute"

(* The list handed to run_orchestration is the generator's plan, complete   *)
(* and in order: no instruction lost, added or reordered between the        *)
(* generator and the close listener.                                        *)
HandedListIsPlan ==
  handover = "execute" => handed = plan

(* Over a connection that did not drop, the list handed to               *)
(* run_orchestration is the generator's plan, complete and in order,      *)
(* whatever status and malformed frames were interleaved with it.         *)
UndroppedListIsPlan ==
  handover = "execute" /\ ~dropped => handed = plan

(* Execution starts only after the generator confirmed that it understood   *)
(* the request (specification 4.2: a close before any initiation message,  *)
(* or a malformed one, is a failure).                                       *)
InitBeforeHandover ==
  handover = "execute" => init_ok_seen

(* Every generation phase ends, in a hand-over or an abort.                 *)
GenerationEnds == <>(handover # "pending")

=============================================================================
