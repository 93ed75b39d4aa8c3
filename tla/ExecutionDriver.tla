--------------------------- MODULE ExecutionDriver ---------------------------
(***************************************************************************)
(* The execution phase of a command: run_orchestration in                  *)
(* assets/scripts/run_command.js, together with the remote executor at the *)
(* other end of the /api/orchestration/ws channel.                         *)
(*                                                                         *)
(* The client sends generated_commands one at a time and sends the next    *)
(* only after two non-Log replies (the executor's acknowledgement and its  *)
(* outcome); Log frames may arrive at any point and never count.  A cancel *)
(* click sends a Cancel frame; the session ends on the executor's cancel   *)
(* acknowledgement, on a binary frame, after the last outcome, or when the *)
(* connection drops.  Instructions are opaque: an instruction is its index *)
(* in generated_commands.  The executor is not part of these sources; it   *)
(* is modelled from the wire contract of the specification.                *)
(***************************************************************************)
EXTENDS Integers, Sequences

CONSTANTS
  InstrCounts,  \* the lengths generated_commands can have on hand-over
  MaxLogs,      \* bound on the Log frames the executor sends per instruction
  MaxCancels,   \* bound on the operator's cancel clicks
  Instructions  \* the instruction shapes generated_commands may hold

ASSUME InstrCounts \subseteq Nat /\ MaxLogs \in Nat /\ MaxCancels \in Nat

None == -1

VARIABLES
  ws,                 \* readyState of command_runner_websocket
  generated_commands, \* the list handed over by generation, indexed from 0
  n_commands,         \* generated_commands.length
  current_command,    \* index of the next instruction to send
  messages_received,  \* non-Log replies counted for the outstanding instruction
  outcome,            \* the verdict the handler wrote to the terminal
  cancel_enabled,     \* the cancel button is enabled
  state_refreshed,    \* get_last_command_state was called after the close
  c2s,                \* frames in flight from client to executor
  s2c,                \* frames in flight from executor to client
  srv_phase,          \* executor: "idle", "executing" or "stopped"
  srv_cur,            \* executor: the instruction it is executing, or None
  srv_ran,            \* executor: outcomes it has sent
  srv_logs,           \* executor: Log frames sent for srv_cur
  cancels,            \* cancel clicks so far
  blob_sent           \* the executor has sent a binary frame

client == <<ws, generated_commands, n_commands, current_command, messages_received, outcome,
            cancel_enabled, state_refreshed>>
server == <<srv_phase, srv_cur, srv_ran, srv_logs>>
vars == <<client, c2s, s2c, server, cancels, blob_sent>>

Frame(k, i) == [kind |-> k, idx |-> i]

ReplyKinds == {"Ack", "Result"}

IL == INSTANCE InstructionLabel

\* generated_commands[i]; past the end of the list it is undefined.
Element(i) ==
  IF i \in DOMAIN generated_commands THEN generated_commands[i] ELSE [tag |-> "undefined"]

\* formatServerSendMessages returns without throwing on generated_commands[i].
Sendable(i) == ~IL!formatServerSendMessages(Element(i)).throws

-----------------------------------------------------------------------------
(* Client: the handlers of run_orchestration.                               *)

Init ==
  /\ ws = "connecting"
  /\ n_commands \in InstrCounts
  /\ generated_commands \in [0 .. n_commands - 1 -> Instructions]
  /\ current_command = 0
  /\ messages_received = 0
  /\ outcome = "none"
  /\ cancel_enabled = TRUE
  /\ state_refreshed = FALSE
  /\ c2s = <<>>
  /\ s2c = <<>>
  /\ srv_phase = "idle"
  /\ srv_cur = None
  /\ srv_ran = 0
  /\ srv_logs = 0
  /\ cancels = 0
  /\ blob_sent = FALSE

\* send_message: print the request line, then send the instruction as a
\* blob.  When the line cannot be built the call throws before the send.
send_message(msg_n) ==
  /\ Sendable(msg_n)
  /\ c2s' = Append(c2s, Frame("Instr", msg_n))

\* command_runner_websocket.close(): no message is delivered after it.
CloseSocket == ws' = "closing"

\* The 'open' listener.  When send_message throws (an empty list, or a
\* first instruction whose label cannot be built) the increment after it
\* does not run either.
OnOpen ==
  /\ ws = "connecting"
  /\ ws' = "open"
  /\ \/ /\ send_message(current_command)
        /\ current_command' = current_command + 1
     \/ /\ ~Sendable(current_command)
        /\ UNCHANGED <<c2s, current_command>>
  /\ UNCHANGED <<generated_commands, n_commands, messages_received, outcome, cancel_enabled,
                 state_refreshed, s2c, server, cancels, blob_sent>>

\* handle_message takes the frame at the head of the channel.
Receive(kinds) ==
  /\ ws = "open"
  /\ s2c # <<>>
  /\ Head(s2c).kind \in kinds
  /\ s2c' = Tail(s2c)

\* A binary frame: error line and close.  The handler then throws on
\* message.includes, so the counters are left alone.
ReceiveBlob ==
  /\ Receive({"Blob"})
  /\ outcome' = "ProtocolError"
  /\ CloseSocket
  /\ UNCHANGED <<generated_commands, n_commands, current_command, messages_received,
                 cancel_enabled, state_refreshed, c2s, server, cancels, blob_sent>>

\* The canonical cancel acknowledgement: notice, close, return.
ReceiveCancelAck ==
  /\ Receive({"CancelAck"})
  /\ outcome' = "Cancelled"
  /\ CloseSocket
  /\ UNCHANGED <<generated_commands, n_commands, current_command, messages_received,
                 cancel_enabled, state_refreshed, c2s, server, cancels, blob_sent>>

\* Fault: the counter is not reset after the next instruction is sent.
CountReply_noReset ==
  \/ /\ messages_received + 1 # 2
     /\ messages_received' = messages_received + 1
     /\ UNCHANGED <<ws, current_command, outcome, c2s>>
  \/ /\ messages_received + 1 = 2
     /\ current_command = n_commands
     /\ messages_received' = 2
     /\ outcome' = "Done"
     /\ CloseSocket
     /\ UNCHANGED <<current_command, c2s>>
  \/ /\ messages_received + 1 = 2
     /\ current_command # n_commands
     /\ send_message(current_command)
     /\ current_command' = current_command + 1
     /\ messages_received' = messages_received + 1
     /\ UNCHANGED <<ws, outcome>>

\* Fault: the next instruction waits for a third reply.
CountReply_threeReplies ==
  \/ /\ messages_received + 1 # 3
     /\ messages_received' = messages_received + 1
     /\ UNCHANGED <<ws, current_command, outcome, c2s>>
  \/ /\ messages_received + 1 = 3
     /\ send_message(current_command)
     /\ current_command' = current_command + 1
     /\ messages_received' = 0
     /\ UNCHANGED <<ws, outcome>>

\* Fault: off-by-one in the end-of-list test.
CountReply_endsEarly ==
  \/ /\ messages_received + 1 # 2
     /\ messages_received' = messages_received + 1
     /\ UNCHANGED <<ws, current_command, outcome, c2s>>
  \/ /\ messages_received + 1 = 2
     /\ current_command >= n_commands - 1
     /\ messages_received' = 2
     /\ outcome' = "Done"
     /\ CloseSocket
     /\ UNCHANGED <<current_command, c2s>>
  \/ /\ messages_received + 1 = 2
     /\ current_command < n_commands - 1
     /\ send_message(current_command)
     /\ current_command' = current_command + 1
     /\ messages_received' = 0
     /\ UNCHANGED <<ws, outcome>>

\* The counting branch of handle_message for an acknowledgement or outcome.
\* When send_message throws, the increment and the reset after it are
\* skipped and the count stays at 2.
CountReply ==
  \/ /\ messages_received + 1 # 2
     /\ messages_received' = messages_received + 1
     /\ UNCHANGED <<ws, current_command, outcome, c2s>>
  \/ /\ messages_received + 1 = 2
     /\ current_command = n_commands
     /\ messages_received' = 2
     /\ outcome' = "Done"
     /\ CloseSocket
     /\ UNCHANGED <<current_command, c2s>>
  \/ /\ messages_received + 1 = 2
     /\ current_command # n_commands
     /\ send_message(current_command)
     /\ current_command' = current_command + 1
     /\ messages_received' = 0
     /\ UNCHANGED <<ws, outcome>>
  \/ /\ messages_received + 1 = 2
     /\ current_command # n_commands
     /\ ~Sendable(current_command)
     /\ messages_received' = 2
     /\ UNCHANGED <<ws, current_command, outcome, c2s>>

ReceiveReply ==
  /\ Receive(ReplyKinds)
  /\ CountReply
  /\ UNCHANGED <<generated_commands, n_commands, cancel_enabled, state_refreshed, server,
                 cancels, blob_sent>>

\* Fault: a Log frame is counted as a reply.
ReceiveLog_counted ==
  /\ Receive({"Log"})
  /\ CountReply
  /\ UNCHANGED <<generated_commands, n_commands, cancel_enabled, state_refreshed, server,
                 cancels, blob_sent>>

\* A Log frame is displayed and does not count as a reply.
ReceiveLog ==
  /\ Receive({"Log"})
  /\ UNCHANGED <<ws, generated_commands, n_commands, current_command, messages_received, outcome,
                 cancel_enabled, state_refreshed, c2s, server, cancels, blob_sent>>

\* The cancel button handler sends the Cancel blob.  On a socket that is
\* still connecting send throws, on a closing one the frame is discarded:
\* neither changes state, so only a click on an open socket is an action.
CancelClick ==
  /\ cancel_enabled
  /\ ws = "open"
  /\ cancels < MaxCancels
  /\ c2s' = Append(c2s, Frame("Cancel", None))
  /\ cancels' = cancels + 1
  /\ UNCHANGED <<client, s2c, server, blob_sent>>

\* onclose, after a local close or a drop: reset_running_state disables the
\* cancel button and asks the server for the deployment state.
OnClose ==
  /\ ws' = "closed"
  /\ cancel_enabled' = FALSE
  /\ state_refreshed' = TRUE

CloseEvent ==
  /\ ws = "closing"
  /\ OnClose
  /\ UNCHANGED <<generated_commands, n_commands, current_command, messages_received, outcome,
                 c2s, s2c, server, cancels, blob_sent>>

\* The connection fails or the server closes it.
RemoteClose ==
  /\ ws \in {"connecting", "open"}
  /\ OnClose
  /\ UNCHANGED <<generated_commands, n_commands, current_command, messages_received, outcome,
                 c2s, s2c, server, cancels, blob_sent>>

-----------------------------------------------------------------------------
(* Executor (spec_modelled): acknowledges each instruction, may log, then  *)
(* sends its outcome; it reads a Cancel even while executing, answers it   *)
(* with the cancel acknowledgement and stops.                              *)

ServerReceiveInstr ==
  /\ srv_phase = "idle"
  /\ c2s # <<>>
  /\ Head(c2s).kind = "Instr"
  /\ c2s' = Tail(c2s)
  /\ srv_phase' = "executing"
  /\ srv_cur' = Head(c2s).idx
  /\ srv_logs' = 0
  /\ s2c' = Append(s2c, Frame("Ack", Head(c2s).idx))
  /\ UNCHANGED <<client, srv_ran, cancels, blob_sent>>

ServerLog ==
  /\ srv_phase = "executing"
  /\ srv_logs < MaxLogs
  /\ srv_logs' = srv_logs + 1
  /\ s2c' = Append(s2c, Frame("Log", srv_cur))
  /\ UNCHANGED <<client, c2s, srv_phase, srv_cur, srv_ran, cancels, blob_sent>>

ServerResult ==
  /\ srv_phase = "executing"
  /\ s2c' = Append(s2c, Frame("Result", srv_cur))
  /\ srv_phase' = "idle"
  /\ srv_cur' = None
  /\ srv_ran' = srv_ran + 1
  /\ UNCHANGED <<client, c2s, srv_logs, cancels, blob_sent>>

ServerCancel ==
  /\ srv_phase \in {"idle", "executing"}
  /\ c2s # <<>>
  /\ Head(c2s).kind = "Cancel"
  /\ c2s' = Tail(c2s)
  /\ s2c' = Append(s2c, Frame("CancelAck", None))
  /\ srv_phase' = "stopped"
  /\ srv_cur' = None
  /\ UNCHANGED <<client, srv_ran, srv_logs, cancels, blob_sent>>

\* A server that breaks the contract with one binary frame.
ServerSendBlob ==
  /\ ~blob_sent
  /\ srv_phase # "stopped"
  /\ blob_sent' = TRUE
  /\ s2c' = Append(s2c, Frame("Blob", None))
  /\ UNCHANGED <<client, c2s, server, cancels>>

\* The session is over; the page sits idle.
SessionOver ==
  /\ ws = "closed"
  /\ UNCHANGED vars

-----------------------------------------------------------------------------
Next ==
  \/ OnOpen
  \/ ReceiveBlob
  \/ ReceiveCancelAck
  \/ ReceiveLog
  \/ ReceiveReply
  \/ CancelClick
  \/ CloseEvent
  \/ RemoteClose
  \/ ServerReceiveInstr
  \/ ServerLog
  \/ ServerResult
  \/ ServerCancel
  \/ ServerSendBlob
  \/ SessionOver

\* The browser delivers every event to its handler and the executor answers
\* what it reads.  The operator, the network and a faulty server are not
\* obliged to do anything.
Fairness ==
  /\ WF_vars(OnOpen)
  /\ WF_vars(ReceiveBlob)
  /\ WF_vars(ReceiveCancelAck)
  /\ WF_vars(ReceiveLog)
  /\ WF_vars(ReceiveReply)
  /\ WF_vars(CloseEvent)
  /\ WF_vars(ServerReceiveInstr)
  /\ WF_vars(ServerResult)
  /\ WF_vars(ServerCancel)

Spec == Init /\ [][Next]_vars /\ Fairness

-----------------------------------------------------------------------------
TypeOK ==
  /\ ws \in {"connecting", "open", "closing", "closed"}
  /\ n_commands \in InstrCounts
  /\ generated_commands \in [0 .. n_commands - 1 -> Instructions]
  /\ current_command \in 0 .. n_commands
  /\ messages_received \in 0 .. 2
  /\ outcome \in {"none", "Done", "Cancelled", "ProtocolError"}
  /\ cancel_enabled \in BOOLEAN
  /\ state_refreshed \in BOOLEAN
  /\ srv_phase \in {"idle", "executing", "stopped"}
  /\ srv_ran \in Nat
  /\ srv_logs \in 0 .. MaxLogs
  /\ cancels \in 0 .. MaxCancels
  /\ blob_sent \in BOOLEAN

(* handle_message labels a reply with generated_commands[current_command-1]. *)
(* Every acknowledgement or outcome still to be delivered on the open      *)
(* socket is about exactly that instruction: the client never sends the    *)
(* next instruction while a reply to the previous one is in flight, so Log *)
(* frames, cancel clicks and the two-reply count never let the label and   *)
(* the reply drift apart.                                                  *)
ReplyMatchesCurrent ==
  ws = "open" =>
    \A k \in 1 .. Len(s2c) :
      s2c[k].kind \in ReplyKinds => s2c[k].idx = current_command - 1

(* The list is not empty and the request line of every instruction can be *)
(* built, so send_message never throws.                                    *)
SendableList ==
  n_commands > 0 /\ \A i \in 0 .. n_commands - 1 : Sendable(i)

(* Every session ends when its list is sendable: the handlers and the       *)
(* executor's replies alone close the execution socket, whatever Log       *)
(* frames and cancel clicks arrive in between.                             *)
Termination == SendableList => <>(ws = "closed")

(* Every session ends, whatever list generation handed over (specification *)
(* 4.3: the session ends Done, Cancelled or Closed).                       *)
SessionEnds == <>(ws = "closed")

(* The refinement: the executor runs the instructions in generation order,  *)
(* one at a time, and the verdict the client writes agrees with what the   *)
(* executor did.                                                           *)
Abs == INSTANCE ExecutionSpec WITH
         n <- n_commands,
         ran <- srv_ran,
         running <- IF srv_phase = "executing" THEN srv_cur ELSE None,
         stopped <- srv_phase = "stopped",
         verdict <- outcome

ImplementsExecutionSpec == Abs!Spec

=============================================================================
