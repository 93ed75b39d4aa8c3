--------------------------- MODULE CommandPipeline ---------------------------
(***************************************************************************)
(* Several commands issued from one page of run_command.js.  Each button   *)
(* press runs request_command: a generation session, then, on a clean      *)
(* close, run_orchestration: an execution session.  GenerationDriver and    *)
(* ExecutionDriver model the protocol of one session; here a session is    *)
(* only its lifecycle, and the model is about the page state the sessions  *)
(* share:                                                                  *)
(*   - the connection-state badge (the only "already running" guard),     *)
(*   - the cancel button, which gets one more click handler bound to its   *)
(*     session's socket on every run_orchestration and never loses one,    *)
(*   - #displayState, written RUNNING when generation opens and later      *)
(*     overwritten by the asynchronous answer of get_last_command_state.   *)
(***************************************************************************)
EXTENDS Naturals, Sequences, FiniteSets

CONSTANTS
  MaxSessions,        \* bound on the button presses
  MaxCancels,         \* bound on the cancel clicks
  SequentialOperator, \* the operator presses a button only when no session is live
  RefreshErrors       \* a state request may fail

ASSUME /\ MaxSessions \in Nat \ {0} /\ MaxCancels \in Nat
       /\ SequentialOperator \in BOOLEAN /\ RefreshErrors \in BOOLEAN

Sess == 1 .. MaxSessions

Phases == {"idle", "gen_connecting", "gen_open", "exec_connecting", "exec_open", "ended"}

\* The phases in which a session is live for the specification (Generating
\* or Executing).
Live == {"gen_connecting", "gen_open", "exec_connecting", "exec_open"}

\* The phases in which the ExecutionDriver of a session is active.
Executing == {"exec_connecting", "exec_open"}

\* The deployment states get_last_command_state distinguishes.
DeployStates == {"up", "down", "running", "failed"}

VARIABLES
  phase,           \* phase of each session
  empty_list,      \* the session's generated list is empty
  clicks,          \* button presses so far; the next session is clicks + 1
  indicator,       \* the badge has class text-bg-primary ("Command Runner Active")
  modal_shown,     \* the "already running" modal has been shown
  cancel_enabled,  \* the cancel button is enabled
  handlers,        \* the sessions whose cancel handler is bound, in binding order
  cancel_req,      \* a Cancel frame was sent on the session's execution socket
  cancels,         \* cancel clicks so far
  refresh,         \* the session's state request: "none", "sent", a served state, "done"
  display,         \* the text of #displayState
  dep_state,       \* the deployment state on the server
  lost_click       \* history: a click reached no executing session

vars == <<phase, empty_list, clicks, indicator, modal_shown, cancel_enabled,
          handlers, cancel_req, cancels, refresh, display, dep_state, lost_click>>

\* get_last_command_state: the text written for a deployment state.
Shown(st) ==
  CASE st = "up"      -> "UP"
    [] st = "down"    -> "DOWN"
    [] st = "running" -> "RUNNING"
    [] st = "failed"  -> "CMD FAILED"

-----------------------------------------------------------------------------
Init ==
  /\ phase = [s \in Sess |-> "idle"]
  /\ empty_list = [s \in Sess |-> FALSE]
  /\ clicks = 0
  /\ indicator = FALSE
  /\ modal_shown = FALSE
  /\ cancel_enabled = FALSE
  /\ handlers = <<>>
  /\ cancel_req = [s \in Sess |-> FALSE]
  /\ cancels = 0
  /\ refresh = [s \in Sess |-> "none"]
  /\ dep_state \in {"up", "down"}
  /\ display = Shown(dep_state)
  /\ lost_click = FALSE

\* reset_running_state: badge inactive, cancel disabled, state requested.
Reset(s) ==
  /\ indicator' = FALSE
  /\ cancel_enabled' = FALSE
  /\ refresh' = [refresh EXCEPT ![s] = "sent"]

\* An orchestration button: request_command.  The already-running check only
\* shows the modal; the request goes ahead either way.
Click ==
  /\ clicks < MaxSessions
  /\ SequentialOperator => \A t \in Sess : phase[t] \notin Live
  /\ LET s == clicks + 1 IN
       /\ phase' = [phase EXCEPT ![s] = "gen_connecting"]
       /\ clicks' = s
  /\ modal_shown' = (modal_shown \/ indicator)
  /\ cancel_enabled' = TRUE
  /\ UNCHANGED <<empty_list, indicator, handlers, cancel_req, cancels, refresh,
                 display, dep_state, lost_click>>

\* Generation onopen: badge active, #displayState RUNNING.
GenOpen(s) ==
  /\ phase[s] = "gen_connecting"
  /\ phase' = [phase EXCEPT ![s] = "gen_open"]
  /\ indicator' = TRUE
  /\ display' = "RUNNING"
  /\ UNCHANGED <<empty_list, clicks, modal_shown, cancel_enabled, handlers,
                 cancel_req, cancels, refresh, dep_state, lost_click>>

\* Mutant: the cancel handler is bound once, to the first session's socket.
GenHandOver_bindOnce(s) ==
  /\ phase[s] \in {"gen_connecting", "gen_open"}
  /\ phase' = [phase EXCEPT ![s] = "exec_connecting"]
  /\ \E e \in BOOLEAN :
       /\ phase[s] = "gen_connecting" => e
       /\ empty_list' = [empty_list EXCEPT ![s] = e]
  /\ handlers' = IF handlers = <<>> THEN <<s>> ELSE handlers
  /\ UNCHANGED <<clicks, indicator, modal_shown, cancel_enabled, cancel_req,
                 cancels, refresh, display, dep_state, lost_click>>

\* The generation close listener without a flagged failure: run_orchestration
\* binds one more cancel handler.  A socket that closes before it opened
\* hands over an empty list.
GenHandOver(s) ==
  /\ phase[s] \in {"gen_connecting", "gen_open"}
  /\ phase' = [phase EXCEPT ![s] = "exec_connecting"]
  /\ \E e \in BOOLEAN :
       /\ phase[s] = "gen_connecting" => e
       /\ empty_list' = [empty_list EXCEPT ![s] = e]
  /\ handlers' = Append(handlers, s)
  /\ UNCHANGED <<clicks, indicator, modal_shown, cancel_enabled, cancel_req,
                 cancels, refresh, display, dep_state, lost_click>>

\* Mutant: the failure branch only logs, without reset_running_state.
GenAbort_noReset(s) ==
  /\ phase[s] = "gen_open"
  /\ phase' = [phase EXCEPT ![s] = "ended"]
  /\ UNCHANGED <<empty_list, clicks, indicator, modal_shown, cancel_enabled, handlers,
                 cancel_req, cancels, refresh, display, dep_state, lost_click>>

\* The generation close listener after a flagged failure.
GenAbort(s) ==
  /\ phase[s] = "gen_open"
  /\ phase' = [phase EXCEPT ![s] = "ended"]
  /\ Reset(s)
  /\ UNCHANGED <<empty_list, clicks, modal_shown, handlers, cancel_req, cancels,
                 display, dep_state, lost_click>>

\* The execution socket opens and the executor starts on the list.
ExecOpen(s) ==
  /\ phase[s] = "exec_connecting"
  /\ phase' = [phase EXCEPT ![s] = "exec_open"]
  /\ dep_state' = IF empty_list[s] THEN dep_state ELSE "running"
  /\ UNCHANGED <<empty_list, clicks, indicator, modal_shown, cancel_enabled,
                 handlers, cancel_req, cancels, refresh, display, lost_click>>

\* The session ends after its last outcome or the cancel acknowledgement
\* (an empty list ends only by a cancel, see ExecutionDriver), and onclose
\* runs reset_running_state.
ExecEnd(s) ==
  /\ phase[s] = "exec_open"
  /\ ~empty_list[s] \/ cancel_req[s]
  /\ phase' = [phase EXCEPT ![s] = "ended"]
  /\ \E st \in {"up", "down", "failed"} : dep_state' = st
  /\ Reset(s)
  /\ UNCHANGED <<empty_list, clicks, modal_shown, handlers, cancel_req, cancels,
                 display, lost_click>>

\* The execution socket drops; the executor's run is left as it is.
ExecDrop(s) ==
  /\ phase[s] \in {"exec_connecting", "exec_open"}
  /\ phase' = [phase EXCEPT ![s] = "ended"]
  /\ Reset(s)
  /\ UNCHANGED <<empty_list, clicks, modal_shown, handlers, cancel_req, cancels,
                 display, dep_state, lost_click>>

\* jQuery runs the bound handlers in binding order.  A handler whose socket
\* is open sends Cancel; on a closed socket send is a no-op; on a socket
\* still connecting send throws, and the handlers after it do not run.
Reached(hs) ==
  LET stops == {i \in 1 .. Len(hs) : phase[hs[i]] = "exec_connecting"}
      last  == IF stops = {} THEN Len(hs) ELSE CHOOSE i \in stops : \A j \in stops : i <= j
  IN {hs[i] : i \in {j \in 1 .. last : phase[hs[j]] = "exec_open"}}

CancelClick ==
  /\ cancel_enabled
  /\ cancels < MaxCancels
  /\ LET R == Reached(handlers) IN
       /\ cancel_req' = [t \in Sess |-> cancel_req[t] \/ t \in R]
       /\ lost_click' = (lost_click \/ \E t \in Sess : phase[t] \in Executing /\ t \notin R)
  /\ cancels' = cancels + 1
  /\ UNCHANGED <<phase, empty_list, clicks, indicator, modal_shown, cancel_enabled,
                 handlers, refresh, display, dep_state>>

\* The server answers a state request with the deployment state of the
\* moment; the answers travel independently and may arrive in any order.
ServeRefresh(s) ==
  /\ refresh[s] = "sent"
  /\ refresh' = [refresh EXCEPT ![s] = dep_state]
  /\ UNCHANGED <<phase, empty_list, clicks, indicator, modal_shown, cancel_enabled,
                 handlers, cancel_req, cancels, display, dep_state, lost_click>>

\* Mutant: the state is written as the server sent it.
DeliverRefresh_raw(s) ==
  /\ refresh[s] \in DeployStates
  /\ display' = refresh[s]
  /\ refresh' = [refresh EXCEPT ![s] = "done"]
  /\ UNCHANGED <<phase, empty_list, clicks, indicator, modal_shown, cancel_enabled,
                 handlers, cancel_req, cancels, dep_state, lost_click>>

\* The success callback of get_last_command_state writes #displayState.
DeliverRefresh(s) ==
  /\ refresh[s] \in DeployStates
  /\ display' = Shown(refresh[s])
  /\ refresh' = [refresh EXCEPT ![s] = "done"]
  /\ UNCHANGED <<phase, empty_list, clicks, indicator, modal_shown, cancel_enabled,
                 handlers, cancel_req, cancels, dep_state, lost_click>>

\* The error callback only logs: #displayState keeps what it shows.
RefreshFails(s) ==
  /\ RefreshErrors
  /\ refresh[s] = "sent"
  /\ refresh' = [refresh EXCEPT ![s] = "done"]
  /\ UNCHANGED <<phase, empty_list, clicks, indicator, modal_shown, cancel_enabled,
                 handlers, cancel_req, cancels, display, dep_state, lost_click>>

\* Every session has ended and every answer has been written.
Quiet ==
  /\ \A s \in Sess : phase[s] \notin Live /\ refresh[s] \in {"none", "done"}
  /\ UNCHANGED vars

Next ==
  \/ Click
  \/ \E s \in Sess :
       \/ GenOpen(s) \/ GenHandOver(s) \/ GenAbort(s)
       \/ ExecOpen(s) \/ ExecEnd(s) \/ ExecDrop(s)
       \/ ServeRefresh(s) \/ DeliverRefresh(s) \/ RefreshFails(s)
  \/ CancelClick
  \/ Quiet

\* The browser runs every event handler, the executor ends a non-empty run
\* (ExecutionDriver's Termination), and HTTP requests are answered.  The
\* operator and the network owe nothing.
Fairness ==
  \A s \in Sess :
    /\ WF_vars(GenOpen(s))
    /\ WF_vars(GenHandOver(s) \/ GenAbort(s))
    /\ WF_vars(ExecOpen(s))
    /\ WF_vars(ExecEnd(s))
    /\ WF_vars(ServeRefresh(s) \/ RefreshFails(s))
    /\ WF_vars(DeliverRefresh(s))

Spec == Init /\ [][Next]_vars /\ Fairness

-----------------------------------------------------------------------------
TypeOK ==
  /\ phase \in [Sess -> Phases]
  /\ empty_list \in [Sess -> BOOLEAN]
  /\ clicks \in 0 .. MaxSessions
  /\ indicator \in BOOLEAN
  /\ cancel_enabled \in BOOLEAN
  /\ handlers \in Seq(Sess)
  /\ cancel_req \in [Sess -> BOOLEAN]
  /\ refresh \in [Sess -> {"none", "sent", "done"} \cup DeployStates]
  /\ display \in {"UP", "DOWN", "RUNNING", "CMD FAILED"}
  /\ dep_state \in DeployStates

\* At most one session is live at a time (spec section 3 SessionState; the
\* comment "if a command is already running, stop" in request_command).  The
\* check in request_command shows a modal and carries on, and it reads the
\* badge, which only the generation onopen sets.
OneSessionAtATime == Cardinality({s \in Sess : phase[s] \in Live}) <= 1

\* The badge reads "Command Runner Active" only while some session has not
\* yet run reset_running_state (the failure branch of the close listener and
\* execution onclose both run it), and it does while a generation socket is
\* open.  (A generation socket that closes before it opened hands over
\* without ever setting the badge, so an execution may run under an
\* inactive badge.)
IndicatorMatchesSession ==
  /\ indicator => \E s \in Sess : phase[s] \in {"gen_open", "exec_connecting", "exec_open"}
  /\ (\E s \in Sess : phase[s] = "gen_open") => indicator

\* A cancel click sends Cancel on the socket of every session that is
\* executing on an open socket, although the button carries the handlers of
\* every earlier session, bound to sockets that are now closed.
CancelReachesExecuting ==
  [][CancelClick => \A s \in Sess : phase[s] = "exec_open" => cancel_req'[s]]_vars

\* A cancel click while a session's ExecutionDriver is active sends its
\* Cancel frame (spec 4.3: "at any time while active").  The button is
\* enabled from request_command on, but send on a socket still connecting
\* throws, and the handlers bound after it do not run.
CancelNeverLost == ~lost_click

\* Once the sessions are over, #displayState comes to show the deployment
\* state and keeps showing it (spec 4.3: the refresh after a close is there
\* "so the display reflects ground truth").  The answers of the
\* get_last_command_state calls of successive sessions are written in
\* whatever order they arrive.
DisplaySettles == <>[](display = Shown(dep_state))

=============================================================================
