# TLA+ models of the testbed-os command runner

These modules model the browser-side orchestration client of the testbedos-server GUI
(`src/kvm-compose/testbedos-server/assets/scripts/`). The part that is hard to get right
is `run_command.js`. An operator's button press becomes a high-level command. A first
WebSocket (the *generation channel*, `/api/orchestration/gui`) expands it into an ordered
list of low-level instructions. A second WebSocket (the *execution channel*,
`/api/orchestration/ws`) then runs that list one instruction at a time. It uses a strict
rule: an instruction is sent only after two non-Log replies to the one before it. The
operator can cancel, and the server, the network or the operator can end a session at any
point.

The other scripts drive the deployment pages and the host configuration page:
`action_buttons.js` (a deployment's YAML, delete button and topology drawing),
`create_deployment.js` (the creation form) and `configuration_setup.js` (host.json and the
QEMU and monitoring panels). They are modelled as well. Their hazards are requests that
the server answers in any order, text read from the page twice, and read-modify-write
against files that someone else may also write.

## 1. Inventory

### Components

| Component | Source | State it keeps | Operations (handlers) |
|---|---|---|---|
| **ExecutionDriver** | `run_command.js` `run_orchestration`, `reset_running_state` (377-521) | socket readyState, `messages_received`, `current_command`, `n_commands`, cancel button, terminal verdict | open listener; `handle_message` (binary frame, cancel ack, Log, reply counting); `send_message`; cancel click; `onclose` → `reset_running_state` → `get_last_command_state` |
| **GenerationDriver** | `run_command.js` `request_command` (259-375) | generation socket, `generated_commands`, `command_generation_failure` | "already running" check; `onopen` (send request, indicator active, RUNNING); `onmessage` (init message, status message, instruction); close listener (hand-over to execution, or failure and reset) |
| **Session control** (the composition) | `run_command.js` 243-250, 259-268, 301-304, 484-493, 511-521, 571-581, 601-624 | connection indicator (`text-bg-primary` class), cancel button and its accumulated handlers, `#displayState` | orchestration-button click; refresh of the deployment state |
| **ResponseClassifier** | `run_command.js` `formatServerResponseMessages`, `log_text_with_colour`, `getInstructionName`, `formatServerSendMessages`, `extractContext…` (583-599, 821-1067) | none (pure) | classify Generic / Single / List / Log / raw text and render lines; build the "making request" label |
| **CommandBuilder** | `run_command.js` `get_button_command_json`, `toolingGetGuestName`, `convertCommandToListOfStrings` (243-250, 623-819) | none of its own; reads the form | build the `{project_name, sub_command}` request; whitespace normalisation and tokenisation of tool commands |
| **Form construction** | `run_command.js` 1-241 | `selectedOption`, `selectedToolOption`, `selectedSnapshotOption`, the inputs in `#execDynamicButtons` and `#dynamicButtons`, the guest dropdowns | exec and snapshot menu clicks, tool dropdown change, guest list answer |
| **Deployment page** | `action_buttons.js` 1-63 | YAML text box | validate → push → reload YAML; delete the deployment; load state |
| **Topology parser** | `action_buttons.js` `parseStateData` (65-161) | none (pure) | state JSON → nodes and edges, matching ports to switches by name |
| **Topology view** | `action_buttons.js` `drawTopology` (163-233) | vis.js network | draw, fit, node info box |
| **Deployment creation** | `create_deployment.js` | validation badges | validate YAML, validate name, create |
| **Host configuration** | `configuration_setup.js` | current-value fields, alerts | read host JSON synchronously, edit, post; show qemu and monitoring state |
| **Remote generator / executor** | not in these sources (Rust server) | its own run state | modelled from the wire contract in the specification |

### How the components interact

* Orchestration button → `get_button_command_json` → `request_command`. This is a plain
  call.
* `request_command` opens the generation socket. Its close listener calls
  `run_orchestration(generated_commands)` only if no frame was flagged as an error. This
  is a callback on the close event.
* `run_orchestration` opens the execution socket. Every inbound frame goes through
  `handle_message`, which calls `formatServerResponseMessages` (the ResponseClassifier) to
  display it. Every outbound instruction goes through `formatServerSendMessages`.
* The two drivers and all sessions share DOM state: the connection indicator (the
  only "already running" guard), the cancel button (a new click handler is *added* on
  every `run_orchestration` and never removed) and `#displayState`. The latter is written
  to `RUNNING` by generation `onopen` and overwritten by the asynchronous answer of
  `get_last_command_state`.

### What is hard

* **Event ordering on one thread.** All handlers run one at a time. They still interleave
  with the network: Log frames at any point, the cancel click racing the outcome of
  the running instruction, a close at any point. The two-reply rule decides when the
  next instruction is sent, and a Log counted by mistake or a third reply would send
  early or stall for good.
* **Failure mid-stream.** A dropped generation channel fires the same close event as a
  clean end. A dropped execution channel leaves the server's run unknown; the client
  refreshes the state instead.
* **No real session guard.** The "already running" check shows a modal but does not
  return, and it looks at a class that is set only when the generation socket opens.
* **Boundaries.** An empty instruction list, an off-by-one end test, a single-entry list
  rendering, an empty tool command for the tokeniser.

### Properties that make each component correct

* ExecutionDriver: each reply is labelled with the instruction it answers; instructions
  run at the server in order, one at a time, each at most once; `Done` only after
  every instruction ran and `Cancelled` only after the server stopped (refinement of
  `ExecutionSpec`); every session ends.
* GenerationDriver: execution starts only after a complete, error-free generation: the
  init message was received and every frame was flagged successful. The list handed
  over is exactly what the server generated.
* Session control: at most one session is active; the indicator is active exactly while
  one is; a cancel click reaches only the current session.
* ResponseClassifier: every List entry is shown once, on the line of its success flag,
  and a line with a single entry is not bracketed.
* CommandBuilder: tokenisation keeps a double-quoted substring as one argument and
  loses no word.
* Topology parser: every edge joins a router or switch to the node its port names.
* Deployment page: a pushed YAML was validated, and once things settle the box shows what
  the server holds.
* Host configuration: a POST keeps the host.json fields it does not edit, and the current
  fields show what the server holds.

## 2. Plan

Modules, in the order they are built (most important behaviour first):

1. `ExecutionSpec`: the abstract promise of the execution phase. **done**
2. `ExecutionDriver` + `MCExecutionDriver`: `run_orchestration` against a
   nondeterministic executor that follows the wire contract, over FIFO channels.
   It has a network drop, a faulty binary frame and operator cancels. It refines
   `ExecutionSpec`. **done**
3. `GenerationDriver` + MC: `request_command`'s generation channel against a
   nondeterministic generator (init ok or error, status frames, instructions, malformed
   frames, early close, drop). It checks that execution starts only after a complete,
   error-free generation. **done**
4. `CommandPipeline` + MC: composes several sessions, each a `GenerationDriver`
   followed by an `ExecutionDriver`, with the shared indicator, cancel button handlers
   and `#displayState`. It checks one-session-at-a-time and that the indicator and
   the displayed state are consistent. **done** (each session's protocol is abstracted
   to its lifecycle; the protocol itself is what steps 2 and 3 check)
5. `ResponseClassifier`: `formatServerResponseMessages` as operators over List payloads
   of up to three entries, checked against the rendering rule of the specification.
   **done**, together with `InstructionLabel` (the "making request" line), which
   `ExecutionDriver` uses to decide whether `send_message` reaches its send.
6. `CommandBuilder` + MC: the form the menu and dropdown handlers keep, every
   orchestration button's `get_button_command_json`, and `convertCommandToListOfStrings`
   with the whitespace normalisation as RECURSIVE operators over short strings, checked
   against a reference tokeniser written from the specification. **done**
7. `TopologyParser`: `parseStateData` as an operator over small states, with strings
   as character tuples, checked against the naming convention stated in its comments.
   **done**
8. `DeploymentPage`: the validate → push → reload chain with an operator who edits,
   the delete button, and the topology fetch. **done**
9. `CreationPage` + `DeploymentLifecycle` + MC: the creation form, composed with the
   deployment page over the server's one copy, so that a deployment can be created,
   opened, deleted and created again. **done**
10. `HostConfigPage` + MC: the host form's read-modify-write, the refill and the two
    panels, with outside writes to host.json. **done**

Steps 7-10 use two run slots. The project allows twelve runs, so two violation runs were
given up to make room: `generation_malformed` and `pipeline_cancel_lost`. Their configs
are still on disk (see below), and their disagreements are recorded as hazard notes.

## 3. Runs

| Run | Module / cfg | Expect | What it shows |
|---|---|---|---|
| `execution` | `MCExecutionDriver` / `MCExecutionDriver.cfg` | pass | 1-3 instructions over three shapes, one of which cannot be labelled, with at most one Log per instruction, up to two cancel clicks, a network drop and one faulty binary frame. Replies stay matched to the instruction they label. The executor's behaviour refines `ExecutionSpec` even when `send_message` throws. Every session whose list is sendable closes. |
| `execution_hang` | `MCExecutionDriver` / `MCExecutionDriverHang.cfg` | violation | When `send_message` throws in the open listener, because the list is empty or the first instruction's request line cannot be built, nothing is sent. The session then never ends unless the operator cancels or the network drops. |
| `generation` | `MCGenerationDriver` / `MCGenerationDriver.cfg` | pass | Plans of up to two instructions, up to two status frames, malformed frames and a network drop. A frame flagged as failed always blocks the hand-over. A hand-over that no drop preceded carries exactly the plan. Every generation ends in a hand-over or an abort. |
| `generation_drop` | `MCGenerationDriver` / `MCGenerationDriverDrop.cfg` | violation | A drop of the generation channel fires the same close event as a clean end, so a truncated list is handed to execution. |
| `pipeline` | `MCCommandPipeline` / `MCCommandPipeline.cfg` | pass | Two sessions one after the other. The badge is active only while some session has not been reset, and always while a generation socket is open. A cancel click reaches the executing session although the button carries the earlier session's handler too. |
| `pipeline_concurrent` | `MCCommandPipeline` / `MCCommandPipelineConcurrent.cfg` | violation | Two presses without a wait give two live sessions: the already-running check does not return, and it reads a badge that is set only by generation `onopen`. |
| `pipeline_display` | `MCCommandPipeline` / `MCCommandPipelineDisplay.cfg` | violation | A state answer served while the second session ran arrives after that session's own answer, and `#displayState` stays RUNNING. |
| `classifier` | `MCResponseClassifier` / `MCResponseClassifier.cfg` | pass | For every payload shape, and every List of up to three entries over two messages, the INFO lines carry exactly the successful entries and the ERROR lines exactly the failed ones, in list order. |
| `classifier_list_brackets` | `MCResponseClassifier` / `MCResponseClassifierList.cfg` | violation | A List whose only entry failed prints `Fail: [ m1 ]`: the Fail line's brackets are chosen by the number of successful entries. |
| `command_form` | `MCCommandBuilder` / `MCCommandBuilder.cfg` | pass | Over any sequence of menu clicks, tool choices, guest-list answers and guest picks, and every button, the arguments of a tool command are the specification's tokens whenever the quotes pair up around whole words. This holds for every string of up to three characters and for five longer commands with two quoted runs. A press fails only when the command has no word. |
| `deployment_lifecycle` | `MCDeploymentLifecycle` / `MCDeploymentLifecycle.cfg` | pass | The creation page and the deployment page share the server's copy, another client may delete the deployment, and every request is answered in any order. The box never shows a failed GET's body. A push whose validation no change of the box overtook carries text the validator accepted. A drawn topology whose switch labels cannot be confused has exactly the edges the port naming convention gives. (2,798,822 states, about 3 min.) |
| `host_config` | `MCHostConfigPage` / `MCHostConfigPage.cfg` | pass | Requests fail, host.json is written from outside, and answers come in any order. The page never writes an empty user or interface. Suppose the current fields show the answer of the newest fill sent, and every POST the server applied has had its success answer. Then they show the user and interface the server holds. An older fill's answer arriving between a POST's write and its answer leaves them behind until the next fill. (4,184,064 states, about 2 min.) |

Configs kept beside the runs, each for a property TLC finds violated. They are not listed
as runs because the run slots are used up:

* `MCGenerationDriverMalformed.cfg` (`InitBeforeHandover`). A malformed init frame
  throws out of `onmessage` before it is flagged, so execution starts without an init
  message. Specification 4.2 says this is a failure.
* `MCCommandPipelineCancel.cfg` (`CancelNeverLost`). A cancel click between the
  hand-over and the execution socket's open event throws in the handler and sends
  nothing.
* `MCDeploymentLifecyclePushedYamlValidated.cfg` (`PushedYamlValidated`). The success
  handler reads the box a second time. Text typed while the validation is pending is
  pushed without being validated. So is a YAML written elsewhere, when the box is
  reloaded with it before the validation is answered.
* `MCDeploymentLifecycleSettledBoxIsStored.cfg` (`SettledBoxIsStored`, with both
  YAMLs valid). Two pushes are served in reverse order, so the server keeps the older
  text. The reload's `.load` does not change a textarea the operator has typed in, so
  the box keeps the newer text. About 7 minutes.
* `MCDeploymentLifecycleTopologyAsNamedAlways.cfg` (`TopologyAsNamedAlways`). A router
  port ending in `-ss` is linked to whichever switch comes first among labels that
  include `ss`. A port ending in a dash is linked to the first switch of all.
* `MCHostConfigPageOtherFieldsKept.cfg` (`OtherFieldsKept`). A write to host.json
  between the submit's GET and the POST is undone by the POST: a lost update.
* `MCCreationPageYamlBadgeShowsLastSent.cfg` (`YamlBadgeShowsLastSent`, the creation
  page alone with three presses). A valid text is validated, then the box is emptied
  and validated again. The rejection is answered first and the earlier acceptance
  second, so the badge says "Valid Yaml" for an empty box. The composed run allows the
  creation page one press, because two do not finish within the time limit.
* `MCHostConfigPageCurrentShowsHost.cfg` (`CurrentShowsHost`, with a server that never
  fails). The page-load fill is served before the first POST but answered after the
  POST's own fill, so the current fields show the old user.

`MCResponseClassifierUnknown.cfg` checks `UnparsedShownRaw`. The spec says a payload of no
known shape is shown as raw text. JSON of another shape goes only to `console.error`.
The config is kept for that question but is not among the project's runs.

Two more configs of `MCCommandBuilder` are kept beside the runs, each for a property TLC
finds violated:

* `MCCommandBuilderToolRequestMatchesTool.cfg` (`ToolRequestMatchesTool`). Pick "tool",
  then a_d_b, then pick "tool" again. The new dropdown shows "Select Tool Option", but
  `selectedToolOption` is still a_d_b. The exec button then sends
  `{"tool": {"tool": "a_d_b"}}` with no command.
* `MCCommandBuilderExecGuestFromExecPanel.cfg` (`ExecGuestFromExecPanel`). The snapshot
  panel's guest row uses the same id, `guestName`. Once it has loaded, an exec command
  carries the guest chosen there, whatever the exec panel shows or whether it has loaded.
  This holds whenever the snapshot panel comes first in the page; the order is fixed by a
  template that is not among these sources, and is the constant `GuestSelectOrder`.

### Bounds

`InstrCounts = 1..3` gives a first, a middle and a last instruction, so both branches of
the end-of-list test are taken with a successor still pending. `MaxLogs = 1` puts a Log
frame between the acknowledgement and the outcome, and also after the outcome of one
instruction and before the acknowledgement of the next. `MaxCancels = 2` lets a
second click arrive after the executor has already stopped. The channels need no
bound: the executor sends at most one acknowledgement, `MaxLogs` Logs and one outcome
per instruction, and the client sends at most one instruction per two replies.

GenerationDriver: `MaxPlan = 2` over two distinct instruction model values, so a lost or
reordered instruction changes the list. `MaxStatus = 2` puts a status frame before and
after an instruction. Drops and malformed frames are switched by constants. The
pass run allows both. The list property is stated for hand-overs that no drop
preceded (the history variable `dropped`), and the drop run checks it without that
condition.

ExecutionDriver's instruction shapes (`MCExecutionDriver`): a Deploy of a list of
guests, a bare name such as Init, and a Destroy of an Ovn static route whose prefix is
not a Subnet. These are the three paths through `formatServerSendMessages`: a
context, no context, and a throw. `MCShortCounts = 0..2` adds the empty list for the
hang run.

ResponseClassifier: two messages and up to three entries give every split of a List
into successful and failed parts with one or several entries on each side.

CommandPipeline: `MaxSessions = 2` is the least that has an earlier session's
cancel handler and state answer still around while a later session runs. `MaxCancels = 2`
clicks once in each session. `SequentialOperator` says whether the operator waits for
a session to end before pressing again. The code does not enforce that, so the
`pipeline_concurrent` run drops it. `RefreshErrors` lets a state request fail, whose
error callback leaves `#displayState` untouched. The display run turns it off, so
its counterexample shows the reordering and not a lost request.

CommandBuilder (`MCCommandBuilder`): Command texts of up to three characters over a
letter, a blank and a quote, 40 in all. They contain a blank inside, at either end and
doubled; closed, open and adjacent quotes; and the blank-only and lone-quote strings on
which the tokeniser throws. Three characters never hold two quoted runs, so five longer
commands are added by hand: two quoted runs, blanks inside a run and doubled, a second
letter that shows the order of the arguments, and two runs glued into one match. With
them a tokeniser that closes a run at its last quote, not its first, is caught. Two tools are enough: a_d_b sends its command, and frida_setup
sends no arguments. Two guests let a guest from the wrong panel differ from the right
one. The snapshot panel comes first in the page, which is the order under which the
duplicate `guestName` ids matter.

`MCDeploymentLifecycle` has one valid YAML text and the empty box (`y2` only in the
`SettledBoxIsStored` config, where it is a second valid text). It allows two presses of
Update or Delete, which is enough for two pushes in flight, or for a push followed by a
delete. The creation page gets one press, and each behaviour chooses which of its three
buttons it is. Ten state.json documents are chosen by hand (`MCStatesAll`): one or two switches whose
labels contain one another ("s" and "ss", in either key order); no router port, or a
router port ending in "s", "ss" or a dash; a guest whose key is a switch's key; and a
network without ovn. Together they reach every branch of `parseStateData`, both throws
included. The listed run takes the six whose switch labels cannot be confused
(`MCStates`): on the other four `TopologyAsNamed` says nothing, and they are kept for
`TopologyAsNamedAlways`. `MCHostConfigPage` has two users and interfaces plus the empty field, two
values for the other fields, two POSTs and one outside write. That is enough for two
fills answered out of order, for a fill answered between a POST's write and its answer,
and for a write falling between a GET and its POST.

### Fairness

The browser delivers every queued event to its handler, and the executor answers every
frame it reads. So the client's handlers (`OnOpen`, the four `Receive*` actions,
`CloseEvent`) and the executor's `ServerReceiveInstr`, `ServerResult` and
`ServerCancel` are weakly fair. The operator (`CancelClick`), the network
(`RemoteClose`) and a faulty server (`ServerSendBlob`, `ServerLog`) have no fairness:
nothing in the code makes them act.

GenerationDriver: the client handlers and the generator's init, instruction and
close steps are weakly fair. The generator's status frames, malformed frames and the
drop are not. CommandPipeline: the browser runs each session's handlers (open, close
listener, execution open), and an execution with a non-empty list ends (that is
`ExecutionDriver`'s `Termination`). An HTTP state request is eventually answered or
fails. The operator's presses and clicks and a drop owe nothing.
CommandBuilder has no fairness and no liveness property. Every step is an operator's
click, except the guest-list answer, and the code has no timeout or error handler that
would make that answer come.
`DeploymentPage`, `CreationPage` and `HostConfigPage` have no fairness and no liveness
property. None of their requests has a timeout or a retry, and every step is either an
operator's action or a server answer that the code does not wait for.

## 4. Correspondence with the code (ExecutionDriver)

* `ws` is `command_runner_websocket.readyState`. `close()` moves it to `"closing"` (no
  message is delivered after that), and the `close` event (`CloseEvent`, or
  `RemoteClose` for a drop) moves it to `"closed"` and runs `reset_running_state`.
* `current_command`, `messages_received` and `n_commands` are the closure variables of
  the same name. An instruction is identified by its index in `generated_commands`.
* `handle_message` is split by its branches into `ReceiveBlob`, `ReceiveCancelAck`,
  `ReceiveLog` and `ReceiveReply`. The counting branch (`CountReply`) has three
  alternatives: first reply, second reply of the last instruction, and second reply
  with more to send.
* `outcome` is the verdict line the handler writes ("End of command running.",
  "Command has been cancelled…", the binary-frame error).
* The executor (`srv_*`) is not in these sources. It is modelled from the wire contract:
  one acknowledgement and one outcome per instruction, Logs in between, a Cancel read
  even while executing, answered by the cancel acknowledgement, after which it stops.

## 5. Correspondence with the code (GenerationDriver)

* `gws` is `command_generator_websocket.readyState`. `OnOpen` is its `onopen`: it sends
  the request (`request_sent`), sets the badge active (`indicator_active`) and writes
  RUNNING.
* `onmessage` is split by its branches. `ReceiveMalformed` is a frame on which
  `JSON.parse` throws. `ReceiveInitOrStatus` covers the init message and the status
  message and latches `command_generation_failure`. `ReceiveInstruction` appends to
  `generated_commands`.
* `CloseListener` is the `addEventListener('close', …)` callback. It hands over
  (`handover = "execute"`, `handed = generated_commands`) or aborts and resets.
* The generator (`plan`, `gen_phase`, `Gen*`) is not in these sources. It is modelled
  from the wire contract: an init message (ok, or error followed by a close), then
  instructions and status frames, then a close. `init_ok_seen` and `error_seen` are
  history variables for the properties.

## 6. Correspondence with the code (CommandPipeline)

* A session is one button press. `phase` follows it through request_command
  (`gen_connecting`, `gen_open`) and run_orchestration (`exec_connecting`, `exec_open`)
  to `ended`.
* `indicator` is the `text-bg-primary` class of `#pseudoTerminalConnectionState`.
  `cancel_enabled` is the button's `disabled` property. `handlers` is the list of click
  handlers jQuery holds for `#cancelCommandButton`, one per `run_orchestration`, in
  binding order. `Reached` runs them the way jQuery dispatches: a handler on an open
  socket sends Cancel, one on a closed socket does nothing, and one on a connecting
  socket throws and stops the rest.
* `Reset` is `reset_running_state`. `refresh[s]` is the GET that session's reset
  issued: `ServeRefresh` is the server reading the deployment state, `DeliverRefresh`
  the success callback (`Shown` is its mapping to text), `RefreshFails` the error
  callback.
* `dep_state` is the deployment state on the server. It is `running` while an
  executor runs a non-empty list, and up, down or failed afterwards.

## 7. Correspondence with the code (ResponseClassifier, InstructionLabel)

* `formatServerResponseMessages(p)` is the function's `switch (true)` on the first
  key. `ListLines` is the List branch: `MessagesWith` is the `forEach` partition,
  `Join` is `Array.join(", ")` with the separator as a word, and `Bracketed` is the
  `"[ " … " ]"` wrapping. A line keeps its level (`log_text_with_colour`'s INFO or
  ERROR, or RAW for text appended as received) and its words. Timestamps and HTML
  spans are left out.
* `SpecListLines` is specification 4.4's rule, written independently: one line per
  success flag that has entries, bracketed only if it has several.
* `Display` is `handle_message`'s call of the classifier. The model checks one call per
  payload, because the function keeps no state between calls.
* `InstructionLabel!formatServerSendMessages` covers `getInstructionName` and the three
  `extract*` functions. A resource is the part of its JSON shape they read. A lookup
  on `undefined` is `Throws`, and `Undefined` is the value a missing name yields.
  `ExecutionDriver!Sendable(i)` is "this call returns", and `send_message`,
  `OnOpen` and `CountReply` take the throwing path when it does not.

## 8. Correspondence with the code (CommandBuilder)

* The variables are the page state the form handlers keep. `selectedOption`,
  `selectedToolOption` and `selectedSnapshotOption` are the closure variables of lines
  3-5. `tool_select` is the value `#toolOptionsDropdown` shows, or "absent" when the
  exec panel has none. `exec_inputs` and `snap_inputs` are the ids of the inputs
  `generateInputs` put in the two panels. `guest[p]` is the guest row of panel `p`:
  "none", "pending" until `addDeviceDropDown`'s `$.get` answers, or the guest the
  select shows. `request` is what the last press handed to `request_command`, or `Threw`.
  `typed` is a history variable: the normalised Command text that press read.
* `SelectExecSubcommand` is the two click handlers on `#execSubcommandMenu` (lines 7 and
  75). `ChooseTool` is the two change handlers on `#toolOptionsDropdown`: the one bound on
  the element at line 103 and the delegated one at line 15 (`StoreSelectedTool`). `SelectSnapshotSubcommand` is
  the two handlers on `#subcommandMenu`. `GuestsLoaded` is the `$.get` callback, and
  `PickGuest` is the operator choosing in a filled select.
* `Click(b)` is the orchestration-button handler (243-250). `Commands(b, t)` is
  `get_button_command_json`, `ExecRequest` is its exec branch, and `GuestName` is
  `toolingGetGuestName`. The value of a checkbox is chosen at the press; so is the text of
  the Command input, from `Texts`.
* `Normalize` is `.trim().replace(/\s+/g, ' ')`. `MatchEnd` and `Matches` are
  `String.match` with the regex `(?:[^\s"]+|"[^"]*")+` and the g flag: at each position
  the units of word characters and closed quoted runs are taken greedily, and a position
  where neither starts is skipped. `StripQuotes` is `replace(/(^"|"$)/g, '')`. `Tokenize`
  is `convertCommandToListOfStrings`, with the `null.map` throw.
* `SpecTokens` and `WellQuoted` are written from the specification alone.
  `MCCommandBuilder` enumerates all 40 strings of up to three characters over a letter,
  a blank and a quote. Beside the model, the same comparison was run over every string of
  up to five characters: there the tokeniser fails on exactly the blank-only strings and
  a lone quote.
* Left out: labels and layout; the checkbox handler that disables the text inputs, whose
  values are still read; and the `$.get` without an error handler, whose row simply stays
  "pending".

## 9. Correspondence with the code (TopologyParser, DeploymentPage)

* A string is a tuple of characters. `LastSegment` is `split('-')[length - 1]`, which
  gives the empty string after a trailing dash. `Includes` is `String.includes`, and the
  empty string is included in every string. `FindNode` is `Array.find`, which returns the
  first match or undefined.
* `NodesOf` pushes hosts, switches, guests and routers in key order, as the four loops
  do. `parseStateData` throws without `network.ovn` (line 85), and `DistinctIds` is the
  `vis.DataSet` duplicate-id throw (line 153). Labels of hosts and guests, and the ip,
  mac and nic fields, feed only the info box and are left out.
* `NamedEdges` and `LabelsUnambiguous` are written from the naming conventions stated
  in the comments at lines 119 and 137, not from the code.
* Every `$.ajax`, `.load` and `fetch` is a request in `inflight`. Handling a request is
  the server's answer followed by its callback, with two exceptions. A `.load` is served
  (`LoadServed`: the server reads its YAML) and applied later (`LoadApplied`). A push
  whose page has gone is still served (`PushServed`).
* `box` and `dirty` model the textarea. `.load` replaces its text content, and that
  shows in `.val()` only until the operator types. A failed `.load` inserts nothing.
* `Edit` is the operator. `stale` and `unsaved` are history variables used only by the
  properties. A validation is marked `stale` when the box changes while it is pending,
  by an edit or by a reload.
* `DeleteServed` leaves the page and drops its callbacks, or, for a deployment already
  gone, takes the error handler's alert and stays. `DeletedElsewhere` is another client
  deleting the deployment while the page is shown. The creation page may then create
  it again.
* `parseStateData` reads `guestData.network.ip` (line 99), which throws for a guest
  without a `network` object. Every enumerated document gives its guests one, so that
  throw is left out.
* The state text box (line 37) only shows text, and is left out.

## 10. Correspondence with the code (CreationPage, HostConfigPage)

* `Press(k)` is each of the three click handlers, which send the values the boxes hold.
  `YamlValidated`, `NameValidated` and `CreateServed` are their handlers. The name is
  that of the one deployment the server may hold. What the server checks of a name is
  abstracted to "it does not exist yet". Whether create refuses an invalid YAML is
  decided by the server, outside these sources, so both outcomes are allowed.
* `DeploymentLifecycle` composes the two pages. A step of one page leaves the other
  page's variables unchanged, and `server` is shared.
* `Submit(u, i)` is the submit handler. Its four disjuncts are: the synchronous GET
  failing (JSON.parse throws); the two empty-field returns; and the POST of host.json
  with the two fields replaced. The POST is three steps. The server
  refuses it (`PostRefused`, the error handler), or writes host.json (`PostApplied`)
  and the answer reaches the page later (`PostAnswered`: the success handler with its
  refill, or the error handler when the connection is lost after the write). A fill is served (`FillServed`) and answered (`FillAnswered`) as two steps.
  `PanelFilled` is each of the two panel GETs, and `QemuSubmit` is the button that only
  empties the panel's alert.
* `nfill`, `shown` and `lostAnswer` are history variables. `nfill` is the sequence number of the
  newest fill sent, and `shown` is the sequence number of the fill whose answer the
  current fields show. `lostAnswer` records an applied POST answered with an
  error. On the creation page, `lastSent` is the text the last YAML
  validation sent.
* `ExternalWrite` is another writer of host.json, such as a second tab or the command
  line.

## 11. Not modelled

* The topology drawing (`drawTopology`, 163-233): layout and the click info box, with
  no state that the rest of the page reads.
* Text formatting of terminal lines (colours, timestamps, HTML): cosmetic.
