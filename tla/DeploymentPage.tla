--------------------------- MODULE DeploymentPage ---------------------------
(***************************************************************************)
(* The page of one deployment (action_buttons.js): the YAML box with its   *)
(* validate -> push -> reload chain, the delete button, and the topology   *)
(* drawn from the fetched state.json.  Each $.ajax, .load and fetch is a   *)
(* request in flight; the server answers them in any order, and answers a *)
(* .load with the YAML it holds when it serves it, which the page applies  *)
(* later.  #yamlTextBox is a textarea: .load sets its text content, which  *)
(* changes the value .val() reads only while the operator has not typed in *)
(* it (its dirty flag).  The state box (.load of state?pretty=true) only   *)
(* shows text and is left out.                                             *)
(***************************************************************************)
EXTENDS Naturals, FiniteSets

CONSTANTS
  Yamls,       \* the texts the YAML box can hold
  ValidYamls,  \* those /api/validate/yaml accepts
  NoText,      \* the empty box
  States,      \* the state.json documents the server may answer
  MaxClicks    \* bound on the operator's presses of Update and Delete

ASSUME ValidYamls \subseteq Yamls /\ NoText \in Yamls \ ValidYamls

VARIABLES
  server,    \* the server's copy of the deployment: [exists, yaml]
  page,      \* "none" before it is opened, "open", "left" after the delete's redirect
  box,       \* the value of #yamlTextBox
  dirty,     \* the operator has typed in the box
  inflight,  \* requests sent and not yet handled
  nreq,      \* requests sent so far (request ids)
  clicks,    \* presses of Update and Delete so far
  topology,  \* "pending", "failed" (the fetch chain threw) or "drawn"
  graph,     \* the nodes and edges handed to drawTopology
  fetched,   \* history: the state.json the fetch read
  unsaved    \* history: the box was edited after the last push was sent

vars == <<server, page, box, dirty, inflight, nreq, clicks, topology, graph, fetched, unsaved>>

TP == INSTANCE TopologyParser

\* The value of a .load the server has not served yet, and the answer of
\* the server for a deployment it no longer has.
Unserved == "unserved"
Missing  == "missing"

\* A request: its kind, the text it carries, what a .load was served, and
\* (history) whether the box was edited while a validation was pending.
Request(k, t) == [id |-> nreq, k |-> k, text |-> t, v |-> Unserved, stale |-> FALSE]

Load == Request("load", NoText)

-----------------------------------------------------------------------------
PageInit ==
  /\ page = "none"
  /\ box = NoText
  /\ dirty = FALSE
  /\ inflight = {}
  /\ nreq = 0
  /\ clicks = 0
  /\ topology = "pending"
  /\ graph = [nodes |-> {}, edges |-> {}]
  /\ fetched = "none"
  /\ unsaved = FALSE

\* Alone, the page is opened on a deployment the server already has.
Init == server \in [exists : {TRUE}, yaml : Yamls] /\ PageInit

\* document.ready: the YAML box is loaded (line 4) and the state fetched
\* (line 56, TopologyLoaded).
Open ==
  /\ page = "none"
  /\ server.exists
  /\ page' = "open"
  /\ inflight' = {Load}
  /\ nreq' = nreq + 1
  /\ UNCHANGED <<server, box, dirty, clicks, topology, graph, fetched, unsaved>>

\* The operator types in the box.  Validations already sent are marked.
Edit(t) ==
  /\ page = "open"
  /\ t # box
  /\ box' = t
  /\ dirty' = TRUE
  /\ unsaved' = TRUE
  /\ inflight' = {[r EXCEPT !.stale = r.stale \/ r.k = "validate"] : r \in inflight}
  /\ UNCHANGED <<server, page, nreq, clicks, topology, graph, fetched>>

\* #updateYamlButton: POST the box's value to /api/validate/yaml.
ClickUpdate ==
  /\ page = "open"
  /\ clicks < MaxClicks
  /\ clicks' = clicks + 1
  /\ inflight' = inflight \cup {Request("validate", box)}
  /\ nreq' = nreq + 1
  /\ UNCHANGED <<server, page, box, dirty, topology, graph, fetched, unsaved>>

\* The success handler: read the box again and push that text.
ValidateSucceeds(r) ==
  /\ page = "open"
  /\ r \in inflight
  /\ r.k = "validate"
  /\ r.text \in ValidYamls
  /\ inflight' = (inflight \ {r}) \cup {[Request("push", box) EXCEPT !.stale = r.stale]}
  /\ nreq' = nreq + 1
  /\ unsaved' = FALSE
  /\ UNCHANGED <<server, page, box, dirty, clicks, topology, graph, fetched>>

\* Mutant: the error handler pushes as well.
ValidateFails_pushes(r) ==
  /\ page = "open"
  /\ r \in inflight
  /\ r.k = "validate"
  /\ r.text \notin ValidYamls
  /\ inflight' = (inflight \ {r}) \cup {[Request("push", box) EXCEPT !.stale = r.stale]}
  /\ nreq' = nreq + 1
  /\ unsaved' = FALSE
  /\ UNCHANGED <<server, page, box, dirty, clicks, topology, graph, fetched>>

\* The error handler: alert(error.responseText).
ValidateFails(r) ==
  /\ page = "open"
  /\ r \in inflight
  /\ r.k = "validate"
  /\ r.text \notin ValidYamls
  /\ inflight' = inflight \ {r}
  /\ UNCHANGED <<server, page, box, dirty, nreq, clicks, topology, graph, fetched, unsaved>>

\* The server stores a pushed text if it still has the deployment; the
\* success handler, if the page is still shown, reloads the box (line 21),
\* and the error handler alerts.
PushServed(r) ==
  /\ r \in inflight
  /\ r.k = "push"
  /\ server' = IF server.exists THEN [server EXCEPT !.yaml = r.text] ELSE server
  /\ IF server.exists /\ page = "open"
       THEN /\ inflight' = (inflight \ {r}) \cup {Load}
            /\ nreq' = nreq + 1
       ELSE /\ inflight' = inflight \ {r}
            /\ UNCHANGED nreq
  /\ UNCHANGED <<page, box, dirty, clicks, topology, graph, fetched, unsaved>>

\* The server answers a GET .../yaml with the text it holds now.
LoadServed(r) ==
  /\ r \in inflight
  /\ r.k = "load"
  /\ r.v = Unserved
  /\ inflight' = (inflight \ {r})
                   \cup {[r EXCEPT !.v = IF server.exists THEN server.yaml ELSE Missing]}
  /\ UNCHANGED <<server, page, box, dirty, nreq, clicks, topology, graph, fetched, unsaved>>

\* Mutant: a failed GET's response body is put in the box as well.
LoadApplied_errorBody(r) ==
  /\ page = "open"
  /\ r \in inflight
  /\ r.k = "load"
  /\ r.v # Unserved
  /\ box' = IF dirty THEN box ELSE r.v
  /\ inflight' = {[q EXCEPT !.stale = q.stale \/ (q.k = "validate" /\ box' # box)] :
                    q \in inflight \ {r}}
  /\ UNCHANGED <<server, page, dirty, nreq, clicks, topology, graph, fetched, unsaved>>

\* .load's completion: on success the box's text content is replaced, which
\* shows only while the box is not dirty; a failed GET inserts nothing.
\* Validations pending when the box changes are marked.
LoadApplied(r) ==
  /\ page = "open"
  /\ r \in inflight
  /\ r.k = "load"
  /\ r.v # Unserved
  /\ box' = IF r.v = Missing \/ dirty THEN box ELSE r.v
  /\ inflight' = {[q EXCEPT !.stale = q.stale \/ (q.k = "validate" /\ box' # box)] :
                    q \in inflight \ {r}}
  /\ UNCHANGED <<server, page, dirty, nreq, clicks, topology, graph, fetched, unsaved>>

\* #deleteDeploymentButton: POST .../delete.
ClickDelete ==
  /\ page = "open"
  /\ clicks < MaxClicks
  /\ clicks' = clicks + 1
  /\ inflight' = inflight \cup {Request("delete", NoText)}
  /\ nreq' = nreq + 1
  /\ UNCHANGED <<server, page, box, dirty, topology, graph, fetched, unsaved>>

\* The server deletes the deployment and the success handler leaves the
\* page, whose pending callbacks are dropped, while the pushes it sent are
\* still served; a deployment already gone is an error, which the error
\* handler alerts and the page stays.
DeleteServed(r) ==
  /\ r \in inflight
  /\ r.k = "delete"
  /\ \/ /\ server.exists
        /\ server' = [server EXCEPT !.exists = FALSE]
        /\ page' = "left"
        /\ inflight' = {q \in inflight \ {r} : q.k = "push"}
     \/ /\ ~server.exists
        /\ inflight' = inflight \ {r}
        /\ UNCHANGED <<server, page>>
  /\ UNCHANGED <<box, dirty, nreq, clicks, topology, graph, fetched, unsaved>>

\* The deployment is deleted from elsewhere (another tab, the command line)
\* while this page is shown.
DeletedElsewhere ==
  /\ page = "open"
  /\ server.exists
  /\ server' = [server EXCEPT !.exists = FALSE]
  /\ UNCHANGED <<page, box, dirty, inflight, nreq, clicks, topology, graph, fetched, unsaved>>

\* fetch(state).then(parseStateData).then(drawTopology); a throw anywhere
\* in the chain is only logged.
TopologyLoaded ==
  /\ page = "open"
  /\ topology = "pending"
  /\ \E st \in States :
       LET g == TP!parseStateData(st)
       IN /\ fetched' = st
          /\ topology' = IF g.throws THEN "failed" ELSE "drawn"
          /\ graph' = IF g.throws THEN graph ELSE [nodes |-> g.nodes, edges |-> g.edges]
  /\ UNCHANGED <<server, page, box, dirty, inflight, nreq, clicks, unsaved>>

\* The browser has left the page and the server has nothing left to serve.
Finished ==
  /\ page = "left"
  /\ inflight = {}
  /\ UNCHANGED vars

Next ==
  \/ Open
  \/ \E t \in Yamls : Edit(t)
  \/ ClickUpdate
  \/ ClickDelete
  \/ TopologyLoaded
  \/ DeletedElsewhere
  \/ \E r \in inflight :
       \/ ValidateSucceeds(r)
       \/ ValidateFails(r)
       \/ PushServed(r)
       \/ LoadServed(r)
       \/ LoadApplied(r)
       \/ DeleteServed(r)
  \/ Finished

Spec == Init /\ [][Next]_vars

-----------------------------------------------------------------------------
TypeOK ==
  /\ server \in [exists : BOOLEAN, yaml : Yamls]
  /\ page \in {"none", "open", "left"}
  /\ box \in Yamls
  /\ dirty \in BOOLEAN
  /\ \A r \in inflight :
       /\ r.k \in {"load", "validate", "push", "delete"}
       /\ r.text \in Yamls
       /\ r.v \in Yamls \cup {Unserved, Missing}
       /\ r.stale \in BOOLEAN
       /\ r.id < nreq
  /\ clicks \in 0 .. MaxClicks
  /\ topology \in {"pending", "failed", "drawn"}
  /\ topology = "pending" \/ fetched \in States

\* A push sent by the page carries a text /api/validate/yaml accepted,
\* unless the box changed while that validation was pending, by the
\* operator's typing or by a reload of a YAML written elsewhere: the
\* success handler reads $('#yamlTextBox').val() a second time.
PushesValidatedText ==
  \A r \in inflight : r.k = "push" /\ ~r.stale => r.text \in ValidYamls

\* The same without the exception: every pushed text was validated.
PushedYamlValidated ==
  \A r \in inflight : r.k = "push" => r.text \in ValidYamls

\* Once the page and server are quiet, and the operator has not typed since
\* the last push, the box shows the YAML the server holds (the success
\* handler's "update textbox"), while the deployment still exists.
SettledBoxIsStored ==
  page = "open" /\ server.exists /\ inflight = {} /\ ~unsaved => box = server.yaml

\* A drawn topology has every key of the state as a node and the edges the
\* port naming conventions give, whenever the switch labels cannot be
\* mistaken for one another by String.includes.
TopologyAsNamed ==
  topology = "drawn" /\ TP!LabelsUnambiguous(fetched) =>
    graph.edges = TP!NamedEdges(fetched)

\* The same for every state the server may answer.
TopologyAsNamedAlways ==
  topology = "drawn" => graph.edges = TP!NamedEdges(fetched)

=============================================================================
