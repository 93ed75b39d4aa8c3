--------------------------- MODULE HostConfigPage ---------------------------
(***************************************************************************)
(* The host configuration page (configuration_setup.js).  Submitting the  *)
(* host form reads host.json with a synchronous GET, overwrites user and   *)
(* main_interface with the form's values, and POSTs the whole object back; *)
(* the success handler refills the "current" fields with an asynchronous   *)
(* GET, as the page's load does.  The QEMU and monitoring panels are       *)
(* filled once at load.  The server answers the asynchronous requests in   *)
(* any order, may fail any of them, and host.json's other fields may be    *)
(* written by someone else (another tab, the command line) at any time.    *)
(* Alerts are their kinds; badge colours and texts are left out.           *)
(***************************************************************************)
EXTENDS Naturals, Sequences

CONSTANTS
  Values,       \* the non-empty texts the user and interface fields can hold
  Others,       \* values of the rest of host.json
  Empty,        \* the empty field
  MaxSubmits,   \* bound on the submits that reach the POST
  MaxExternal,  \* bound on the writes by someone else
  ServerFails   \* whether the server may fail a request

ASSUME Empty \notin Values /\ ServerFails \in BOOLEAN

VARIABLES
  host,      \* the server's host.json: [user, main_interface, other]
  current,   \* #setupConfigUserCurrent / ...MainInterfaceCurrent: [user, main_interface]
  hostAlert, \* the alerts in #setupHostJsonAlertPlaceholder, in order
  reqs,      \* asynchronous requests sent and not yet handled
  nsub,      \* POSTs sent so far (request ids)
  panels,    \* the QEMU and monitoring panels: "pending", "shown", "alert", "cleared"
  written,   \* history: the writes to the other fields so far
  lastOther, \* history: the value someone else last wrote there
  nfill,     \* history: fills sent so far, the newest fill's sequence number
  shown,     \* history: the sequence number of the fill the current fields show
  lostAnswer \* history: an applied POST was answered with an error

history == <<written, lastOther, nfill, shown, lostAnswer>>
vars == <<host, current, hostAlert, reqs, nsub, panels, history>>

Unset == [user |-> Empty, main_interface |-> Empty]

\* fill_current_host_json_values: a GET the server serves later.
Fill(id, seq) == [id |-> id, k |-> "fill", seq |-> seq, served |-> FALSE, v |-> Unset]

\* History: the POSTs in flight were built from other fields that have
\* since changed.
MarkStale(rs) == {IF r.k = "post" THEN [r EXCEPT !.stale = TRUE] ELSE r : r \in rs}

Init ==
  /\ host \in [user : Values, main_interface : Values, other : Others]
  /\ current = Unset
  /\ hostAlert = <<>>
  /\ reqs = {Fill(0, 1)}
  /\ nsub = 0
  /\ panels = [qemu |-> "pending", monitoring |-> "pending"]
  /\ written = 0
  /\ lastOther = host.other
  /\ nfill = 1
  /\ shown = 0
  /\ lostAnswer = FALSE

\* The object POSTed: host.json as the GET read it, with the two fields
\* replaced by the form's values.
Posted(u, i) == [host EXCEPT !.user = u, !.main_interface = i]

\* Mutant: the two emptiness checks are dropped and the form's values are
\* copied into the object whatever they are.
Submit_noCheck(u, i) ==
  \/ /\ ServerFails
     /\ hostAlert' = <<>>
     /\ UNCHANGED <<reqs, nsub>>
  \/ /\ nsub < MaxSubmits
     /\ hostAlert' = <<>>
     /\ reqs' = reqs \cup {[id |-> nsub + 1, k |-> "post", stale |-> FALSE, json |-> Posted(u, i)]}
     /\ nsub' = nsub + 1

\* The click handler on #setupConfigHostJsonSubmit.  The synchronous GET
\* either fails, and JSON.parse throws out of the handler, or returns the
\* host.json the server holds now; an empty field stops the handler with a
\* danger alert; otherwise the edited object is POSTed.
Submit(u, i) ==
  \/ /\ ServerFails
     /\ hostAlert' = <<>>
     /\ UNCHANGED <<reqs, nsub>>
  \/ /\ u = Empty
     /\ hostAlert' = <<"userEmpty">>
     /\ UNCHANGED <<reqs, nsub>>
  \/ /\ u # Empty
     /\ i = Empty
     /\ hostAlert' = <<"interfaceEmpty">>
     /\ UNCHANGED <<reqs, nsub>>
  \/ /\ u # Empty
     /\ i # Empty
     /\ nsub < MaxSubmits
     /\ hostAlert' = <<>>
     /\ reqs' = reqs \cup {[id |-> nsub + 1, k |-> "post", stale |-> FALSE, json |-> Posted(u, i)]}
     /\ nsub' = nsub + 1

SubmitHost ==
  /\ \E u, i \in Values \cup {Empty} : Submit(u, i)
  /\ UNCHANGED <<host, current, panels, history>>

\* The success handler's fill_current_host_json_values.
Refill(r) == Fill(r.id, nfill + 1)

\* The server replaces host.json with the object POSTed; its answer is on
\* its way back.
PostApplied(r) ==
  /\ r \in reqs
  /\ r.k = "post"
  /\ host' = r.json
  /\ reqs' = LET rest == IF r.json.other = host.other THEN reqs \ {r}
                         ELSE MarkStale(reqs \ {r})
             IN rest \cup {[id |-> r.id, k |-> "applied"]}
  /\ UNCHANGED <<current, hostAlert, nsub, panels, history>>

\* The server refuses the POST: the error handler appends a danger alert.
PostRefused(r) ==
  /\ r \in reqs
  /\ r.k = "post"
  /\ ServerFails
  /\ hostAlert' = Append(hostAlert, "updateFailed")
  /\ reqs' = reqs \ {r}
  /\ UNCHANGED <<host, current, nsub, panels, history>>

\* The answer to an applied POST reaches the page.  The success handler
\* appends a success alert and refills the current values; an error (the
\* connection lost after the write) runs the error handler instead.
PostAnswered(r) ==
  /\ r \in reqs
  /\ r.k = "applied"
  /\ \/ /\ hostAlert' = Append(hostAlert, "updated")
        /\ reqs' = (reqs \ {r}) \cup {Refill(r)}
        /\ nfill' = nfill + 1
        /\ UNCHANGED lostAnswer
     \/ /\ ServerFails
        /\ hostAlert' = Append(hostAlert, "updateFailed")
        /\ reqs' = reqs \ {r}
        /\ lostAnswer' = TRUE
        /\ UNCHANGED nfill
  /\ UNCHANGED <<host, current, nsub, panels, written, lastOther, shown>>

\* The server answers a fill with the host.json it holds when it serves it.
FillServed(r) ==
  /\ r \in reqs
  /\ r.k = "fill"
  /\ ~r.served
  /\ reqs' = (reqs \ {r}) \cup {[r EXCEPT !.served = TRUE,
                                          !.v = [user |-> host.user,
                                                 main_interface |-> host.main_interface]]}
  /\ UNCHANGED <<host, current, hostAlert, nsub, panels, history>>

\* Mutant: the success handler sets only the user field.
FillAnswered_userOnly(r) ==
  /\ r \in reqs
  /\ r.k = "fill"
  /\ \/ /\ r.served
        /\ current' = [current EXCEPT !.user = r.v.user]
        /\ shown' = r.seq
     \/ /\ ServerFails
        /\ UNCHANGED <<current, shown>>
  /\ reqs' = reqs \ {r}
  /\ UNCHANGED <<host, hostAlert, nsub, panels, written, lastOther, nfill, lostAnswer>>

\* The fill's success handler sets the current fields; its error handler
\* does nothing.
FillAnswered(r) ==
  /\ r \in reqs
  /\ r.k = "fill"
  /\ \/ /\ r.served
        /\ current' = r.v
        /\ shown' = r.seq
     \/ /\ ServerFails
        /\ UNCHANGED <<current, shown>>
  /\ reqs' = reqs \ {r}
  /\ UNCHANGED <<host, hostAlert, nsub, panels, written, lastOther, nfill, lostAnswer>>

\* fill_current_qemu_conf_values and fill_current_resource_monitoring_state:
\* each GET shows its values or a danger alert.
PanelFilled(p) ==
  /\ panels[p] = "pending"
  /\ \E outcome \in IF ServerFails THEN {"shown", "alert"} ELSE {"shown"} :
       panels' = [panels EXCEPT ![p] = outcome]
  /\ UNCHANGED <<host, current, hostAlert, reqs, nsub, history>>

\* #setupConfigQemuConfSubmit only empties the QEMU panel's alert.
QemuSubmit ==
  /\ panels.qemu = "alert"
  /\ panels' = [panels EXCEPT !.qemu = "cleared"]
  /\ UNCHANGED <<host, current, hostAlert, reqs, nsub, history>>

\* Someone else writes the other fields of host.json.
ExternalWrite(o) ==
  /\ written < MaxExternal
  /\ host' = [host EXCEPT !.other = o]
  /\ written' = written + 1
  /\ lastOther' = o
  /\ reqs' = MarkStale(reqs)
  /\ UNCHANGED <<current, hostAlert, nsub, panels, nfill, shown, lostAnswer>>

Next ==
  \/ SubmitHost
  \/ \E r \in reqs : \/ PostApplied(r) \/ PostRefused(r) \/ PostAnswered(r)
                   \/ FillServed(r) \/ FillAnswered(r)
  \/ \E p \in {"qemu", "monitoring"} : PanelFilled(p)
  \/ QemuSubmit
  \/ \E o \in Others : ExternalWrite(o)

Spec == Init /\ [][Next]_vars

-----------------------------------------------------------------------------
TypeOK ==
  /\ host \in [user : Values, main_interface : Values, other : Others]
  /\ current \in [user : Values \cup {Empty}, main_interface : Values \cup {Empty}]
  /\ \A n \in DOMAIN hostAlert :
       hostAlert[n] \in {"userEmpty", "interfaceEmpty", "updated", "updateFailed"}
  /\ \A r \in reqs : r.k \in {"post", "applied", "fill"} /\ r.id \in 0 .. nsub
  /\ nsub \in 0 .. MaxSubmits
  /\ written \in 0 .. MaxExternal

\* The other fields of host.json hold what was last written there.
OtherFieldsKept == host.other = lastOther

\* Whenever the current fields show the answer of the newest fill sent,
\* they show the user and main interface the server holds, provided every
\* POST the server applied has had its success answer: that answer sends a
\* fill after the write, and a fill reads host.json when it is served.  An
\* answer to an older fill, landing between the write and the answer of
\* the POST or after a newer fill's answer, leaves the fields behind until
\* the next fill's answer.
CurrentShowsNewestFill ==
  shown = nfill /\ ~lostAnswer /\ (\A r \in reqs : r.k # "applied")
    => current = [user |-> host.user, main_interface |-> host.main_interface]

\* Once every request is answered, the current fields show the user and
\* main interface the server holds (a failed fill leaves them as they were,
\* so this is asked of a server that does not fail).
CurrentShowsHost ==
  reqs = {} => current = [user |-> host.user, main_interface |-> host.main_interface]

=============================================================================
