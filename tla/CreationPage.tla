---------------------------- MODULE CreationPage ----------------------------
(***************************************************************************)
(* The deployment creation page (create_deployment.js): a YAML text box     *)
(* and a name box, two validate buttons that colour a badge each, and the  *)
(* create button.  The name typed is that of the one deployment the        *)
(* server may hold (server.exists); what the server checks of a name is    *)
(* abstracted to "no deployment of that name exists".  The requests are   *)
(* answered in any order.  Console output, alert texts and the modal's     *)
(* wording are left out.                                                   *)
(***************************************************************************)
EXTENDS Naturals

CONSTANTS
  Yamls,          \* the texts the YAML box can hold
  ValidYamls,     \* those /api/validate/yaml accepts
  NoText,         \* the empty box
  MaxCreateClicks \* bound on the presses of the page's three buttons

VARIABLES
  server,     \* the server's copy of the deployment: [exists, yaml]
  ctext,      \* the value of #projectYamlText
  yamlBadge,  \* the class of #yamlValidationBadge: secondary, success or danger
  nameBadge,  \* the class of #projectValidationBadge
  creqs,      \* requests sent and not yet handled
  cclicks,    \* presses so far (request ids)
  created,    \* #deploymentCreateSuccessModal was shown, with its link
  lastSent    \* history: the text the last YAML validation sent

cvars == <<ctext, yamlBadge, nameBadge, creqs, cclicks, created, lastSent>>

CRequest(k, t) == [id |-> cclicks, k |-> k, text |-> t]

CreationInit ==
  /\ ctext = NoText
  /\ yamlBadge = "secondary"
  /\ nameBadge = "secondary"
  /\ creqs = {}
  /\ cclicks = 0
  /\ created = FALSE
  /\ lastSent = NoText

\* Alone, the page is opened while the server has no deployment.
Init == server = [exists |-> FALSE, yaml |-> NoText] /\ CreationInit

EditYamlText(t) ==
  /\ t # ctext
  /\ ctext' = t
  /\ UNCHANGED <<server, yamlBadge, nameBadge, creqs, cclicks, created, lastSent>>

\* A press of #validateYamlButton, #validateProjectNameButton or
\* #createDeploymentButton sends its request with the boxes' values.
Press(k) ==
  /\ cclicks < MaxCreateClicks
  /\ creqs' = creqs \cup {CRequest(k, ctext)}
  /\ cclicks' = cclicks + 1
  /\ lastSent' = IF k = "validateYaml" THEN ctext ELSE lastSent
  /\ UNCHANGED <<server, ctext, yamlBadge, nameBadge, created>>

\* The YAML validation's handlers recolour the badge: success on 2xx,
\* danger (and an alert) otherwise.
YamlValidated(r) ==
  /\ r \in creqs
  /\ r.k = "validateYaml"
  /\ yamlBadge' = IF r.text \in ValidYamls THEN "success" ELSE "danger"
  /\ creqs' = creqs \ {r}
  /\ UNCHANGED <<server, ctext, nameBadge, cclicks, created, lastSent>>

\* The name validation is answered from what the server holds when it
\* serves the request.
NameValidated(r) ==
  /\ r \in creqs
  /\ r.k = "validateName"
  /\ nameBadge' = IF server.exists THEN "danger" ELSE "success"
  /\ creqs' = creqs \ {r}
  /\ UNCHANGED <<server, ctext, yamlBadge, cclicks, created, lastSent>>

\* POST /gui/deployments/create.  The server refuses a name it already
\* holds; whether it also refuses a YAML its validator rejects is not in
\* the client, so either may happen.  Success shows the modal, with the
\* link to the deployment's page; failure alerts.
CreateServed(r) ==
  /\ r \in creqs
  /\ r.k = "create"
  /\ \E accepted \in IF server.exists THEN {FALSE}
                     ELSE IF r.text \in ValidYamls THEN {TRUE} ELSE BOOLEAN :
       /\ server' = IF accepted THEN [exists |-> TRUE, yaml |-> r.text] ELSE server
       /\ created' = (created \/ accepted)
  /\ creqs' = creqs \ {r}
  /\ UNCHANGED <<ctext, yamlBadge, nameBadge, cclicks, lastSent>>

Next ==
  \/ \E t \in Yamls : EditYamlText(t)
  \/ \E k \in {"validateYaml", "validateName", "create"} : Press(k)
  \/ \E r \in creqs : YamlValidated(r) \/ NameValidated(r) \/ CreateServed(r)

Spec == Init /\ [][Next]_<<server, cvars>>

-----------------------------------------------------------------------------
\* Once no YAML validation is in flight, a coloured badge tells whether the
\* text the last validation sent is valid: the answers of earlier presses
\* must not be the last to colour it.
YamlBadgeShowsLastSent ==
  (\A r \in creqs : r.k # "validateYaml") /\ yamlBadge # "secondary" =>
    (yamlBadge = "success" <=> lastSent \in ValidYamls)

=============================================================================
