------------------------- MODULE DeploymentLifecycle -------------------------
(***************************************************************************)
(* The creation page and the page of the deployment it creates, acting on  *)
(* the server's one copy of the deployment.  The deployment page can be    *)
(* opened (from the creation modal's link or the deployment list) once the *)
(* server holds the deployment; its delete removes it, after which the     *)
(* creation page may create it again.  Each page's steps leave the other   *)
(* page's variables alone.                                                 *)
(***************************************************************************)
EXTENDS Naturals

CONSTANTS Yamls, ValidYamls, NoText, States, MaxClicks, MaxCreateClicks

VARIABLES
  server,
  page, box, dirty, inflight, nreq, clicks, topology, graph, fetched, unsaved,
  ctext, yamlBadge, nameBadge, creqs, cclicks, created, lastSent

D == INSTANCE DeploymentPage
C == INSTANCE CreationPage

dvars == <<page, box, dirty, inflight, nreq, clicks, topology, graph, fetched, unsaved>>
cvars == <<ctext, yamlBadge, nameBadge, creqs, cclicks, created, lastSent>>
vars  == <<server, dvars, cvars>>

\* The name typed on the creation page may or may not be taken already.
Init ==
  /\ server \in {[exists |-> FALSE, yaml |-> NoText]} \cup [exists : {TRUE}, yaml : Yamls]
  /\ D!PageInit
  /\ C!CreationInit

Next ==
  \/ D!Next /\ UNCHANGED cvars
  \/ C!Next /\ UNCHANGED dvars

Spec == Init /\ [][Next]_vars

-----------------------------------------------------------------------------
TypeOK ==
  /\ D!TypeOK
  /\ ctext \in Yamls
  /\ {yamlBadge, nameBadge} \subseteq {"secondary", "success", "danger"}
  /\ \A r \in creqs : r.k \in {"validateYaml", "validateName", "create"} /\ r.text \in Yamls
  /\ cclicks \in 0 .. MaxCreateClicks
  /\ created \in BOOLEAN

\* The deployment page's properties, over deployments the creation page made.
PushesValidatedText == D!PushesValidatedText
PushedYamlValidated == D!PushedYamlValidated
\* A deployment created on the creation page after an outside delete is
\* new to the deployment page, which has no reason to show its YAML.
SettledBoxIsStored  == ~created => D!SettledBoxIsStored
TopologyAsNamed     == D!TopologyAsNamed
TopologyAsNamedAlways == D!TopologyAsNamedAlways

=============================================================================
