-------------------------- MODULE MCDeploymentLifecycle --------------------------
(***************************************************************************)
(* Model of the deployment lifecycle: two valid YAML texts and the empty   *)
(* box (which /api/validate/yaml rejects), two presses of Update or Delete *)
(* on the deployment page, one press on the creation page, and state.json  *)
(* documents in which switch labels, port names and node keys agree,      *)
(* clash or contain one another.                                           *)
(***************************************************************************)
EXTENDS DeploymentLifecycle

CONSTANTS y1, y2, empty

MCYamls == {y1, y2, empty}

Host   == [key |-> <<"h">>, name |-> <<"h">>]
SwA    == [key |-> <<"a">>, name |-> <<"s">>]
SwB    == [key |-> <<"b">>, name |-> <<"s", "s">>]
Guest  == [key |-> <<"g">>, name |-> <<"g">>]
GuestA == [key |-> <<"a">>, name |-> <<"a">>]
Router == [key |-> <<"r">>, name |-> <<"r">>]

RouterPort(n) == [name |-> n, parent |-> <<"r">>]
SwitchPort(n, sw) == [name |-> n, parent |-> sw]

SwitchPorts == <<SwitchPort(<<"s", "-", "g">>, <<"a">>), SwitchPort(<<"g">>, <<"b">>)>>

Topo(sws, gs, rps, ovn) ==
  [hosts |-> <<Host>>, switches |-> sws, guests |-> gs, routers |-> <<Router>>,
   rports |-> rps, sports |-> SwitchPorts, ovn |-> ovn]

\* Router port names ending in a switch label, in a longer one, or in a
\* dash (whose empty last segment every label includes).
PortNames == {<<"r", "-", "s">>, <<"r", "-", "s", "s">>, <<"r", "-">>}

\* One or two switches (one label inside the other) against each router
\* port name or none; a guest whose key is a switch's; a network without
\* ovn.
MCStatesAll ==
  {Topo(sws, <<Guest>>, rps, TRUE) :
     sws \in {<<SwA>>, <<SwB, SwA>>},
     rps \in {<<>>} \cup {<<RouterPort(n)>> : n \in PortNames}}
  \cup {Topo(<<SwA>>, <<GuestA>>, <<>>, TRUE), Topo(<<SwA>>, <<Guest>>, <<>>, FALSE)}

\* Those whose switch labels String.includes cannot confuse, the states on
\* which TopologyAsNamed says something: no port ending in a dash, and no
\* port ending in "s" beside a switch labelled "ss".
MCStates ==
  {Topo(sws, <<Guest>>, rps, TRUE) :
     sws \in {<<SwA>>, <<SwB, SwA>>},
     rps \in {<<>>, <<RouterPort(<<"r", "-", "s", "s">>)>>}}
  \cup {Topo(<<SwA>>, <<Guest>>, <<RouterPort(<<"r", "-", "s">>)>>, TRUE)}
  \cup {Topo(<<SwA>>, <<GuestA>>, <<>>, TRUE), Topo(<<SwA>>, <<Guest>>, <<>>, FALSE)}

=============================================================================
