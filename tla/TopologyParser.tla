--------------------------- MODULE TopologyParser ---------------------------
(***************************************************************************)
(* parseStateData (action_buttons.js): the deployment's state.json becomes *)
(* the node and edge lists of the topology drawing.  A string is a tuple   *)
(* of characters, so that split('-') and String.includes are what they    *)
(* are in JavaScript.  A state is the part of state.json the function      *)
(* reads: each collection is a sequence of [key, name] in object key       *)
(* order (hosts and guests have name = key), and a port is its name and    *)
(* its parent.  ovn is FALSE when state.network has no ovn object.         *)
(* Labels of hosts and guests (capitalised, " Host") and the ip, mac and   *)
(* nic fields are only shown in the info box, and are left out.            *)
(***************************************************************************)
EXTENDS Naturals, Sequences, SequencesExt

Dash == "-"

Throws == [throws |-> TRUE]

\* String.prototype.includes: t occurs in l; the empty string occurs in any.
Includes(l, t) == \E i \in 0 .. Len(l) - Len(t) : SubSeq(l, i + 1, i + Len(t)) = t

\* name.split('-')[length - 1]: what follows the last dash.
LastSegment(s) ==
  LET dashes == {i \in DOMAIN s : s[i] = Dash}
  IN IF dashes = {} THEN s ELSE SubSeq(s, Max(dashes) + 1, Len(s))

AsNodes(xs, shape) ==
  [i \in DOMAIN xs |-> [id |-> xs[i].key, shape |-> shape, label |-> xs[i].name]]

\* nodesArray: hosts, switches, guests, routers, each in key order.
NodesOf(st) ==
  AsNodes(st.hosts, "box") \o AsNodes(st.switches, "diamond")
    \o AsNodes(st.guests, "ellipse") \o AsNodes(st.routers, "triangle")

\* The first element of nodes that is in the set passing, as a one- or
\* zero-element sequence (Array.find, undefined when nothing passes).
FindNode(nodes, passing) ==
  LET found == SelectSeq(nodes, LAMBDA n : n \in passing) IN IF found = <<>> THEN <<>> ELSE <<Head(found)>>

\* Mutant: the whole port name is looked for in the switch labels.
RouterEdges_wholeName(st, nodes) ==
  LET link(p) ==
        LET sw == FindNode(nodes, {n \in ToSet(nodes) : n.shape = "diamond" /\ Includes(n.label, p.name)})
        IN IF sw = <<>> THEN <<>> ELSE <<[from |-> p.parent, to |-> sw[1].id]>>
  IN FlattenSeq([i \in DOMAIN st.rports |-> link(st.rports[i])])

\* A router port is linked to the first switch whose label includes the
\* last dash-separated part of the port's name.
RouterEdges(st, nodes) ==
  LET link(p) ==
        LET sw == FindNode(nodes, {n \in ToSet(nodes) : n.shape = "diamond"
                                             /\ Includes(n.label, LastSegment(p.name))})
        IN IF sw = <<>> THEN <<>> ELSE <<[from |-> p.parent, to |-> sw[1].id]>>
  IN FlattenSeq([i \in DOMAIN st.rports |-> link(st.rports[i])])

\* A switch port links its parent switch to the first node whose id is the
\* last part of the port's name or the whole name; both must exist.
SwitchEdges(st, nodes) ==
  LET link(p) ==
        LET sn == FindNode(nodes, {n \in ToSet(nodes) : n.id = p.parent})
            dn == FindNode(nodes, {n \in ToSet(nodes) : n.id = LastSegment(p.name) \/ n.id = p.name})
        IN IF sn = <<>> \/ dn = <<>> THEN <<>> ELSE <<[from |-> sn[1].id, to |-> dn[1].id]>>
  IN FlattenSeq([i \in DOMAIN st.sports |-> link(st.sports[i])])

\* new vis.DataSet(nodesArray) throws when two nodes have the same id.
DistinctIds(nodes) == \A i, j \in DOMAIN nodes : nodes[i].id = nodes[j].id => i = j

\* parseStateData; stateData.network.ovn.switches throws without ovn.
parseStateData(st) ==
  IF ~st.ovn THEN Throws
  ELSE LET nodes == NodesOf(st)
       IN IF ~DistinctIds(nodes) THEN Throws
          ELSE [throws |-> FALSE,
                nodes  |-> {n.id : n \in ToSet(nodes)},
                edges  |-> ToSet(RouterEdges(st, nodes) \o SwitchEdges(st, nodes))]

-----------------------------------------------------------------------------
(* The topology the port naming conventions in the comments describe       *)
(* ('deploymentName-routerName-switchName', 'switchName-DeviceName'): a     *)
(* router port reaches the switch named by its last part, and a switch     *)
(* port of an existing switch reaches the node its last part is the key of.*)
NamedEdges(st) ==
     UNION {{[from |-> p.parent, to |-> s.key] :
               s \in {s \in ToSet(st.switches) : s.name = LastSegment(p.name)}} :
              p \in ToSet(st.rports)}
  \cup {[from |-> p.parent, to |-> LastSegment(p.name)] :
        p \in {p \in ToSet(st.sports) :
                 /\ p.parent \in {s.key : s \in ToSet(st.switches)}
                 /\ LastSegment(p.name) \in {n.id : n \in ToSet(NodesOf(st))}}}

\* Switch labels are distinct, and the last part of a router port's name
\* occurs in no switch label other than the one it equals.
LabelsUnambiguous(st) ==
  /\ \A s, t \in ToSet(st.switches) : s.name = t.name => s = t
  /\ \A p \in ToSet(st.rports), s \in ToSet(st.switches) :
        Includes(s.name, LastSegment(p.name)) => s.name = LastSegment(p.name)

=============================================================================
