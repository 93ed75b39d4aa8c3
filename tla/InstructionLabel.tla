-------------------------- MODULE InstructionLabel --------------------------
(***************************************************************************)
(* The "making request" line formatServerSendMessages prints before        *)
(* send_message sends an instruction (run_command.js getInstructionName,   *)
(* extractContextFromCommandJson, extractNameForAllResources,              *)
(* extractNameForOneResource).  An instruction is abstracted to the JSON   *)
(* shape these functions look at; a label is the words of the line, or     *)
(* Throws when a property lookup on undefined raises a TypeError, which    *)
(* leaves send_message before the send.  Address details (subnets,         *)
(* gateways, chassis) are one word, "ctx".                                 *)
(***************************************************************************)
EXTENDS Naturals, Sequences, SequencesExt

\* What a lookup on undefined does to the caller.
Throws == [throws |-> TRUE]

Words(ws) == [throws |-> FALSE, words |-> ws]

\* The value undefined: "undefined" when concatenated, "" inside Array.join.
Undefined == [throws |-> FALSE, undefined |-> TRUE]

\* The Ovn resources whose context reads ["Subnet"] of an address.
SubnetKinds == {"Route", "Nat", "DhcpOption"}

OvnTitle(kind) ==
  CASE kind = "Switch"          -> <<"Switch">>
    [] kind = "SwitchPort"      -> <<"Switch Port">>
    [] kind = "Router"          -> <<"Router">>
    [] kind = "RouterPort"      -> <<"Router Port">>
    [] kind = "Route"           -> <<"Static Route">>
    [] kind = "Nat"             -> <<"Nat Rule">>
    [] kind = "DhcpOption"      -> <<"DHCP Option rule">>
    [] kind = "ExternalGateway" -> <<"External Gateway">>
    [] OTHER                    -> <<>>

\* The Ovn kinds printed with their name, and those printed with a context.
NamedKinds == {"Switch", "SwitchPort", "Router", "RouterPort"}

\* extractNameForOneResource.  A resource is a record with a kind "Guest",
\* "Network" (with net, ovn, subnet and name), "Other" or "String" (a JSON
\* string where an object was expected: "Guest" in a string throws).
extractNameForOneResource(r) ==
  CASE r.kind = "Guest"   -> Words(<<r.name>>)
    [] r.kind = "String"  -> Throws
    [] r.kind = "Network" ->
         IF r.net # "Ovn" \/ (r.ovn \in SubnetKinds /\ ~r.subnet) THEN Throws
         ELSE Words(<<"Ovn">> \o OvnTitle(r.ovn)
                     \o (IF r.ovn \in NamedKinds THEN <<r.name>>
                         ELSE IF r.ovn \in SubnetKinds \cup {"ExternalGateway"}
                              THEN <<"ctx">> ELSE <<>>))
    [] OTHER              -> Undefined

\* The words a name contributes to Array.join.
Joined(l) == IF "undefined" \in DOMAIN l THEN <<>> ELSE l.words

\* extractNameForAllResources: an array is bracketed and joined, whatever
\* its length; one resource is its name, and undefined prints as such.
extractNameForAllResources(body) ==
  IF body.array
  THEN LET names == [i \in 1 .. Len(body.items) |-> extractNameForOneResource(body.items[i])]
       IN IF \E i \in DOMAIN names : names[i].throws THEN Throws
          ELSE Words(<<"[">> \o FlattenSeq([i \in DOMAIN names |->
                                              IF i = 1 THEN Joined(names[i])
                                              ELSE <<",">> \o Joined(names[i])]) \o <<"]">>)
  ELSE LET l == extractNameForOneResource(body.item)
       IN IF "undefined" \in DOMAIN l THEN Words(<<"undefined">>) ELSE l

\* extractContextFromCommandJson: only Deploy and Destroy get a context.
extractContextFromCommandJson(instr) ==
  IF instr.variant \in {"Deploy", "Destroy"}
  THEN extractNameForAllResources(instr.body)
  ELSE Words(<<>>)

\* formatServerSendMessages on generated_commands[i]; an element past the
\* end of the list is undefined, and getInstructionName throws on it.  An
\* instruction is either a bare string (tag "string") or an object with one
\* variant key.
formatServerSendMessages(instr) ==
  CASE instr.tag = "undefined" -> Throws
    [] instr.tag = "string"    -> Words(<<"making request:", instr.name>>)
    [] OTHER ->
         LET ctx == extractContextFromCommandJson(instr)
         IN IF ctx.throws THEN Throws
            ELSE Words(<<"making request:", instr.variant>> \o ctx.words)

=============================================================================
