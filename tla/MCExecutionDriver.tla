-------------------------- MODULE MCExecutionDriver --------------------------
(* Model values for ExecutionDriver.                                        *)
EXTENDS ExecutionDriver

\* generated lists of one to three instructions: the first, a middle and the
\* last instruction all occur
MCInstrCounts == 1 .. 3

\* lists of up to two instructions, the empty list included, as handed over
\* when generation ends without error
MCShortCounts == 0 .. 2

\* Deploy of a list of resources, one a guest: labelled "[ nginx ]".
MCDeployGuests ==
  [tag |-> "object", variant |-> "Deploy",
   body |-> [array |-> TRUE, items |-> <<[kind |-> "Guest", name |-> "nginx"]>>]]

\* A bare instruction name, as for Init or Setup.
MCInit == [tag |-> "string", name |-> "Init"]

\* Destroy of one Ovn static route whose prefix is not a Subnet: the label
\* reads prefix["Subnet"]["ip"] of undefined.
MCDestroyHostRoute ==
  [tag |-> "object", variant |-> "Destroy",
   body |-> [array |-> FALSE,
             item |-> [kind |-> "Network", net |-> "Ovn", ovn |-> "Route",
                       subnet |-> FALSE, name |-> "r0"]]]

MCInstructions == {MCDeployGuests, MCInit, MCDestroyHostRoute}
MCShapes == {MCInit, MCDestroyHostRoute}
=============================================================================
