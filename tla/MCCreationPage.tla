---------------------------- MODULE MCCreationPage ----------------------------
(***************************************************************************)
(* The creation page alone, with a valid YAML text and the empty box and   *)
(* three presses, enough for two validations answered out of order.        *)
(***************************************************************************)
EXTENDS CreationPage

CONSTANTS y1, empty

=============================================================================
