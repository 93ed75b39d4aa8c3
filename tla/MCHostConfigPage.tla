-------------------------- MODULE MCHostConfigPage --------------------------
(***************************************************************************)
(* Model of the host configuration page: two users/interfaces and the     *)
(* empty field, two values of the other fields of host.json, two POSTs    *)
(* and two writes by someone else.                                         *)
(***************************************************************************)
EXTENDS HostConfigPage

CONSTANTS v1, v2, o1, o2, none

=============================================================================
