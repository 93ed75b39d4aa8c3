------------------------- MODULE MCGenerationDriver -------------------------
(* Model values for GenerationDriver.                                       *)
EXTENDS GenerationDriver

CONSTANTS i1, i2

\* two distinct instructions, so that a lost or reordered one shows
MCInstrs == {i1, i2}
=============================================================================
