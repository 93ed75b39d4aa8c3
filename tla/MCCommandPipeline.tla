------------------------- MODULE MCCommandPipeline -------------------------
EXTENDS CommandPipeline
=============================================================================
