------------------------ MODULE MCResponseClassifier ------------------------
EXTENDS ResponseClassifier

CONSTANTS m1, m2, instr, raw

MCMsgs == {m1, m2}
=============================================================================
